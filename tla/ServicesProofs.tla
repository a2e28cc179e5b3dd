---------------------------- MODULE ServicesProofs ---------------------------
(***************************************************************************)
(* What is served, embedded and screened, for any texts; and that what is  *)
(* proved of each service holds of all of them run as one (MCServices).    *)
(*                                                                         *)
(* Library.  SearchInv relates what a request has selected or loaded to    *)
(* the rows as they are now: ids of chunk rows only grow, so a row with    *)
(* the id that was read has the text that was read, however often          *)
(* ingestion has replaced the rows in between.  CitationInv says the same  *)
(* of the citation the client took home.                                   *)
(*                                                                         *)
(* Embedding.  That vectors are at their places does not preserve itself:  *)
(* the answers to a batch are numbered from `begin`, and begin is the      *)
(* number of vectors only as long as every batch before was complete.      *)
(*                                                                         *)
(* InjectionScan.  Scores are compared signal by signal, by induction over *)
(* the number of signals.                                                  *)
(*                                                                         *)
(* The services share no state: every step of MCServices is a step of one  *)
(* and a stutter of the others, so each of their specifications holds.     *)
(***************************************************************************)
EXTENDS MCServices, LimitsProofs, ChunkingProofs

StoredTexts == Texts \cup {<<>>}
Rows  == [id : Nat, text : StoredTexts]

\* What every request relies on.
RequestTyped ==
    /\ doc \in [Docs -> DocStatuses]
    /\ rows \in [Docs -> Rows]
    /\ setting = workspace
    /\ sinceSearch \subseteq Docs /\ sinceLoad \subseteq Docs
    /\ pc \in {"idle", "select", "load", "respond", "resolve", "commit"}
    /\ pc # "respond" => served = {}

\* The document's row is the one that was read, or a later one.
StillOrLater(d, id, said) ==
    /\ rows[d].id >= id
    /\ rows[d].id = id => rows[d].text = said

\* What has been loaded.
ServedOK(c) ==
    /\ c.doc \in Docs /\ c.id \in Nat /\ c.text \in StoredTexts
    /\ home[c.doc] = workspace
    /\ StillOrLater(c.doc, c.id, c.text)
    /\ c.doc \notin sinceLoad =>
          /\ doc[c.doc] = "ready" /\ rows[c.doc] # NoRows
          /\ rows[c.doc] = [id |-> c.id, text |-> c.text]

\* Documents that match now and did when they were selected are in the result, or
\* the limit left some out.
MissesNone(result) ==
    \/ \A d \in Matching \ sinceSearch : d \in result
    \/ Cardinality(Matching \cup sinceSearch) > Limit

SearchInv ==
    /\ RequestTyped
    /\ \A c \in served : ServedOK(c)
    /\ pc = "load" => MissesNone({d \in Docs : Chunk(d) \in candidates})
    /\ pc = "respond" => MissesNone({c.doc : c \in served})

-----------------------------------------------------------------------------
(* Ingestion.                                                               *)

\* A step of a worker touches one document, and gives it new rows only with a new id.
LEMMA IngestTouches ==
  ASSUME RequestTyped, NEW d \in Docs, Ingest(d)
  PROVE  /\ doc' \in [Docs -> DocStatuses] /\ rows' \in [Docs -> Rows]
         /\ \A e \in Docs : \/ rows'[e] = rows[e]
                            \/ rows'[e].id = rows[e].id + 1
         /\ \A e \in Docs \ {d} : doc'[e] = doc[e] /\ rows'[e] = rows[e]
         /\ UNCHANGED <<fixed, request, held>>
<1>1. CASE TakeUp(d)
  BY <1>1 DEF Ingest, TakeUp, RequestTyped, DocStatuses
<1>2. CASE rows[d].id < MaxSets /\ \E t \in Texts : ReplaceRows(d, NewRows(d, t))
  BY <1>2 DEF Ingest, ReplaceRows, NewRows, RequestTyped, Rows, StoredTexts
<1>3. CASE \E o \in {"ready", "quarantined", "failed"} : doc[d] # o /\ Settle(d, o)
  BY <1>3 DEF Ingest, Settle, RequestTyped, DocStatuses
<1> QED
  BY <1>1, <1>2, <1>3 DEF Ingest

\* A row that was read is still there or has been replaced by a later one.
LEMMA LaterStays ==
  ASSUME RequestTyped, NEW d \in Docs, Ingest(d), NEW e \in Docs, NEW id \in Nat,
         NEW said \in StoredTexts, StillOrLater(e, id, said)
  PROVE  StillOrLater(e, id, said)'
  BY IngestTouches DEF StillOrLater, RequestTyped, Rows

\* A set of documents that was complete stays so.
LEMMA MissesNoneStays ==
  ASSUME SearchInv, NEW d \in Docs, Ingest(d), pc \in {"load", "respond"},
         NEW S, MissesNone(S)
  PROVE  /\ \/ \A e \in Matching' \ sinceSearch' : e \in S
            \/ Cardinality(Matching' \cup sinceSearch') > Limit
         /\ sinceSearch' = sinceSearch \cup {d}
<1>1. sinceSearch' = sinceSearch \cup {d}
  BY DEF Ingest
<1>2. \A e \in Docs \ {d} : e \in Matching <=> e \in Matching'
  BY IngestTouches DEF SearchInv, Matching, Readable, Visible, Own, fixed, request
<1>3. Matching \cup sinceSearch \subseteq Matching' \cup sinceSearch'
  BY <1>1, <1>2 DEF SearchInv, RequestTyped, Matching
<1>4. IsFiniteSet(Matching' \cup sinceSearch') /\ Matching' \cup sinceSearch' \subseteq Docs
  <2>1. Matching' \cup sinceSearch' \subseteq Docs
    BY <1>1 DEF Matching, SearchInv, RequestTyped
  <2> QED
    BY <2>1, FS_Subset, LibraryAssumption
<1>5. CASE \A e \in Matching \ sinceSearch : e \in S
  BY <1>1, <1>2, <1>5 DEF Matching
<1>6. CASE Cardinality(Matching \cup sinceSearch) > Limit
  <2>1. /\ IsFiniteSet(Matching \cup sinceSearch)
        /\ Cardinality(Matching \cup sinceSearch) <= Cardinality(Matching' \cup sinceSearch')
    BY <1>3, <1>4, FS_Subset
  <2>2. /\ Cardinality(Matching \cup sinceSearch) \in Nat
        /\ Cardinality(Matching' \cup sinceSearch') \in Nat
    BY <2>1, <1>4, FS_CardinalityType
  <2> QED
    BY <1>1, <1>6, <2>1, <2>2, LibraryAssumption
<1> QED
  BY <1>1, <1>5, <1>6 DEF MissesNone

\* A worker's step leaves what requests have read as good as it was.
LEMMA IngestKeepsSearch == SearchInv /\ (\E d \in Docs : Ingest(d)) => SearchInv'
<1> SUFFICES ASSUME SearchInv, NEW d \in Docs, Ingest(d) PROVE SearchInv'
  OBVIOUS
<1> USE DEF fixed, request
<1>1. RequestTyped /\ RequestTyped'
  BY IngestTouches DEF SearchInv, RequestTyped, Ingest
<1>2. ASSUME NEW c \in served PROVE ServedOK(c)'
  <2>1. ServedOK(c) /\ pc = "respond"
    BY <1>1, <1>2 DEF SearchInv, RequestTyped
  <2>2. StillOrLater(c.doc, c.id, c.text)'
    BY <1>1, <2>1, LaterStays DEF ServedOK
  <2>3. sinceLoad' = sinceLoad \cup {d}
    BY <2>1 DEF Ingest
  <2> QED
    BY <1>1, <2>1, <2>2, <2>3, IngestTouches DEF ServedOK
<1>3. ASSUME pc = "load" PROVE MissesNone({e \in Docs : Chunk(e) \in candidates})'
  <2> DEFINE S == {e \in Docs : Chunk(e) \in candidates}
  <2>1. /\ \/ \A e \in Matching' \ sinceSearch' : e \in S
           \/ Cardinality(Matching' \cup sinceSearch') > Limit
        /\ sinceSearch' = sinceSearch \cup {d}
    BY <1>3, MissesNoneStays DEF SearchInv
  <2>2. ASSUME NEW e \in Matching' \ sinceSearch', e \in S PROVE e \in S'
    BY <1>1, <2>1, <2>2, IngestTouches DEF Chunk
  <2> QED
    BY <2>1, <2>2 DEF MissesNone
<1>4. ASSUME pc = "respond" PROVE MissesNone({c.doc : c \in served})'
  BY <1>4, MissesNoneStays, IngestTouches DEF SearchInv, MissesNone
<1> QED
  BY <1>1, <1>2, <1>3, <1>4, IngestTouches DEF SearchInv

-----------------------------------------------------------------------------
(* The search.                                                              *)

\* The statement that selects leaves nothing out unless the limit makes it.
LEMMA SelectMissesNone == SearchInv /\ Select => SearchInv'
<1> SUFFICES ASSUME SearchInv, Select PROVE SearchInv'
  OBVIOUS
<1>1. PICK best \in SUBSET Matching :
         /\ Cardinality(best) = IF Cardinality(Matching) < Limit
                                THEN Cardinality(Matching) ELSE Limit
         /\ candidates' = {Chunk(d) : d \in best}
  BY DEF Select
<1>2. IsFiniteSet(Matching) /\ Cardinality(Matching) \in Nat
  BY FS_Subset, FS_CardinalityType, LibraryAssumption DEF Matching
<1>3. /\ doc' = doc /\ rows' = rows /\ home' = home /\ enforced' = enforced /\ query' = query
      /\ only' = only /\ setting' = setting /\ workspace' = workspace /\ served' = served
      /\ pc' = "load" /\ pc = "select" /\ sinceSearch' = {} /\ sinceLoad' = sinceLoad
  BY DEF Select, corpus, fixed
<1>4. Matching' = Matching
  BY <1>3 DEF Matching, Readable, Visible, Own
<1>5. MissesNone({d \in Docs : Chunk(d) \in candidates})'
  <2>1. CASE Cardinality(Matching) <= Limit
    <3>1. Cardinality(Matching) = Cardinality(best)
      BY <1>1, <1>2, <2>1, LibraryAssumption
    <3>2. best = Matching
      BY <1>2, <3>1, FS_Subset
    <3> QED
      BY <1>1, <1>3, <1>4, <3>2 DEF MissesNone, Matching, Chunk
  <2>2. CASE Cardinality(Matching) > Limit
    BY <1>3, <1>4, <2>2 DEF MissesNone
  <2> QED
    BY <1>2, <2>1, <2>2, LibraryAssumption
<1> QED
  BY <1>3, <1>5 DEF SearchInv, RequestTyped

\* Hydration returns rows as they are, and all candidates that still match.
LEMMA LoadIsExact == SearchInv /\ Load => SearchInv'
<1> SUFFICES ASSUME SearchInv, Load PROVE SearchInv'
  OBVIOUS
<1>1. /\ doc' = doc /\ rows' = rows /\ home' = home /\ enforced' = enforced /\ query' = query
      /\ only' = only /\ setting' = setting /\ workspace' = workspace
      /\ pc' = "respond" /\ pc = "load" /\ sinceSearch' = sinceSearch /\ sinceLoad' = {}
  BY DEF Load, corpus, fixed
<1>2. served' = {[doc |-> d, id |-> rows[d].id, text |-> rows[d].text] :
                    d \in {e \in Docs : Readable(e) /\ Chunk(e) \in candidates}}
  BY DEF Load
<1>3. Matching' = Matching
  BY <1>1 DEF Matching, Readable, Visible, Own
<1>4. ASSUME NEW c \in served' PROVE ServedOK(c)'
  <2>1. PICK d \in Docs : Readable(d) /\ c = [doc |-> d, id |-> rows[d].id, text |-> rows[d].text]
    BY <1>2, <1>4
  <2>2. rows[d] \in Rows
    BY DEF SearchInv, RequestTyped
  <2> QED
    BY <1>1, <2>1, <2>2 DEF ServedOK, StillOrLater, Readable, Own, Rows
<1>5. MissesNone({c.doc : c \in served})'
  <2>1. \A d \in Matching : Chunk(d) \in candidates => d \in {c.doc : c \in served'}
    <3> SUFFICES ASSUME NEW d \in Matching, Chunk(d) \in candidates
                 PROVE  d \in {c.doc : c \in served'}
      OBVIOUS
    <3>1. [doc |-> d, id |-> rows[d].id, text |-> rows[d].text] \in served'
      BY <1>2 DEF Matching
    <3> QED
      BY <3>1
  <2>2. Matching \subseteq Docs
    BY DEF Matching
  <2> QED
    BY <1>1, <1>3, <2>1, <2>2 DEF SearchInv, MissesNone
<1> QED
  BY <1>1, <1>4, <1>5 DEF SearchInv, RequestTyped

\* What is selected and loaded keeps its meaning in every step.
LEMMA SearchStep == SearchInv /\ [LibraryNext]_library => SearchInv'
<1> SUFFICES ASSUME SearchInv, [LibraryNext]_library PROVE SearchInv'
  OBVIOUS
<1> USE DEF corpus, fixed, request, changes
<1>1. ASSUME NEW w \in Workspaces, NEW terms, NEW d, OpenSearch(w, terms, d) PROVE SearchInv'
  BY <1>1 DEF OpenSearch, SearchInv, RequestTyped
<1>2. ASSUME NEW w \in Workspaces, NEW ref, OpenResolve(w, ref) PROVE SearchInv'
  BY <1>2 DEF OpenResolve, SearchInv, RequestTyped
<1>3. CASE Respond \/ CommitResolve \/ FailRequest
  BY <1>3 DEF Respond, CommitResolve, FailRequest, Close, SearchInv, RequestTyped
<1>4. CASE Resolve
  BY <1>4 DEF Resolve, SearchInv, RequestTyped
<1>5. CASE UNCHANGED library
  BY <1>5 DEF library, SearchInv, RequestTyped, ServedOK, StillOrLater, MissesNone, Matching,
     Readable, Visible, Own, Chunk
<1> QED
  BY <1>1, <1>2, <1>3, <1>4, <1>5, IngestKeepsSearch, SelectMissesNone, LoadIsExact
     DEF LibraryNext

LEMMA SearchInit == LibraryInit => SearchInv
  BY LibraryAssumption
  DEF LibraryInit, CorpusInit, SearchInv, RequestTyped, DocStatuses, Rows, StoredTexts

\* Selecting and loading in two statements returns what one statement would have, for
\* the documents that ingestion has left alone (retrieval/service.py, _hydrate).
THEOREM SearchesAreExact == LibrarySpec => []SearchIsExact
<1>1. SearchInv => SearchIsExact
  BY DEF SearchInv, ServedOK, SearchIsExact, MissesNone
<1> QED
  BY <1>1, SearchInit, SearchStep, PTL DEF LibrarySpec

-----------------------------------------------------------------------------
(* Citations.                                                               *)

Quoted(ref, said) ==
    /\ 0 <= ref.from /\ ref.from < ref.to /\ ref.to <= Len(said)
    /\ SubSeq(said, ref.from + 1, ref.to) = ref.quote

\* The citation the client has from a search.
HeldOK ==
    held # NoReference =>
        /\ held.doc \in Docs /\ held.id \in Nat
        /\ rows[held.doc].id >= held.id
        /\ rows[held.doc].id = held.id => Quoted(held, rows[held.doc].text)
        /\ ~moved => /\ doc[held.doc] = "ready" /\ rows[held.doc] # NoRows
                     /\ rows[held.doc].id = held.id

CitationInv ==
    /\ HeldOK
    /\ pc \in {"resolve", "commit"} => reference # NoReference
    /\ pc # "commit" => outcome = "none"
    /\ outcome \notin {"none", "citation_not_found"} => home[reference.doc] = workspace
    /\ CitationsHold

LEMMA CitationInit == LibraryInit => CitationInv
  BY DEF LibraryInit, CitationInv, HeldOK, CitationsHold

\* A worker's step leaves the citation good, or moves its document on.
LEMMA IngestKeepsCitation ==
  SearchInv /\ CitationInv /\ (\E d \in Docs : Ingest(d)) => CitationInv'
<1> SUFFICES ASSUME SearchInv, CitationInv, NEW d \in Docs, Ingest(d) PROVE CitationInv'
  OBVIOUS
<1>1. RequestTyped /\ UNCHANGED <<home, pc, workspace, reference, outcome, held>>
      /\ moved' = (moved \/ (held # NoReference /\ held.doc = d))
  BY IngestTouches DEF SearchInv, fixed, request, Ingest
<1>2. HeldOK'
  <2> SUFFICES ASSUME held # NoReference PROVE HeldOK'
    BY <1>1 DEF HeldOK
  <2>1. rows[held.doc] \in Rows /\ rows'[held.doc] \in Rows
        /\ (rows'[held.doc] = rows[held.doc] \/ rows'[held.doc].id = rows[held.doc].id + 1)
    BY <1>1, IngestTouches DEF CitationInv, HeldOK, RequestTyped
  <2>2. /\ rows'[held.doc].id >= held.id
        /\ rows'[held.doc].id = held.id => rows'[held.doc] = rows[held.doc]
    BY <2>1 DEF CitationInv, HeldOK, Rows
  <2>3. CASE held.doc = d
    BY <1>1, <2>2, <2>3 DEF CitationInv, HeldOK
  <2>4. CASE held.doc # d
    BY <1>1, <2>2, <2>4, IngestTouches DEF CitationInv, HeldOK
  <2> QED
    BY <2>3, <2>4
<1> QED
  BY <1>1, <1>2 DEF CitationInv, CitationsHold

\* A citation kept from an answer cites the words it was served with.
LEMMA RespondKeepsCitation == SearchInv /\ CitationInv /\ Respond => CitationInv'
<1> SUFFICES ASSUME SearchInv, CitationInv, Respond PROVE CitationInv'
  OBVIOUS
<1>1. UNCHANGED <<home, rows, doc>> /\ pc' = "idle" /\ outcome' = "none"
  BY DEF Respond, Close, corpus, fixed
<1>2. CASE UNCHANGED <<held, moved>>
  BY <1>1, <1>2 DEF CitationInv, HeldOK, CitationsHold
<1>3. CASE \E c \in served : \E from \in 0..(Len(c.text) - 1) : \E to \in (from + 1)..Len(c.text) :
              held' = Citing(c, from, to) /\ moved' = (c.doc \in sinceLoad)
  <2>1. PICK c \in served : \E from \in 0..(Len(c.text) - 1) : \E to \in (from + 1)..Len(c.text) :
              held' = Citing(c, from, to) /\ moved' = (c.doc \in sinceLoad)
    BY <1>3
  <2>2. ServedOK(c) /\ Len(c.text) \in Nat
    BY LibraryAssumption DEF SearchInv, ServedOK, StoredTexts
  <2>3. PICK from \in 0..(Len(c.text) - 1) : \E to \in (from + 1)..Len(c.text) :
              held' = Citing(c, from, to) /\ moved' = (c.doc \in sinceLoad)
    BY <2>1
  <2>6. PICK to \in (from + 1)..Len(c.text) :
              held' = Citing(c, from, to) /\ moved' = (c.doc \in sinceLoad)
    BY <2>3
  <2>4. Quoted(held', c.text) /\ held'.doc = c.doc /\ held'.id = c.id
    BY <2>2, <2>6 DEF Quoted, Citing
  <2>5. HeldOK'
    <3>1. /\ rows[c.doc].id >= c.id
          /\ rows[c.doc].id = c.id => Quoted(held', rows[c.doc].text)
      BY <2>2, <2>4 DEF ServedOK, StillOrLater
    <3>2. ~moved' => /\ doc[c.doc] = "ready" /\ rows[c.doc] # NoRows
                     /\ rows[c.doc].id = c.id
      <4>1. ~moved' => c.doc \notin sinceLoad
        BY <2>6, Zenon
      <4> QED
        BY <2>2, <4>1 DEF ServedOK
    <3>3. c.doc \in Docs /\ c.id \in Nat
      BY <2>2 DEF ServedOK
    <3> QED
      BY <1>1, <2>4, <3>1, <3>2, <3>3 DEF HeldOK
  <2> QED
    BY <1>1, <2>5 DEF CitationInv, CitationsHold
<1> QED
  BY <1>2, <1>3 DEF Respond

\* Resolving reads the row the citation names, in its own workspace, or finds nothing.
LEMMA ResolveIsSound == SearchInv /\ CitationInv /\ Resolve => CitationInv'
<1> SUFFICES ASSUME SearchInv, CitationInv, Resolve PROVE CitationInv'
  OBVIOUS
<1>1. /\ UNCHANGED <<doc, rows, home, enforced, setting, workspace, reference, held, moved>>
      /\ pc = "resolve" /\ pc' = "commit" /\ outcome' = Resolution(reference)
      /\ reference # NoReference /\ setting = workspace
  BY DEF Resolve, corpus, fixed, changes, CitationInv, SearchInv, RequestTyped
<1>2. outcome' # "citation_not_found" =>
         /\ Found(reference)
         /\ home[reference.doc] = workspace /\ reference.id = rows[reference.doc].id
  BY <1>1 DEF Resolution, Found, Readable, Own, Chunk
<1>3. ASSUME reference = held, home[held.doc] = workspace
      PROVE  /\ outcome' \in {"resolved", "citation_not_found"}
             /\ outcome' = "citation_not_found" => moved
  <2>1. ASSUME ~moved PROVE Found(held)
    <3>1. Readable(held.doc) /\ held.doc \in Docs /\ Chunk(held.doc).id = held.id
      BY <1>1, <1>3, <2>1 DEF CitationInv, HeldOK, Readable, Visible, Own, Chunk
    <3> QED
      BY <3>1 DEF Found
  <2>2. ASSUME Found(held) PROVE outcome' = "resolved"
    <3>1. rows[held.doc].id = held.id
      BY <2>2 DEF Found, Chunk
    <3>2. Quoted(held, rows[held.doc].text)
      BY <1>1, <1>3, <3>1 DEF CitationInv, HeldOK
    <3> QED
      BY <1>1, <1>3, <2>2, <3>2 DEF Resolution, Quoted
  <2>3. ~Found(held) => outcome' = "citation_not_found"
    BY <1>1, <1>3 DEF Resolution
  <2> QED
    BY <2>1, <2>2, <2>3
<1> QED
  BY <1>1, <1>2, <1>3 DEF CitationInv, HeldOK, CitationsHold

LEMMA CitationStep == SearchInv /\ CitationInv /\ [LibraryNext]_library => CitationInv'
<1> SUFFICES ASSUME SearchInv, CitationInv, [LibraryNext]_library PROVE CitationInv'
  OBVIOUS
<1> USE DEF corpus, fixed, request, changes
<1>1. ASSUME NEW w \in Workspaces, NEW terms, NEW d, OpenSearch(w, terms, d) PROVE CitationInv'
  BY <1>1 DEF OpenSearch, CitationInv, HeldOK, CitationsHold
<1>2. ASSUME NEW w \in Workspaces, NEW ref, OpenResolve(w, ref) PROVE CitationInv'
  BY <1>2 DEF OpenResolve, CitationInv, HeldOK, CitationsHold
<1>3. CASE Select \/ Load
  BY <1>3 DEF Select, Load, CitationInv, HeldOK, CitationsHold
<1>4. CASE CommitResolve \/ FailRequest
  BY <1>4 DEF CommitResolve, FailRequest, Close, CitationInv, HeldOK, CitationsHold
<1>5. CASE UNCHANGED library
  BY <1>5 DEF library, CitationInv, HeldOK, CitationsHold
<1> QED
  BY <1>1, <1>2, <1>3, <1>4, <1>5, IngestKeepsCitation, RespondKeepsCitation, ResolveIsSound
     DEF LibraryNext

LEMMA LibraryInvariant == LibrarySpec => [](SearchInv /\ CitationInv)
  BY SearchInit, CitationInit, SearchStep, CitationStep, PTL DEF LibrarySpec

\* A citation from a search never comes to stand for other words: it resolves to those
\* it was given with, or is not found because its document has changed
\* (citations/resolver.py).
THEOREM CitationsKeepTheirMeaning == LibrarySpec => []CitationsHold
  BY LibraryInvariant, PTL DEF CitationInv

\* Nothing of another workspace is served, resolved or told apart from what does not
\* exist, with row-level security or without (db/repositories/base.py).
THEOREM WorkspacesStayApart == LibrarySpec => []OwnWorkspaceOnly
<1>1. SearchInv /\ CitationInv => OwnWorkspaceOnly
  BY DEF SearchInv, ServedOK, CitationInv, OwnWorkspaceOnly
<1> QED
  BY <1>1, LibraryInvariant, PTL

-----------------------------------------------------------------------------
(* What requests are made of. *)

\* Only rows with an id of their own are ever selected, no more of them than the limit,
\* and a request that is open has its workspace.
LibraryInv ==
    /\ RequestTyped
    /\ screened \in SUBSET Docs
    /\ rows \in [Docs -> [id : 1..MaxSets, text : Texts] \cup {NoRows}]
    /\ pc = "idle" <=> workspace = Nowhere
    /\ candidates \subseteq [doc : Docs, id : 1..MaxSets] /\ IsFiniteSet(candidates)
    /\ Cardinality(candidates) <= Limit /\ Cardinality(served) <= Limit
    /\ outcome \in Outcomes

LEMMA EmptyWithinLimit == IsFiniteSet({}) /\ Cardinality({}) <= Limit
  BY FS_EmptySet, LibraryAssumption

\* What is made of no more than n things is no more than n things.
LEMMA ImageWithin ==
  ASSUME NEW S, IsFiniteSet(S), NEW f, NEW n \in Nat, Cardinality(S) <= n
  PROVE  IsFiniteSet({f[x] : x \in S}) /\ Cardinality({f[x] : x \in S}) <= n
  <1> DEFINE T == {f[x] : x \in S}
  <1>1. IsFiniteSet(T) /\ Cardinality(T) <= Cardinality(S)
    BY FiniteImage
  <1> HIDE DEF T
  <1>2. Cardinality(T) \in Nat /\ Cardinality(S) \in Nat
    BY <1>1, FS_CardinalityType
  <1>3. Cardinality(T) <= n
    BY <1>1, <1>2
  <1> QED BY <1>1, <1>3 DEF T

LEMMA IngestKeepsLibrary ==
  ASSUME LibraryInv, NEW d \in Docs, Ingest(d)
  PROVE  LibraryInv'
  <1>1. /\ doc' \in [Docs -> DocStatuses] /\ rows' \in [Docs -> Rows]
        /\ UNCHANGED <<fixed, request, held>>
    BY IngestTouches DEF LibraryInv
  <1>2. sinceSearch' \subseteq Docs /\ sinceLoad' \subseteq Docs
    BY DEF Ingest, LibraryInv, RequestTyped
  <1>3. screened' = screened
    BY DEF Ingest, TakeUp, ReplaceRows, Settle
  <1>4. rows' \in [Docs -> [id : 1..MaxSets, text : Texts] \cup {NoRows}]
    <2>1. CASE rows' = rows
      BY <2>1 DEF LibraryInv
    <2>2. ASSUME NEW t \in Texts, rows[d].id < MaxSets, ReplaceRows(d, NewRows(d, t))
          PROVE  rows' \in [Docs -> [id : 1..MaxSets, text : Texts] \cup {NoRows}]
      <3>1. rows[d] \in Rows
        BY DEF LibraryInv, RequestTyped
      <3>2. rows[d].id + 1 \in 1..MaxSets
        BY <2>2, <3>1, LibraryAssumption DEF Rows
      <3>3. NewRows(d, t) \in [id : 1..MaxSets, text : Texts]
        BY <3>2 DEF NewRows
      <3> QED BY <2>2, <3>3 DEF ReplaceRows, LibraryInv
    <2> QED BY <2>1, <2>2 DEF Ingest, TakeUp, Settle
  <1> QED BY <1>1, <1>2, <1>3, <1>4 DEF LibraryInv, RequestTyped, request

LEMMA SelectKeepsLibrary == ASSUME LibraryInv, Select PROVE LibraryInv'
  <1>1. PICK best \in SUBSET Matching :
           /\ Cardinality(best) = IF Cardinality(Matching) < Limit
                                  THEN Cardinality(Matching) ELSE Limit
           /\ candidates' = {Chunk(d) : d \in best}
    BY DEF Select
  <1>2. /\ IsFiniteSet(best) /\ IsFiniteSet(Matching)
        /\ Cardinality(best) \in Nat /\ Cardinality(Matching) \in Nat
    BY FS_Subset, FS_CardinalityType, LibraryAssumption DEF Matching
  <1>3. Cardinality(best) <= Limit
    BY <1>1, <1>2, LibraryAssumption
  <1>4. IsFiniteSet(candidates') /\ Cardinality(candidates') <= Limit
    <2> DEFINE f == [d \in best |-> Chunk(d)]
    <2>1. candidates' = {f[d] : d \in best}
      BY <1>1
    <2> HIDE DEF f
    <2> QED BY <1>2, <1>3, <2>1, ImageWithin, LibraryAssumption
  <1>5. candidates' \subseteq [doc : Docs, id : 1..MaxSets]
    <2> SUFFICES ASSUME NEW d \in best PROVE Chunk(d) \in [doc : Docs, id : 1..MaxSets]
      BY <1>1
    <2>1. d \in Docs /\ rows[d] # NoRows
      BY DEF Matching, Readable
    <2>2. rows[d] \in [id : 1..MaxSets, text : Texts]
      BY <2>1 DEF LibraryInv
    <2> QED BY <2>1, <2>2 DEF Chunk
  <1> QED BY <1>4, <1>5 DEF Select, LibraryInv, RequestTyped, corpus, fixed

LEMMA LoadKeepsLibrary == ASSUME LibraryInv, Load PROVE LibraryInv'
  <1> DEFINE chunk(d) == [doc |-> d, id |-> rows[d].id, text |-> rows[d].text]
             f == [c \in candidates |-> chunk(c.doc)]
             still == {c \in candidates : \E d \in Docs : Readable(d) /\ c = Chunk(d)}
  <1>1. IsFiniteSet(still) /\ Cardinality(still) <= Limit
    <2>1. IsFiniteSet(still) /\ Cardinality(still) <= Cardinality(candidates)
      BY FS_Subset DEF LibraryInv
    <2>2. Cardinality(still) \in Nat /\ Cardinality(candidates) \in Nat
      BY <2>1, FS_CardinalityType DEF LibraryInv
    <2> HIDE DEF still
    <2> QED BY <2>1, <2>2, LibraryAssumption DEF LibraryInv
  <1>2. served' = {f[c] : c \in still}
    <2>1. served' = {chunk(d) : d \in {e \in Docs : Readable(e) /\ Chunk(e) \in candidates}}
      BY DEF Load
    <2>2. ASSUME NEW d \in Docs, Readable(d), Chunk(d) \in candidates
          PROVE  Chunk(d) \in still /\ f[Chunk(d)] = chunk(d)
      BY <2>2 DEF Chunk
    <2>3. ASSUME NEW c \in still
          PROVE  \E d \in {e \in Docs : Readable(e) /\ Chunk(e) \in candidates} : f[c] = chunk(d)
      <3>1. PICK d \in Docs : Readable(d) /\ c = Chunk(d)
        OBVIOUS
      <3> QED BY <2>2, <3>1
    <2> HIDE DEF still, f, chunk
    <2> QED BY <2>1, <2>2, <2>3
  <1>3. Cardinality(served') <= Limit
    <2> HIDE DEF still, f
    <2> QED BY <1>1, <1>2, ImageWithin, LibraryAssumption
  <1> QED BY <1>3, EmptyWithinLimit DEF Load, LibraryInv, RequestTyped, corpus, fixed

LEMMA LibraryInductive == LibraryInv /\ [LibraryNext]_library => LibraryInv'
  <1> SUFFICES ASSUME LibraryInv, [LibraryNext]_library PROVE LibraryInv'
    OBVIOUS
  <1> USE DEF corpus, fixed, request, changes
  <1>1. ASSUME NEW w \in Workspaces, NEW terms, NEW d, OpenSearch(w, terms, d)
        PROVE  LibraryInv'
    BY <1>1, LibraryAssumption DEF OpenSearch, LibraryInv, RequestTyped
  <1>2. ASSUME NEW w \in Workspaces, NEW ref, OpenResolve(w, ref) PROVE LibraryInv'
    BY <1>2, LibraryAssumption DEF OpenResolve, LibraryInv, RequestTyped
  <1>3. CASE Respond \/ CommitResolve \/ FailRequest
    BY <1>3, EmptyWithinLimit
    DEF Respond, CommitResolve, FailRequest, Close, LibraryInv, RequestTyped, Outcomes
  <1>4. CASE Resolve
    <2>1. outcome' \in Outcomes
      BY <1>4 DEF Resolve, Resolution, Outcomes
    <2>2. workspace # Nowhere
      BY <1>4 DEF Resolve, LibraryInv
    <2> QED BY <1>4, <2>1, <2>2 DEF Resolve, LibraryInv, RequestTyped
  <1>5. CASE UNCHANGED library
    BY <1>5 DEF library, LibraryInv, RequestTyped
  <1> QED BY <1>1, <1>2, <1>3, <1>4, <1>5, IngestKeepsLibrary, SelectKeepsLibrary,
             LoadKeepsLibrary DEF LibraryNext

\* A request searches and resolves in the workspace that is bound to its transaction, and
\* is never given more than the limit, whatever ingestion replaces meanwhile.
THEOREM LibraryTyped == LibrarySpec => []LibraryTypeOK
  <1>1. LibraryInit => LibraryInv
    <2> SUFFICES ASSUME LibraryInit PROVE LibraryInv
      OBVIOUS
    <2>1. rows \in [Docs -> [id : 1..MaxSets, text : Texts] \cup {NoRows}]
      BY DEF LibraryInit, CorpusInit
    <2>2. RequestTyped
      BY SearchInit DEF SearchInv
    <2> QED BY <2>1, <2>2, EmptyWithinLimit DEF LibraryInit, CorpusInit, LibraryInv, Outcomes
  <1>2. LibraryInv => LibraryTypeOK
    BY DEF LibraryInv, RequestTyped, LibraryTypeOK
  <1> QED BY <1>1, <1>2, LibraryInductive, PTL DEF LibrarySpec

-----------------------------------------------------------------------------
\* As long as the call runs, the vectors are those of the batches before this one.
BatchesComplete ==
    embedding = "running" => Len(vectors) = IF begin <= total THEN begin ELSE total

AlignedInv == EmbeddingTypeOK /\ BatchesComplete /\ VectorsAligned

\* A batch that is not the last is full, and the last brings what is left.
LEMMA BatchEnds ==
  ASSUME EmbeddingTypeOK, Pending
  PROVE  /\ BatchLength \in Nat
         /\ begin + BatchLength = IF begin + BatchSize <= total THEN begin + BatchSize ELSE total
  BY EmbeddingAssumption DEF EmbeddingTypeOK, Pending, BatchLength

-----------------------------------------------------------------------------
\* The provider's answer keeps the invariant, whether it is complete or not.
LEMMA ReceiveKeepsAligned ==
  ASSUME AlignedInv, NEW n \in 0..(BatchSize + 1), NEW wrong \in SUBSET (1..n),
         Receive(n, wrong)
  PROVE  AlignedInv'
  <1>1. n \in Nat
    BY EmbeddingAssumption
  <1>2. CASE Complete(n)
    <2> DEFINE answers == Answers(n, wrong)
               entry == [text : Nat, right : BOOLEAN]
    <2>1. begin \in Nat /\ total \in Nat /\ begin < total /\ embedding = "running"
      BY DEF AlignedInv, EmbeddingTypeOK, Receive, Pending
    <2>2. /\ Len(vectors) = begin /\ vectors \in Seq(entry)
          /\ \A i \in 1..Len(vectors) : vectors[i].text = i
      BY <2>1 DEF AlignedInv, BatchesComplete, EmbeddingTypeOK, VectorsAligned
    <2>3. /\ answers \in Seq(entry) /\ Len(answers) = n
          /\ \A j \in 1..n : answers[j].text = begin + j
      BY <1>1, <2>1 DEF Answers
    <2>4. /\ vectors' = vectors \o answers /\ begin' = begin + BatchSize /\ attempt' = 1
          /\ embedding' = "running" /\ total' = total
      BY <1>2, <2>1 DEF Receive
    <2> HIDE DEF answers, entry
    <2>5. /\ vectors' \in Seq(entry) /\ Len(vectors') = begin + n
          /\ \A i \in 1..(begin + n) : vectors'[i] = IF i <= begin THEN vectors[i]
                                                      ELSE answers[i - begin]
      <3>1. /\ vectors \o answers \in Seq(entry)
            /\ Len(vectors \o answers) = Len(vectors) + Len(answers)
            /\ \A i \in 1..(Len(vectors) + Len(answers)) :
                  (vectors \o answers)[i] = IF i <= Len(vectors) THEN vectors[i]
                                            ELSE answers[i - Len(vectors)]
        BY <2>2, <2>3, ConcatProperties
      <3> QED BY <2>2, <2>3, <2>4, <3>1
    <2>6. \A i \in DOMAIN vectors' : vectors'[i].text = i
      BY <1>1, <2>1, <2>2, <2>3, <2>5
    <2>7. BatchesComplete'
      BY <1>2, <2>1, <2>4, <2>5, BatchEnds, EmbeddingAssumption
      DEF BatchesComplete, Complete, AlignedInv, Receive
    <2>8. EmbeddingTypeOK'
      BY <2>1, <2>4, <2>5, EmbeddingAssumption
      DEF EmbeddingTypeOK, EmbeddingOutcomes, entry
    <2> QED BY <2>4, <2>6, <2>7, <2>8 DEF AlignedInv, VectorsAligned
  <1>3. CASE ~Complete(n)
    BY <1>3 DEF AlignedInv, Receive, EmbeddingTypeOK, EmbeddingOutcomes, BatchesComplete,
                VectorsAligned
  <1> QED BY <1>2, <1>3

\* So do a failure, any other error and the final validation, which take no vector.
LEMMA OthersKeepAligned ==
  ASSUME AlignedInv, Retry \/ Raise \/ Validate
  PROVE  AlignedInv'
  <1>1. CASE Retry
    BY <1>1, EmbeddingAssumption DEF AlignedInv, Retry, Pending, LastAttempt, EmbeddingTypeOK,
       EmbeddingOutcomes, BatchesComplete, VectorsAligned
  <1>2. CASE Raise
    BY <1>2 DEF AlignedInv, Raise, EmbeddingTypeOK, EmbeddingOutcomes, BatchesComplete,
                VectorsAligned
  <1>3. CASE Validate
    <2>1. total \in Nat /\ DOMAIN vectors = 1..Len(vectors)
      BY DEF AlignedInv, EmbeddingTypeOK
    <2> QED BY <1>3, <2>1 DEF AlignedInv, Validate, EmbeddingTypeOK, EmbeddingOutcomes,
                              BatchesComplete, VectorsAligned
  <1> QED BY <1>1, <1>2, <1>3

LEMMA AlignedInductive ==
  EmbeddingSpec => []AlignedInv
  <1>1. EmbeddingInit => AlignedInv
    BY EmbeddingAssumption DEF EmbeddingInit, AlignedInv, EmbeddingTypeOK, EmbeddingOutcomes,
       BatchesComplete, VectorsAligned
  <1>2. AlignedInv /\ [EmbeddingNext]_embeddings => AlignedInv'
    <2> SUFFICES ASSUME AlignedInv, [EmbeddingNext]_embeddings PROVE AlignedInv'
      OBVIOUS
    <2>1. CASE EmbeddingNext
      BY <2>1, ReceiveKeepsAligned, OthersKeepAligned DEF EmbeddingNext
    <2>2. CASE UNCHANGED embeddings
      BY <2>2 DEF embeddings, AlignedInv, EmbeddingTypeOK, BatchesComplete, VectorsAligned
    <2> QED BY <2>1, <2>2
  <1> QED BY <1>1, <1>2, PTL DEF EmbeddingSpec

\* Every vector returned is that of the text at its place, whatever the provider answers.
THEOREM VectorsStayAligned == EmbeddingSpec => []VectorsAligned
  <1>1. AlignedInv => VectorsAligned
    BY DEF AlignedInv
  <1> QED BY <1>1, AlignedInductive, PTL

\* A call that runs has attempts left, and what it has is vectors of texts.
THEOREM EmbeddingTyped == EmbeddingSpec => []EmbeddingTypeOK
  <1>1. AlignedInv => EmbeddingTypeOK
    BY DEF AlignedInv
  <1> QED BY <1>1, AlignedInductive, PTL

-----------------------------------------------------------------------------
(* InjectionScan: the doubt that signals leave.                            *)

NextDoubt(left, weights, n) ==
    Doubt(left, IF n = 1 THEN weights[n] ELSE weights[n] \div 2)

IsDoubt(f, weights, m) ==
    f = [n \in 0..m |-> IF n = 0 THEN Whole ELSE NextDoubt(f[n - 1], weights, n)]

\* The recursive function exists, and is what its definition says.
LEMMA DoubtsDefined ==
  ASSUME NEW weights, Len(weights) \in Nat
  PROVE  IsDoubt(Doubts(weights), weights, Len(weights))
  <1> DEFINE P == {m \in Nat : \E f : IsDoubt(f, weights, m)}
  <1>1. 0 \in P
    <2>1. IsDoubt([n \in 0..0 |-> Whole], weights, 0)
      BY DEF IsDoubt
    <2> QED BY <2>1
  <1>2. ASSUME NEW m \in P PROVE m + 1 \in P
    <2>1. PICK f : IsDoubt(f, weights, m)
      OBVIOUS
    <2> DEFINE g == [n \in 0..(m + 1) |-> IF n <= m THEN f[n] ELSE NextDoubt(f[m], weights, n)]
    <2>2. \A n \in 0..(m + 1) :
             g[n] = IF n = 0 THEN Whole ELSE NextDoubt(g[n - 1], weights, n)
      <3> SUFFICES ASSUME NEW n \in 0..(m + 1)
                   PROVE  g[n] = IF n = 0 THEN Whole ELSE NextDoubt(g[n - 1], weights, n)
        OBVIOUS
      <3>1. CASE n <= m
        BY <2>1, <3>1 DEF IsDoubt
      <3>2. CASE n = m + 1
        BY <3>2
      <3> QED BY <3>1, <3>2
    <2>3. IsDoubt(g, weights, m + 1)
      BY <2>2 DEF IsDoubt
    <2> HIDE DEF g
    <2> QED BY <2>3
  <1> HIDE DEF P
  <1>3. P = Nat
    BY <1>1, <1>2, Induction DEF P
  <1>4. \E f : IsDoubt(f, weights, Len(weights))
    BY <1>3 DEF P
  <1> QED BY <1>4 DEF Doubts, IsDoubt, NextDoubt

\* Weights.
Thousandths == 0..1000

\* A product of natural numbers is one.
LEMMA NaturalProduct == \A m, n \in Nat : m * n \in Nat
  OBVIOUS

LEMMA Halves ==
  ASSUME NEW i \in Thousandths
  PROVE  /\ i \div 2 \in Thousandths
         /\ \A j \in Thousandths : i <= j => i \div 2 <= j \div 2
  <1>1. i \in Nat /\ i <= 1000 /\ \A j \in Thousandths : j \in Nat
    BY DEF Thousandths
  <1>2. i \div 2 \in Nat /\ i \div 2 <= i
    BY <1>1
  <1>3. \A j \in Nat : i <= j => i \div 2 <= j \div 2
    BY <1>1
  <1> QED BY <1>1, <1>2, <1>3 DEF Thousandths

\* A doubt is never more after a signal than before, nor after a stronger signal than after
\* a weaker one.
LEMMA DoubtOfSome ==
  ASSUME NEW a \in Nat, NEW w \in Thousandths
  PROVE  Doubt(a, w) \in Nat /\ Doubt(a, w) <= a
  <1> DEFINE p == a * (1000 - w)
             q == a * w
  <1>1. q \in Nat /\ p \in Nat
    BY NaturalProduct DEF Thousandths
  <1>2. p + q = a * 1000
    BY DEF Thousandths
  <1> HIDE DEF p, q
  <1>3. p \div 1000 \in Nat /\ p \div 1000 <= a
    BY <1>1, <1>2
  <1> QED BY <1>3 DEF p, Doubt

LEMMA DoubtsCompare ==
  ASSUME NEW a \in Nat, NEW b \in Nat, a <= b, NEW v \in Thousandths, NEW w \in Thousandths, v <= w
  PROVE  Doubt(a, w) <= Doubt(b, v)
  <1> DEFINE p == a * (1000 - w)
             q == b * (1000 - v)
             r == a * (w - v)
             s == (b - a) * (1000 - v)
  <1>1. r \in Nat /\ s \in Nat /\ p \in Nat
    BY NaturalProduct DEF Thousandths
  <1>2. q = p + r + s
    BY DEF Thousandths
  <1> HIDE DEF p, q, r, s
  <1>3. p <= q /\ q \in Nat
    BY <1>1, <1>2
  <1>4. p \div 1000 <= q \div 1000
    BY <1>1, <1>3
  <1> QED BY <1>4 DEF p, q, Doubt

\* Doubts are amounts that no signal increases.
LEMMA DoubtsShrink ==
  ASSUME NEW weights \in Seq(Thousandths), NEW N \in Nat, Len(weights) = N
  PROVE  LET f == Doubts(weights) IN
         /\ f[0] = Whole
         /\ \A n \in 1..N : f[n] = NextDoubt(f[n - 1], weights, n) /\ f[n] <= f[n - 1]
         /\ \A n \in 0..N : f[n] \in Nat
  <1> DEFINE f == Doubts(weights)
             P == {n \in Nat : n <= N => f[n] \in Nat}
  <1>1. f[0] = Whole /\ \A n \in 1..N : f[n] = NextDoubt(f[n - 1], weights, n)
    <2>1. IsDoubt(f, weights, N)
      BY DoubtsDefined
    <2> HIDE DEF f
    <2> QED BY <2>1 DEF IsDoubt
  <1> HIDE DEF f
  <1>2. ASSUME NEW n \in 1..N, f[n - 1] \in Nat PROVE f[n] \in Nat /\ f[n] <= f[n - 1]
    <2> DEFINE w == IF n = 1 THEN weights[n] ELSE weights[n] \div 2
               a == f[n - 1]
    <2>1. w \in Thousandths
      <3>1. weights[n] \in Thousandths
        OBVIOUS
      <3> QED BY <3>1, Halves
    <2>2. f[n] = Doubt(a, w)
      BY <1>1 DEF NextDoubt
    <2>3. a \in Nat
      BY <1>2
    <2> HIDE DEF w, a
    <2>4. f[n] \in Nat /\ f[n] <= a
      BY <2>1, <2>2, <2>3, DoubtOfSome
    <2> QED BY <2>4 DEF a
  <1>3. 0 \in P
    BY <1>1 DEF Whole
  <1>4. ASSUME NEW n \in P PROVE n + 1 \in P
    <2>1. CASE n + 1 <= N
      <3>1. f[n] \in Nat /\ n + 1 \in 1..N /\ (n + 1) - 1 = n
        BY <2>1
      <3> QED BY <1>2, <3>1
    <2>2. CASE ~(n + 1 <= N)
      BY <2>2
    <2> QED BY <2>1, <2>2
  <1> HIDE DEF P
  <1>5. P = Nat
    BY <1>3, <1>4, Induction DEF P
  <1>6. \A n \in 0..N : f[n] \in Nat
    BY <1>5 DEF P
  <1>7. \A n \in 1..N : n - 1 \in 0..N
    OBVIOUS
  <1> QED BY <1>1, <1>2, <1>6, <1>7 DEF f

\* More signals, and stronger ones, leave no more doubt.
LEMMA DoubtsDecrease ==
  ASSUME NEW M \in Nat, NEW N \in Nat, M <= N,
         NEW v \in Seq(Thousandths), NEW w \in Seq(Thousandths), Len(v) = M, Len(w) = N,
         \A i \in 1..M : v[i] <= w[i]
  PROVE  /\ Doubts(v)[M] \in Nat /\ Doubts(w)[N] \in Nat
         /\ Doubts(w)[N] <= Doubts(v)[M]
  <1> DEFINE f == Doubts(v)
             g == Doubts(w)
             P == {n \in Nat : n <= M => g[n] <= f[n]}
             Q == {n \in Nat : M + n <= N => g[M + n] <= g[M]}
  <1>1. /\ f[0] = Whole /\ \A n \in 1..M : f[n] = NextDoubt(f[n - 1], v, n)
        /\ \A n \in 0..M : f[n] \in Nat
    BY DoubtsShrink
  <1>2. /\ g[0] = Whole /\ \A n \in 1..N : g[n] = NextDoubt(g[n - 1], w, n) /\ g[n] <= g[n - 1]
        /\ \A n \in 0..N : g[n] \in Nat
    BY DoubtsShrink
  <1> HIDE DEF f, g
  <1>3. 0 \in P
    BY <1>1, <1>2 DEF Whole
  <1>4. ASSUME NEW n \in P PROVE n + 1 \in P
    <2> SUFFICES ASSUME n + 1 <= M PROVE g[n + 1] <= f[n + 1]
      OBVIOUS
    <2> DEFINE k == n + 1
               x == IF k = 1 THEN v[k] ELSE v[k] \div 2
               y == IF k = 1 THEN w[k] ELSE w[k] \div 2
               a == g[n]
               b == f[n]
    <2>1. k \in 1..M /\ k \in 1..N /\ k - 1 = n /\ n \in 0..M /\ n \in 0..N
      OBVIOUS
    <2>2. a \in Nat /\ b \in Nat /\ a <= b
      BY <1>1, <1>2, <2>1
    <2>3. x \in Thousandths /\ y \in Thousandths /\ x <= y
      <3> DEFINE i == v[k]
                 j == w[k]
      <3>1. i \in Thousandths /\ j \in Thousandths /\ i <= j
        BY <2>1
      <3> HIDE DEF i, j, k
      <3>2. i \div 2 \in Thousandths /\ j \div 2 \in Thousandths /\ i \div 2 <= j \div 2
        BY <3>1, Halves
      <3> QED BY <3>1, <3>2 DEF i, j
    <2>4. f[k] = Doubt(b, x) /\ g[k] = Doubt(a, y)
      BY <1>1, <1>2, <2>1 DEF NextDoubt
    <2> HIDE DEF k, x, y, a, b
    <2>5. g[k] <= f[k]
      BY <2>2, <2>3, <2>4, DoubtsCompare
    <2> QED BY <2>5 DEF k
  <1> HIDE DEF P
  <1>5. P = Nat
    BY <1>3, <1>4, Induction DEF P
  <1>6. g[M] <= f[M]
    BY <1>5 DEF P
  <1>7. 0 \in Q
    BY <1>2
  <1>8. ASSUME NEW n \in Q PROVE n + 1 \in Q
    <2> SUFFICES ASSUME M + (n + 1) <= N PROVE g[M + (n + 1)] <= g[M]
      OBVIOUS
    <2>1. /\ M + (n + 1) \in 1..N /\ (M + (n + 1)) - 1 = M + n
          /\ M + n \in 0..N /\ M \in 0..N /\ M + (n + 1) \in 0..N
      OBVIOUS
    <2>2. g[M + (n + 1)] <= g[M + n] /\ g[M + n] <= g[M]
      BY <1>2, <2>1
    <2>3. g[M + (n + 1)] \in Nat /\ g[M + n] \in Nat /\ g[M] \in Nat
      BY <1>2, <2>1
    <2> QED BY <2>2, <2>3
  <1> HIDE DEF Q
  <1>9. Q = Nat
    BY <1>7, <1>8, Induction DEF Q
  <1>10. PICK d \in Nat : M + d = N
    <2>1. N - M \in Nat /\ M + (N - M) = N
      OBVIOUS
    <2> QED BY <2>1
  <1>11. g[N] <= g[M]
    <2>1. M + d <= N => g[M + d] <= g[M]
      BY <1>9 DEF Q
    <2> QED BY <1>10, <2>1
  <1>12. g[N] \in Nat /\ g[M] \in Nat /\ f[M] \in Nat
    BY <1>1, <1>2
  <1> QED BY <1>6, <1>11, <1>12 DEF f, g

-----------------------------------------------------------------------------
(* InjectionScan: what signals score.                                      *)

LEMMA WeightsDefined ==
  ASSUME NEW signals, IsFiniteSet(signals)
  PROVE  /\ Cardinality(signals) \in Nat
         /\ IsFiniteSet(High(signals)) /\ Cardinality(High(signals)) \in Nat
         /\ Weights(signals) \in Seq(Thousandths) /\ Len(Weights(signals)) = Cardinality(signals)
         /\ \A i \in 1..Cardinality(signals) :
               Weights(signals)[i] = IF i <= Cardinality(High(signals)) THEN HighWeight
                                     ELSE MediumWeight
  <1>1. Cardinality(signals) \in Nat /\ IsFiniteSet(High(signals))
    BY FS_CardinalityType, FS_Subset DEF High
  <1>2. Cardinality(High(signals)) \in Nat
    BY <1>1, FS_CardinalityType
  <1>3. HighWeight \in Thousandths /\ MediumWeight \in Thousandths
    BY DEF HighWeight, MediumWeight, Thousandths
  <1> DEFINE N == Cardinality(signals)
             h == Cardinality(High(signals))
             w == [i \in 1..N |-> IF i <= h THEN HighWeight ELSE MediumWeight]
  <1>4. w \in [1..N -> Thousandths]
    BY <1>3
  <1>5. \A i \in 1..N : w[i] = IF i <= h THEN HighWeight ELSE MediumWeight
    OBVIOUS
  <1>6. w = Weights(signals)
    BY DEF Weights
  <1> HIDE DEF w, N, h
  <1>7. w \in Seq(Thousandths) /\ Len(w) = N
    BY <1>1, <1>4, FunctionIsSequence DEF N
  <1> QED BY <1>1, <1>2, <1>5, <1>6, <1>7 DEF N, h

\* What some signals score, more of them do.
LEMMA ScoresGrow ==
  ASSUME NEW all, IsFiniteSet(all), NEW some \in SUBSET all
  PROVE  Score(some) \in Int /\ Score(all) \in Int /\ Score(some) <= Score(all)
  <1> DEFINE M == Cardinality(some)
             N == Cardinality(all)
             v == Weights(some)
             w == Weights(all)
  <1>1. IsFiniteSet(some) /\ M <= N
    BY FS_Subset
  <1>2. /\ M \in Nat /\ N \in Nat /\ v \in Seq(Thousandths) /\ w \in Seq(Thousandths)
        /\ Len(v) = M /\ Len(w) = N
    BY <1>1, WeightsDefined
  <1>3. \A i \in 1..M : v[i] <= w[i]
    <2> SUFFICES ASSUME NEW i \in 1..M PROVE v[i] <= w[i]
      OBVIOUS
    <2> DEFINE m == Cardinality(High(some))
               n == Cardinality(High(all))
    <2>1. m \in Nat /\ n \in Nat /\ IsFiniteSet(High(all)) /\ High(some) \subseteq High(all)
      BY <1>1, WeightsDefined DEF High
    <2>2. m <= n
      BY <2>1, FS_Subset
    <2>3. /\ v[i] = IF i <= m THEN HighWeight ELSE MediumWeight
          /\ w[i] = IF i <= n THEN HighWeight ELSE MediumWeight
      <3>1. i \in 1..N
        BY <1>1, <1>2
      <3> QED BY <1>1, <3>1, WeightsDefined
    <2> HIDE DEF m, n, v, w, M, N
    <2> QED BY <1>2, <2>1, <2>2, <2>3 DEF HighWeight, MediumWeight
  <1> HIDE DEF M, N, v, w
  <1>4. /\ Doubts(v)[M] \in Nat /\ Doubts(w)[N] \in Nat
        /\ Doubts(w)[N] <= Doubts(v)[M]
    BY <1>1, <1>2, <1>3, DoubtsDecrease
  <1> QED BY <1>4 DEF Score, Whole, M, N, v, w

\* One high signal scores its weight.
LEMMA HighScores ==
  ASSUME NEW signals, IsFiniteSet(signals), High(signals) # {}
  PROVE  Score(signals) >= 1000 * HighWeight
  <1>1. PICK s \in signals : s \in High({s})
    BY DEF High
  <1> DEFINE one == {s}
             w == Weights(one)
  <1>2. /\ IsFiniteSet(one) /\ Cardinality(one) = 1 /\ High(one) = one /\ one \in SUBSET signals
    BY <1>1, FS_Singleton DEF High
  <1>3. w \in Seq(Thousandths) /\ Len(w) = 1 /\ w[1] = HighWeight
    <2> HIDE DEF one
    <2>1. w \in Seq(Thousandths) /\ Len(w) = 1
      BY <1>2, WeightsDefined
    <2>2. \A i \in 1..1 : w[i] = IF i <= 1 THEN HighWeight ELSE MediumWeight
      BY <1>2, WeightsDefined
    <2> QED BY <2>1, <2>2
  <1> HIDE DEF one, w
  <1>4. Doubts(w)[0] = Whole /\ Doubts(w)[1] = NextDoubt(Doubts(w)[0], w, 1)
    BY <1>3, DoubtsShrink
  <1>5. Doubts(w)[1] = Doubt(Whole, HighWeight)
    BY <1>3, <1>4 DEF NextDoubt
  <1>6. Doubt(Whole, HighWeight) = 100000
    BY DEF Doubt, Whole, HighWeight
  <1>7. Score(one) = 900000
    BY <1>2, <1>5, <1>6 DEF Score, Whole, w
  <1>8. Score(one) <= Score(signals) /\ Score(signals) \in Int
    BY <1>2, ScoresGrow
  <1> QED BY <1>7, <1>8 DEF HighWeight

LEMMA SignalsFinite ==
  ASSUME NEW p \in PassageType
  PROVE  IsFiniteSet(Signals(p))
  <1> DEFINE high == <<"ignore_previous", "instructions_ignore", "tamil_ignore_previous",
                       "indirect_read_override", "system_prompt_reveal",
                       "tamil_system_prompt_reveal", "exfiltrate_secrets",
                       "role_impersonation", "you_are_now", "override_safety">>
             medium == <<"system_prompt_mention", "new_instructions", "do_not_follow",
                         "pretend_bypass", "indirect_trigger", "tool_use_request">>
             severity(r) == IF r \in HighRules THEN "high" ELSE "medium"
             named(place) == [r \in Rules |-> <<r, place, severity(r)>>]
  <1>1. IsFiniteSet(HighRules)
    <2>1. {high[i] : i \in 1..10} = HighRules
      BY DEF HighRules
    <2> HIDE DEF high
    <2> QED BY <2>1, FirstPlaces, FiniteImage
  <1>2. IsFiniteSet(MediumRules)
    <2>1. {medium[i] : i \in 1..6} = MediumRules
      BY DEF MediumRules
    <2> HIDE DEF medium
    <2> QED BY <2>1, FirstPlaces, FiniteImage
  <1>3. IsFiniteSet(Rules)
    BY <1>1, <1>2, FS_Union DEF Rules
  <1>4. \A place : \A S \in SUBSET Rules : IsFiniteSet({<<r, place, severity(r)>> : r \in S})
    <2> SUFFICES ASSUME NEW place, NEW S \in SUBSET Rules
                 PROVE  IsFiniteSet({<<r, place, severity(r)>> : r \in S})
      OBVIOUS
    <2> DEFINE f == named(place)
    <2>1. IsFiniteSet(S)
      BY <1>3, FS_Subset
    <2>2. {f[r] : r \in S} = {<<r, place, severity(r)>> : r \in S}
      OBVIOUS
    <2> HIDE DEF f
    <2>3. IsFiniteSet({f[r] : r \in S})
      BY <2>1, FiniteImage
    <2> QED BY <2>2, <2>3
  <1>5. \A b : \A x : IsFiniteSet(IF b THEN {x} ELSE {})
    BY FS_EmptySet, FS_Singleton
  <1>6. p.plain \in SUBSET Rules /\ p.folded \in SUBSET Rules /\ p.despaced \in SUBSET Rules
    BY DEF PassageType
  <1> DEFINE A == {<<r, "plain", severity(r)>> : r \in p.plain}
             B == {<<r, "obfuscated", severity(r)>> : r \in p.folded}
             C == {<<r, "despaced", severity(r)>> : r \in p.despaced}
             D == IF p.invisible THEN {<<"invisible_characters", "mark", "medium">>} ELSE {}
             E == IF p.spacing THEN {<<"letter_spacing", "mark", "medium">>} ELSE {}
             F == IF p.base64 THEN {<<"base64_instruction", "mark", "high">>} ELSE {}
             G == IF p.hex THEN {<<"hex_instruction", "mark", "high">>} ELSE {}
  <1>7. IsFiniteSet(A) /\ IsFiniteSet(B) /\ IsFiniteSet(C)
    BY <1>4, <1>6
  <1>8. IsFiniteSet(D) /\ IsFiniteSet(E) /\ IsFiniteSet(F) /\ IsFiniteSet(G)
    BY <1>5
  <1>9. Signals(p) = A \cup B \cup C \cup D \cup E \cup F \cup G
    BY DEF Signals
  <1> HIDE DEF A, B, C, D, E, F, G
  <1>10. IsFiniteSet(A \cup B \cup C \cup D)
    BY <1>7, <1>8, FS_Union
  <1>11. IsFiniteSet(A \cup B \cup C \cup D \cup E \cup F \cup G)
    BY <1>8, <1>10, FS_Union
  <1> QED BY <1>9, <1>11

-----------------------------------------------------------------------------
(* InjectionScan: the verdicts of a document.                              *)

Verdicts == {"allow", "flag", "quarantine"}
Worst(verdicts) == IF "quarantine" \in verdicts THEN "quarantine"
                   ELSE IF "flag" \in verdicts THEN "flag" ELSE "allow"

ScanInv == ScanTypeOK /\ decision = Worst(AllVerdicts)

LEMMA VerdictIsOne == \A p : Verdict(p) \in Verdicts
  BY DEF Verdict, PolicyDecision, Verdicts

\* The view that scores highest is judged worst, if a high signal scores enough.
LEMMA HighestIsWorst ==
  ASSUME QuarantineOnHigh => QuarantineScore <= 1000 * HighWeight,
         NEW seam \in SUBSET PassageType, NEW view \in seam,
         \A other \in seam : Score(Signals(other)) <= Score(Signals(view))
  PROVE  Worst({Verdict(v) : v \in seam}) = Verdict(view)
  <1>1. \A p \in seam : IsFiniteSet(Signals(p)) /\ Score(Signals(p)) \in Int
    BY SignalsFinite, ScoresGrow
  <1>2. QuarantineScore \in Int /\ FlagScore \in Int /\ QuarantineOnHigh \in BOOLEAN
    BY InjectionAssumption
  <1>3. ASSUME NEW p \in seam, Verdict(p) = "quarantine" PROVE Verdict(view) = "quarantine"
    <2>1. Score(Signals(p)) >= QuarantineScore
      <3>1. CASE QuarantineOnHigh /\ High(Signals(p)) # {}
        BY <1>1, <1>2, <3>1, HighScores DEF HighWeight
      <3>2. CASE ~(QuarantineOnHigh /\ High(Signals(p)) # {})
        BY <1>3, <3>2 DEF Verdict, PolicyDecision
      <3> QED BY <3>1, <3>2
    <2>2. Score(Signals(view)) >= QuarantineScore
      BY <1>1, <1>2, <2>1
    <2> QED BY <2>2 DEF Verdict, PolicyDecision
  <1>4. ASSUME NEW p \in seam, Verdict(p) = "flag" PROVE Verdict(view) \in {"flag", "quarantine"}
    <2>1. Score(Signals(p)) >= FlagScore
      BY <1>4 DEF Verdict, PolicyDecision
    <2>2. Score(Signals(view)) >= FlagScore
      BY <1>1, <1>2, <2>1
    <2> QED BY <2>2 DEF Verdict, PolicyDecision
  <1> QED BY <1>3, <1>4, VerdictIsOne DEF Worst, Verdicts

\* The decision stays the worst of the verdicts, whatever verdict comes.
LEMMA RecordedIsWorst ==
  ASSUME NEW old \in SUBSET Verdicts, NEW new \in SUBSET Verdicts,
         decision = Worst(old), RecordVerdict(Worst(new))
  PROVE  decision' = Worst(old \cup new)
  BY DEF RecordVerdict, Worst, Verdicts

LEMMA ScanInductive ==
  ASSUME QuarantineOnHigh => QuarantineScore <= 1000 * HighWeight, ScanInv, [ScanNext]_scan
  PROVE  ScanInv'
  <1> DEFINE seen == {Verdict(passages[i]) : i \in DOMAIN passages}
             joined == UNION {{Verdict(v) : v \in seams[i]} : i \in DOMAIN seams}
  <1>1. /\ passages \in Seq(Passages) /\ seams \in Seq(Seams)
        /\ decision \in Verdicts /\ quarantinedCount \in Nat /\ flaggedCount \in Nat
        /\ AllVerdicts = seen \cup joined /\ decision = Worst(AllVerdicts)
        /\ AllVerdicts \in SUBSET Verdicts
    BY VerdictIsOne DEF ScanInv, ScanTypeOK, Verdicts, AllVerdicts
  <1>2. ASSUME NEW v \in Verdicts, RecordVerdict(v)
        PROVE  decision' \in Verdicts /\ quarantinedCount' \in Nat /\ flaggedCount' \in Nat
    BY <1>1, <1>2 DEF RecordVerdict
  <1>3. ASSUME NEW p \in Passages, ScanChunk(p) PROVE ScanInv'
    <2>1. /\ passages' = Append(passages, p) /\ seams' = seams /\ RecordVerdict(Verdict(p))
      BY <1>3 DEF ScanChunk
    <2>2. passages' \in Seq(Passages) /\ seams' \in Seq(Seams)
      BY <1>1, <2>1
    <2>3. AllVerdicts' = AllVerdicts \cup {Verdict(p)}
      <3>1. /\ DOMAIN passages' = DOMAIN passages \cup {Len(passages) + 1}
            /\ passages'[Len(passages) + 1] = p
            /\ \A i \in DOMAIN passages : passages'[i] = passages[i]
        BY <1>1, <2>1
      <3>2. {Verdict(passages'[i]) : i \in DOMAIN passages'} = seen \cup {Verdict(p)}
        BY <3>1
      <3>3. UNION {{Verdict(v) : v \in seams'[i]} : i \in DOMAIN seams'} = joined
        BY <2>1
      <3> HIDE DEF seen, joined
      <3> QED BY <1>1, <3>2, <3>3 DEF AllVerdicts
    <2>4. Worst({Verdict(p)}) = Verdict(p) /\ Verdict(p) \in Verdicts
      BY VerdictIsOne DEF Worst, Verdicts
    <2>5. decision' = Worst(AllVerdicts')
      <3>1. {Verdict(p)} \in SUBSET Verdicts
        BY <2>4
      <3> QED BY <1>1, <2>1, <2>3, <2>4, <3>1, RecordedIsWorst
    <2> QED BY <1>2, <2>1, <2>2, <2>4, <2>5 DEF ScanInv, ScanTypeOK, Verdicts
  <1>4. ASSUME NEW seam \in Seams, ScanSeam(seam) PROVE ScanInv'
    <2> DEFINE left == Len(seams) + 1
               here == {Verdict(v) : v \in seam}
    <2>1. passages' = passages /\ seams' = Append(seams, seam) /\ left < Len(passages)
      BY <1>4 DEF ScanSeam
    <2>2. passages' \in Seq(Passages) /\ seams' \in Seq(Seams)
      BY <1>1, <2>1
    <2>3. AllVerdicts' = AllVerdicts \cup here
      <3>1. /\ DOMAIN seams' = DOMAIN seams \cup {Len(seams) + 1} /\ seams'[Len(seams) + 1] = seam
            /\ \A i \in DOMAIN seams : seams'[i] = seams[i]
        BY <1>1, <2>1
      <3>2. UNION {{Verdict(v) : v \in seams'[i]} : i \in DOMAIN seams'} = joined \cup here
        BY <3>1
      <3> HIDE DEF joined, here
      <3> QED BY <1>1, <2>1, <3>2 DEF AllVerdicts
    <2>4. here \in SUBSET Verdicts
      BY VerdictIsOne
    <2>5. CASE \/ Verdict(passages[left]) = "quarantine"
               \/ Verdict(passages[left + 1]) = "quarantine"
      <3>1. UNCHANGED <<decision, quarantinedCount, flaggedCount>>
        BY <1>4, <2>5 DEF ScanSeam
      <3>2. left \in DOMAIN passages /\ left + 1 \in DOMAIN passages
        BY <1>1, <2>1
      <3>3. "quarantine" \in AllVerdicts
        BY <1>1, <2>5, <3>2
      <3>4. decision' = Worst(AllVerdicts')
        BY <1>1, <2>3, <3>1, <3>3 DEF Worst
      <3> QED BY <1>1, <2>2, <3>1, <3>4 DEF ScanInv, ScanTypeOK, Verdicts
    <2>6. CASE seam = {}
      <3>1. UNCHANGED <<decision, quarantinedCount, flaggedCount>>
        BY <1>4, <2>6 DEF ScanSeam
      <3>2. decision' = Worst(AllVerdicts')
        BY <1>1, <2>3, <2>6, <3>1
      <3> QED BY <1>1, <2>2, <3>1, <3>2 DEF ScanInv, ScanTypeOK, Verdicts
    <2>7. CASE ~(\/ Verdict(passages[left]) = "quarantine"
                 \/ Verdict(passages[left + 1]) = "quarantine"
                 \/ seam = {})
      <3>1. PICK view \in seam :
               /\ \A other \in seam : Score(Signals(other)) <= Score(Signals(view))
               /\ RecordVerdict(Verdict(view))
        BY <1>4, <2>7 DEF ScanSeam
      <3>2. Worst(here) = Verdict(view) /\ Verdict(view) \in Verdicts
        <4>1. seam \in SUBSET PassageType
          BY InjectionAssumption
        <4> QED BY <3>1, <4>1, HighestIsWorst, VerdictIsOne
      <3> HIDE DEF here
      <3>3. decision' = Worst(AllVerdicts')
        BY <1>1, <2>3, <2>4, <3>1, <3>2, RecordedIsWorst
      <3> QED BY <1>2, <2>2, <3>1, <3>2, <3>3 DEF ScanInv, ScanTypeOK, Verdicts
    <2> QED BY <2>5, <2>6, <2>7
  <1>5. CASE UNCHANGED scan
    BY <1>5 DEF scan, ScanInv, ScanTypeOK, AllVerdicts
  <1> QED BY <1>3, <1>4, <1>5 DEF ScanNext

\* A scan has one decision of the three at any time, whatever the scores are.
THEOREM ScanTyped == ScanSpec => []ScanTypeOK
  <1>1. ScanInit => ScanTypeOK
    BY DEF ScanInit, ScanTypeOK
  <1>2. ScanTypeOK /\ [ScanNext]_scan => ScanTypeOK'
    <2> SUFFICES ASSUME ScanTypeOK, [ScanNext]_scan PROVE ScanTypeOK'
      OBVIOUS
    <2>1. ASSUME NEW v \in Verdicts, RecordVerdict(v)
          PROVE  decision' \in Verdicts /\ quarantinedCount' \in Nat /\ flaggedCount' \in Nat
      BY <2>1 DEF RecordVerdict, ScanTypeOK, Verdicts
    <2>2. ASSUME NEW p \in Passages, ScanChunk(p) PROVE ScanTypeOK'
      <3>1. Verdict(p) \in Verdicts /\ RecordVerdict(Verdict(p))
        BY <2>2, VerdictIsOne DEF ScanChunk
      <3>2. passages' \in Seq(Passages) /\ seams' \in Seq(Seams)
        BY <2>2 DEF ScanChunk, ScanTypeOK
      <3> QED BY <2>1, <3>1, <3>2 DEF ScanTypeOK, Verdicts
    <2>3. ASSUME NEW seam \in Seams, ScanSeam(seam) PROVE ScanTypeOK'
      <3>1. passages' \in Seq(Passages) /\ seams' \in Seq(Seams)
        BY <2>3 DEF ScanSeam, ScanTypeOK
      <3>2. \/ UNCHANGED <<decision, quarantinedCount, flaggedCount>>
            \/ \E view \in seam : RecordVerdict(Verdict(view))
        BY <2>3 DEF ScanSeam
      <3>3. decision' \in Verdicts /\ quarantinedCount' \in Nat /\ flaggedCount' \in Nat
        <4>1. CASE UNCHANGED <<decision, quarantinedCount, flaggedCount>>
          BY <4>1 DEF ScanTypeOK, Verdicts
        <4>2. ASSUME NEW view, RecordVerdict(Verdict(view))
              PROVE  decision' \in Verdicts /\ quarantinedCount' \in Nat /\ flaggedCount' \in Nat
          BY <2>1, <4>2, VerdictIsOne
        <4> QED BY <3>2, <4>1, <4>2
      <3> QED BY <3>1, <3>3 DEF ScanTypeOK, Verdicts
    <2>4. CASE UNCHANGED scan
      BY <2>4 DEF scan, ScanTypeOK
    <2> QED BY <2>2, <2>3, <2>4 DEF ScanNext
  <1> QED BY <1>1, <1>2, PTL DEF ScanSpec

\* A report is the worst verdict of all that was scanned, whatever is passed over, as long
\* as the quarantine score is no more than a high signal alone scores.  This is the case in
\* the default configuration; with a higher one, a view that has a high signal may be passed
\* over for one that scores more without.
THEOREM ReportsTheWorst ==
  ASSUME QuarantineOnHigh => QuarantineScore <= 1000 * HighWeight
  PROVE  ScanSpec => []ReportIsWorst
  <1>1. ScanInit => ScanInv
    BY DEF ScanInit, ScanInv, ScanTypeOK, AllVerdicts, Worst
  <1>2. ScanInv /\ [ScanNext]_scan => ScanInv'
    BY ScanInductive
  <1>3. ScanInv => ReportIsWorst
    BY DEF ScanInv, ReportIsWorst, Worst
  <1> QED BY <1>1, <1>2, <1>3, PTL DEF ScanSpec

\* More signals never make a text look safer, however many there are and however they are
\* mixed.
THEOREM SignalsNeverDilute == ScanSpec => []NeverDiluted
  <1> DEFINE Scanned == passages \in Seq(Passages)
  <1>1. ScanInit => Scanned
    BY DEF ScanInit
  <1>2. Scanned /\ [ScanNext]_scan => Scanned'
    BY DEF ScanNext, ScanChunk, ScanSeam, scan
  <1>3. Scanned => NeverDiluted
    <2> SUFFICES ASSUME Scanned, NEW i \in DOMAIN passages,
                        NEW some \in SUBSET Signals(passages[i])
                 PROVE  Score(some) <= Score(Signals(passages[i]))
      BY DEF NeverDiluted
    <2>1. passages[i] \in PassageType
      BY InjectionAssumption
    <2> QED BY <2>1, SignalsFinite, ScoresGrow
  <1> QED BY <1>1, <1>2, <1>3, PTL DEF ScanSpec

-----------------------------------------------------------------------------
(* The services together.                                                  *)

LEMMA EachBegins ==
  Init => /\ LibraryInit /\ UploadsInit /\ LimitInit
          /\ ChunkingInit /\ EmbeddingInit /\ ScanInit
  BY DEF Init

\* A step of one service is none of another.
LEMMA EachSteps ==
  [Next]_everything =>
      /\ [LibraryNext]_library /\ [UploadsNext]_uploads /\ [LimitNext]_limits
      /\ [ChunkingNext]_chunking /\ [EmbeddingNext]_embeddings /\ [ScanNext]_scan
  BY DEF Next, everything

\* What runs as one specification is each service by itself: they share no state, so all
\* that is proved of a service holds of it there.
THEOREM EachServiceRuns ==
  Spec => /\ LibrarySpec /\ UploadsSpec /\ LimitSpec
          /\ ChunkingSpec /\ EmbeddingSpec /\ ScanSpec
  BY EachBegins, EachSteps, PTL
  DEF Spec, LibrarySpec, UploadsSpec, LimitSpec, ChunkingSpec, EmbeddingSpec, ScanSpec

\* Every service keeps its types; a request searches and resolves in the workspace bound to
\* its transaction, which lasts as long as the request.
THEOREM ServicesTyped == Spec => []TypeOK
  <1>1. /\ LibraryTypeOK /\ UploadsTypeOK /\ LimitTypeOK
        /\ ChunkingTypeOK /\ EmbeddingTypeOK /\ ScanTypeOK
        => TypeOK
    BY DEF TypeOK
  <1> QED BY <1>1, EachServiceRuns, LibraryTyped, UploadsTyped, LimitsTyped, ChunkingTyped,
             EmbeddingTyped, ScanTyped, PTL

\* Run as one, the services keep what each of them promises, for any texts, files, limits
\* and requests.
THEOREM ServicesKeepTheirPromises ==
  Spec => [](/\ SearchIsExact /\ OwnWorkspaceOnly /\ CitationsHold
             /\ DocumentQuotaBounded /\ StorageQuotaBounded /\ CopiesBounded /\ RowsHaveObjects
             /\ WindowHolds /\ RefusalsAreDue /\ AuthHoldsUnshared
             /\ RefusedOnlyForLongRuns /\ SplitKeepsContext /\ FiledUnderLastHeading
             /\ VectorsAligned /\ NeverDiluted)
  BY EachServiceRuns, SearchesAreExact, WorkspacesStayApart, CitationsKeepTheirMeaning,
     DocumentQuotaHolds, StorageQuotaHolds, CopiesStayBounded, DocumentsHaveObjects,
     GlobalLimitHolds, OnlyDueRefusals, AuthLimitHolds,
     OnlyLongRunsAreRefused, NeighborsKeepContext, FiledUnderTheirHeadings,
     VectorsStayAligned, SignalsNeverDilute, PTL
=============================================================================
