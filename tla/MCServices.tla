----------------------------- MODULE MCServices -----------------------------
(***************************************************************************)
(* The services around ingestion.  They share no state with each other, so *)
(* a behaviour follows one of them while the rest stay as they begin: one  *)
(* run explores each of them alone, and not the product of them all.       *)
(***************************************************************************)
EXTENDS Library, Uploads, RateLimit, MCChunking, Embedding, InjectionScan, TLC

VARIABLE part   \* the service that runs

everything == <<part, library, uploads, limits, chunking, embeddings, scan>>

\* What begins in several ways begins in one where another service runs.
Init ==
    /\ part \in {"library", "uploads", "limits", "chunking", "embedding", "scan"}
    /\ LibraryInit /\ UploadsInit /\ LimitInit /\ ChunkingInit /\ EmbeddingInit /\ ScanInit
    /\ part # "library" => screened = Docs /\ enforced /\ \A d, e \in Docs : home[d] = home[e]
    /\ part # "embedding" => total = 0

Next ==
    \/ /\ part = "library" /\ LibraryNext
       /\ UNCHANGED <<part, uploads, limits, chunking, embeddings, scan>>
    \/ /\ part = "uploads" /\ UploadsNext
       /\ UNCHANGED <<part, library, limits, chunking, embeddings, scan>>
    \/ /\ part = "limits" /\ LimitNext
       /\ UNCHANGED <<part, library, uploads, chunking, embeddings, scan>>
    \/ /\ part = "chunking" /\ ChunkingNext
       /\ UNCHANGED <<part, library, uploads, limits, embeddings, scan>>
    \/ /\ part = "embedding" /\ EmbeddingNext
       /\ UNCHANGED <<part, library, uploads, limits, chunking, scan>>
    \/ /\ part = "scan" /\ ScanNext
       /\ UNCHANGED <<part, library, uploads, limits, chunking, embeddings>>

Spec == Init /\ [][Next]_everything

\* Each service keeps its types; of a request, that the workspace bound to its transaction
\* is the one it asked for, and bound as long as the request lasts.
TypeOK == /\ LibraryTypeOK /\ UploadsTypeOK /\ LimitTypeOK
          /\ ChunkingTypeOK /\ EmbeddingTypeOK /\ ScanTypeOK

Symmetry == Permutations(Workspaces) \cup Permutations(Uploaders) \cup Permutations(Threads)

-----------------------------------------------------------------------------
(* Library: two documents, in one workspace or in two, whose texts share a *)
(* word and differ in length.                                              *)

MCTexts   == {<<"fee", "due">>, <<"due">>}
MCNoRows  == [id |-> 0, text |-> <<>>]
MCRowSets == [id : 1..MaxSets, text : MCTexts]
MCQueries == {{"fee", "tax"}}
MCForgeries ==
    { [doc |-> 1, id |-> 1, quote |-> <<"fee">>, from |-> 0, to |-> n] : n \in {1, 3} }

(* Uploads: two small files, a large one, one whose bytes are not what its *)
(* name says and one that is too large.                                    *)

AFile(kind, looks, size, sha256) ==
    [named |-> TRUE, kind |-> kind, mime |-> IF kind = "pdf" THEN "pdf" ELSE "plain",
     looks |-> looks, size |-> size, sha256 |-> sha256]
MCFiles ==
    { AFile("text", {"text", "markdown"}, 1, 1), AFile("markdown", {"text", "markdown"}, 1, 2),
      AFile("pdf", {"pdf", "text"}, 3, 3), AFile("pdf", {"text"}, 1, 4),
      AFile("text", {"text"}, 4, 5) }

(* RateLimit: bodies without a length, with a bad one, within the cap and  *)
(* above it.                                                               *)

MCLengths == {Undeclared, Malformed, MaxBody, MaxBody + 1}

(* InjectionScan: nothing, one medium rule, three medium signals, one high *)
(* signal with and without a medium one.                                   *)

APassage(plain, folded, invisible, base64) ==
    [plain |-> plain, folded |-> folded, despaced |-> {}, invisible |-> invisible,
     spacing |-> FALSE, base64 |-> base64, hex |-> FALSE]
MCPassages ==
    { APassage({}, {}, FALSE, FALSE), APassage({"new_instructions"}, {}, FALSE, FALSE),
      APassage({"new_instructions", "do_not_follow"}, {}, TRUE, FALSE),
      APassage({}, {"you_are_now"}, TRUE, FALSE), APassage({"do_not_follow"}, {}, FALSE, TRUE) }
MCSeams == {{}} \cup {{p, q} : p, q \in MCPassages}
=============================================================================
