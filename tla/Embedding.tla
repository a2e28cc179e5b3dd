----------------------------- MODULE Embedding -----------------------------
(***************************************************************************)
(* Embedding a list of texts: batches, each retried on its own, and the    *)
(* validation of what comes back (app/embeddings/batching.py,              *)
(* app/embeddings/service.py).  The provider is anyone behind the          *)
(* interface: it answers a batch in order, but may fail, and may return    *)
(* too few vectors, too many, or some of the wrong dimension.              *)
(***************************************************************************)
EXTENDS Integers, Sequences

CONSTANTS
    BatchSize,      \* embedding_batch_size
    MaxAttempts,    \* embedding_max_attempts
    MaxTexts        \* bound: texts of one call

ASSUME EmbeddingAssumption ==
    /\ BatchSize \in Nat \ {0} /\ MaxAttempts \in Nat \ {0} /\ MaxTexts \in Nat

VARIABLES
    total,      \* texts to embed, numbered from 1
    begin,      \* texts before the batch in hand
    attempt,    \* number of the attempt at this batch
    vectors,    \* so far: the text of each, and whether its dimension is right
    embedding   \* how the call ends

embeddings == <<total, begin, attempt, vectors, embedding>>

EmbeddingOutcomes == {"running", "done", "EmbeddingError", "DimensionMismatchError", "OtherError"}

EmbeddingInit ==
    /\ total \in 0..MaxTexts
    /\ begin = 0 /\ attempt = 1 /\ vectors = <<>> /\ embedding = "running"

-----------------------------------------------------------------------------
(* BatchingEmbeddingProvider around RetryingEmbeddingProvider. *)

Pending == embedding = "running" /\ begin < total

BatchLength == IF begin + BatchSize <= total THEN BatchSize ELSE total - begin

\* The provider answers the first `n` texts, of which those in `wrong` badly.
Answers(n, wrong) == [j \in 1..n |-> [text |-> begin + j, right |-> j \notin wrong]]

\* Fault: what a short batch brings is kept, and the next begins after it.
TakeWhatComes(n) == TRUE

\* The count is checked outside of the retries: a wrong one ends the call.
Complete(n) == n = BatchLength

Receive(n, wrong) ==
    /\ Pending
    /\ IF Complete(n)
       THEN /\ vectors' = vectors \o Answers(n, wrong)
            /\ begin' = begin + BatchSize
            /\ attempt' = 1
            /\ UNCHANGED embedding
       ELSE /\ embedding' = "EmbeddingError"
            /\ UNCHANGED <<vectors, begin, attempt>>
    /\ UNCHANGED total

LastAttempt == attempt = MaxAttempts

\* The provider raises EmbeddingError: try again, up to the limit.
Retry ==
    /\ Pending
    /\ IF LastAttempt
       THEN embedding' = "EmbeddingError" /\ UNCHANGED attempt
       ELSE attempt' = attempt + 1 /\ UNCHANGED embedding
    /\ UNCHANGED <<total, begin, vectors>>

\* Any other error propagates.
Raise ==
    /\ Pending
    /\ embedding' = "OtherError"
    /\ UNCHANGED <<total, begin, attempt, vectors>>

\* EmbeddingService._validate
Validate ==
    /\ embedding = "running" /\ begin >= total
    /\ embedding' = IF /\ Len(vectors) = total
                       /\ \A i \in DOMAIN vectors : vectors[i].right
                    THEN "done" ELSE "DimensionMismatchError"
    /\ UNCHANGED <<total, begin, attempt, vectors>>

EmbeddingNext ==
    \/ \E n \in 0..(BatchSize + 1) : \E wrong \in SUBSET (1..n) : Receive(n, wrong)
    \/ Retry \/ Raise \/ Validate

EmbeddingSpec == EmbeddingInit /\ [][EmbeddingNext]_embeddings

-----------------------------------------------------------------------------
(* Properties. *)

EmbeddingTypeOK ==
    /\ total \in Nat /\ begin \in Nat
    /\ attempt \in 1..MaxAttempts
    /\ vectors \in Seq([text : Nat, right : BOOLEAN])
    /\ embedding \in EmbeddingOutcomes

\* Whatever the provider does and however often it is asked again, vectors that are
\* returned are those of the texts, each at the place of its text and of the right
\* dimension ("callers can zip results back onto their chunks").
VectorsAligned ==
    /\ \A i \in DOMAIN vectors : vectors[i].text = i
    /\ embedding = "done" => Len(vectors) = total /\ \A i \in 1..total : vectors[i].right

=============================================================================
