------------------------------ MODULE Ranking ------------------------------
(***************************************************************************)
(* How the two result lists of a search become one list of passages        *)
(* (app/retrieval/fusion.py, app/retrieval/service.py, app/reranking).     *)
(*                                                                         *)
(* A chunk is its id, a natural number, as ids break ties.  A result list  *)
(* is the sequence of its chunks, a rank the position in it.  Scores are   *)
(* multiples of 1/Unit, chosen so that every reciprocal rank is exact.     *)
(***************************************************************************)
EXTENDS Integers, Sequences, FiniteSets, SequencesExt, Order

CONSTANTS
    RrfK,           \* retrieval_rrf_k
    Unit,           \* the score 1.0
    RerankLimit,    \* rerank_candidate_limit
    ThresholdPct    \* rerank_threshold, in percent

ASSUME RankingAssumption ==
    RrfK \in Nat \ {0} /\ Unit \in Nat \ {0} /\ RerankLimit \in Nat /\ ThresholdPct \in 0..100

NoScore == -1   \* a passage that no reranker has seen

Elements(list) == {list[i] : i \in DOMAIN list}
Rank(list, c) == CHOOSE i \in DOMAIN list : list[i] = c

\* Fault: one more than the limit.
TruncatedLate(list, n) == SubSeq(list, 1, IF Len(list) < n + 1 THEN Len(list) ELSE n + 1)

Truncated(list, n) == SubSeq(list, 1, IF Len(list) < n THEN Len(list) ELSE n)

\* Fault: a list that misses the chunk counts as rank 0.
ContributionOfMissing(list, c) ==
    IF c \in Elements(list) THEN Unit \div (RrfK + Rank(list, c)) ELSE Unit \div RrfK

Contribution(list, c) == IF c \in Elements(list) THEN Unit \div (RrfK + Rank(list, c)) ELSE 0

FusedScore(lexical, dense, c) == Contribution(lexical, c) + Contribution(dense, c)

\* reciprocal_rank_fusion: best score first, ties by chunk id, at most n.
Fuse(lexical, dense, n) ==
    LET score == [c \in Elements(lexical) \cup Elements(dense) |-> FusedScore(lexical, dense, c)]
        order == ByScore(DOMAIN score, score)
    IN Truncated([i \in DOMAIN order |-> [chunk |-> order[i], fused |-> score[order[i]],
                                          raw |-> NoScore]], n)

\* Without a reranker exactly top_k candidates are fused, with one a larger pool.
FusionLimit(reranking, topK) ==
    IF reranking /\ topK < RerankLimit THEN RerankLimit ELSE topK

-----------------------------------------------------------------------------
(* Reranking: `scores` gives every passage's chunk its raw score. *)

Lowest(scores)  == CHOOSE x \in {scores[c] : c \in DOMAIN scores} :
                       \A c \in DOMAIN scores : x <= scores[c]
Highest(scores) == CHOOSE x \in {scores[c] : c \in DOMAIN scores} :
                       \A c \in DOMAIN scores : x >= scores[c]

\* The score normalized over the list is at least the threshold; when all scores
\* are equal every passage is at 1.0.
Clears(scores, c) ==
    \/ Highest(scores) = Lowest(scores)
    \/ 100 * (scores[c] - Lowest(scores)) >= ThresholdPct * (Highest(scores) - Lowest(scores))

\* RerankService.rerank and _rerank: kept by threshold, best first, ties by id.
Reranked(passages, scores) ==
    IF passages = <<>> THEN <<>>
    ELSE LET kept  == {c \in {passages[i].chunk : i \in DOMAIN passages} : Clears(scores, c)}
             order == ByScore(kept, scores)
             at(c) == CHOOSE i \in DOMAIN passages : passages[i].chunk = c
         IN [n \in DOMAIN order |-> [passages[at(order[n])] EXCEPT !.raw = scores[order[n]]]]

\* The reranker raised RerankError: the order stays, and the scores are 0.0.
PassedThrough(passages) == [i \in DOMAIN passages |-> [passages[i] EXCEPT !.raw = 0]]

\* _hydrate: the rows that are there, in the fused order.
Hydrated(fused, present) == AtPlaces(fused, {i \in DOMAIN fused : fused[i].chunk \in present})
=============================================================================
