---------------------------- MODULE RagPipeline ----------------------------
(***************************************************************************)
(* One question from the route to the answer or the refusal: the search    *)
(* (app/retrieval), the graph with its three gates (app/rag/graph.py), the *)
(* generator, the claim verifier and the decision policy (app/decision).   *)
(*                                                                         *)
(* What the pipeline does not control is chosen: what both searches find,  *)
(* which of the found chunks are still there when they are loaded, what    *)
(* the reranker says, and which claims a generator proposes.  The local    *)
(* generator is modelled; a hosted one may propose anything of its type.   *)
(* A question ends before the next one begins.                             *)
(***************************************************************************)
EXTENDS Verification, Ranking

CONSTANTS
    Chunks,         \* chunk ids of the workspace: natural numbers
    Text,           \* the sentences of every chunk
    OcrCases,       \* bound: what ocr_engine and ocr_confidence may be, per chunk
    NoOcr,          \* no recorded confidence
    Queries,        \* questions: token sequences
    RawScores,      \* bound: scores that the reranker may give
    Proposals,      \* bound: claims that a hosted generator may propose
    TopK,           \* rag_top_k
    MaxEvidence,    \* rag_max_evidence
    MinEvidence,    \* rag_min_evidence
    MinScore,       \* rag_min_evidence_score
    MaxClaims,      \* max_claims of the generator
    AnswerPct,      \* answer_confidence, in percent
    LowOcr,         \* low_ocr_confidence
    FloorPct        \* min_confidence of the verifier, in percent

Provenance  == [engine : BOOLEAN, conf : Int]
Propositions == [chunk : Nat, said : Seq(Tokens), quote : Seq(Tokens), exact : BOOLEAN]

ASSUME PipelineAssumption ==
    /\ Chunks \subseteq Nat /\ IsFiniteSet(Chunks)
    /\ Text \in [Chunks -> Seq(Seq(Tokens))]
    /\ OcrCases \subseteq [Chunks -> Provenance]
    /\ Queries \subseteq Seq(Tokens)
    /\ RawScores \subseteq Int
    /\ Proposals \subseteq Propositions
    /\ MinEvidence \in Nat
    /\ {MaxEvidence, TopK} \subseteq Nat /\ MaxClaims \in Nat \ {0}
    /\ {MinScore, AnswerPct, LowOcr, FloorPct, NoOcr} \subseteq Int

\* Every reciprocal rank is a whole number of units.
ASSUME ExactRanks == \A r \in 1..Cardinality(Chunks) : Unit % (RrfK + r) = 0

VARIABLES
    node,       \* the node of the graph that runs next
    reranking,  \* rerank_enabled, a setting
    ocr,        \* OCR provenance of the chunks
    query,
    lexical, dense,     \* the two result lists while the search runs
    authorized,
    evidence,   \* the passages kept
    retrieved,  \* retrieved_count
    sufficient,
    candidates, \* claims proposed
    claims,     \* claims that verification accepted
    verdicts,   \* verdict of every candidate, "uncited" for an unknown chunk
    decision, decisionReason,
    outcome, text, confidence, reason,  \* what the caller gets
    audited     \* the rag.answer records of this question

question == <<reranking, ocr, query>>
search   == <<lexical, dense>>
found    == <<evidence, retrieved, sufficient>>
checked  == <<candidates, claims, verdicts>>
decided  == <<decision, decisionReason>>
answer   == <<outcome, text, confidence, reason, audited>>
vars     == <<node, question, search, authorized, found, checked, decided, answer>>

Answering == {"answer", "answer_with_warning"}
Refusal == <<<<[w |-> "refusal", cap |-> FALSE]>>>>     \* abstention_text

\* A claim proposed: what it says, the chunk it names, the quote, and whether the
\* offsets it gives recover that quote from that chunk.
Proposal(c, said, quote, exact) == [chunk |-> c, said |-> said, quote |-> quote, exact |-> exact]

-----------------------------------------------------------------------------
Init ==
    /\ node = "authorize"
    /\ reranking \in BOOLEAN
    /\ ocr \in OcrCases
    /\ query \in Queries
    /\ lexical = <<>> /\ dense = <<>>
    /\ authorized = FALSE
    /\ evidence = <<>> /\ retrieved = 0 /\ sufficient = FALSE
    /\ candidates = <<>> /\ claims = <<>> /\ verdicts = <<>>
    /\ decision = "abstain" /\ decisionReason = ""
    /\ outcome = "abstained" /\ text = <<>> /\ confidence = 0 /\ reason = "none"
    /\ audited = 0

\* RagService.answer builds a fresh state for every question.
Ask ==
    /\ node \in {"end", "failed"}
    /\ node' = "authorize"
    /\ query' \in Queries
    /\ lexical' = <<>> /\ dense' = <<>>
    /\ authorized' = FALSE
    /\ evidence' = <<>> /\ retrieved' = 0 /\ sufficient' = FALSE
    /\ candidates' = <<>> /\ claims' = <<>> /\ verdicts' = <<>>
    /\ decision' = "abstain" /\ decisionReason' = ""
    /\ outcome' = "abstained" /\ text' = <<>> /\ confidence' = 0 /\ reason' = "none"
    /\ audited' = 0
    /\ UNCHANGED <<reranking, ocr>>

\* RagState requires a workspace, so the gate is open; _analyze adds the language.
Authorize ==
    /\ node = "authorize"
    /\ authorized' = TRUE
    /\ node' = "lexical"
    /\ UNCHANGED <<question, search, found, checked, decided, answer>>

ResultLists == {list \in SeqOf(Chunks, Cardinality(Chunks)) :
                   Cardinality(Elements(list)) = Len(list)}

SearchLexical ==
    /\ node = "lexical"
    /\ lexical' \in ResultLists
    /\ node' = "dense"
    /\ UNCHANGED <<question, dense, authorized, found, checked, decided, answer>>

SearchDense ==
    /\ node = "dense"
    /\ dense' \in ResultLists
    /\ node' = "retrieve"
    /\ UNCHANGED <<question, lexical, authorized, found, checked, decided, answer>>

\* _retrieve: the strongest passages, bounded, and the sufficiency gate.
Keep(passages) ==
    LET strong == {i \in DOMAIN passages : passages[i].fused >= MinScore}
        kept   == Truncated(AtPlaces(passages, strong), MaxEvidence)
    IN /\ evidence' = kept
       /\ retrieved' = Len(passages)
       /\ sufficient' = (Len(kept) >= MinEvidence)
       /\ node' = IF sufficient' THEN "generate" ELSE "abstain"

\* What the reranker does with the hydrated passages.
Rerankings(passages) ==
    IF ~reranking \/ passages = <<>> THEN {passages}
    ELSE {PassedThrough(passages)}
         \cup {Reranked(passages, s) :
                  s \in [{passages[i].chunk : i \in DOMAIN passages} -> RawScores]}

\* Fusion and reranking have no effects; what is left of the search is its result.
Retrieve ==
    /\ node = "retrieve"
    /\ \E present \in SUBSET Chunks :
         LET fused    == Fuse(lexical, dense, FusionLimit(reranking, TopK))
             hydrated == Hydrated(fused, present)
         IN \E ranked \in Rerankings(hydrated) : Keep(Truncated(ranked, TopK))
    /\ lexical' = <<>> /\ dense' = <<>>
    /\ UNCHANGED <<question, authorized, checked, decided, answer>>

\* A reranker that returns the wrong number of scores ends the request.
RerankMismatch ==
    /\ node = "retrieve"
    /\ reranking
    /\ \E present \in SUBSET Chunks :
         Hydrated(Fuse(lexical, dense, FusionLimit(reranking, TopK)), present) # <<>>
    /\ node' = "failed"
    /\ lexical' = <<>> /\ dense' = <<>>
    /\ UNCHANGED <<question, authorized, found, checked, decided, answer>>

-----------------------------------------------------------------------------
(* The generators. *)

Score(p) == Coverage(query, Text[p.chunk][BestSentence(query, Text[p.chunk])])

Quoting(p) == LET s == Text[p.chunk][BestSentence(query, Text[p.chunk])]
              IN Proposal(p.chunk, s, s, TRUE)

\* One verbatim sentence of every passage that covers at least a tenth of the
\* query, best coverage first, then best rank.
Extracted ==
    LET places == {i \in DOMAIN evidence : /\ Text[evidence[i].chunk] # <<>>
                                           /\ 10 * Score(evidence[i]) >= Cardinality(Features(query))}
        order  == ByScore(places, [i \in places |-> Score(evidence[i])])
    IN IF Features(query) = {} THEN <<>>
       ELSE Truncated([n \in DOMAIN order |-> Quoting(evidence[order[n]])], MaxClaims)

Generate ==
    /\ node = "generate"
    /\ \/ candidates' = Extracted
       \/ candidates' \in SeqOf(Proposals, MaxClaims)
    /\ node' = "verify"
    /\ UNCHANGED <<question, search, authorized, found, claims, verdicts, decided, answer>>

-----------------------------------------------------------------------------
(* The verifier. *)

Cited(p) == \E i \in DOMAIN evidence : evidence[i].chunk = p.chunk
PassageOf(p) == evidence[CHOOSE i \in DOMAIN evidence : evidence[i].chunk = p.chunk]

Clamp(x) == IF x < 0 THEN 0 ELSE IF x > Unit THEN Unit ELSE x

Overlap(quote) ==
    IF query = <<>> THEN 0
    ELSE (Unit * Cardinality(Words(query) \cap Words(quote))) \div Cardinality(Words(query))

\* _confidence, in hundredths of a unit: the weights are 25, 35, 30 and 10.
Blend(p) ==
    LET from   == PassageOf(p)
        rerank == IF from.raw = NoScore THEN from.fused ELSE from.raw
        scan   == IF ocr[p.chunk].engine /\ ocr[p.chunk].conf # NoOcr
                  THEN ocr[p.chunk].conf ELSE Unit
    IN 25 * Clamp(from.fused) + 35 * Clamp(rerank) + 30 * Overlap(p.quote) + 10 * Clamp(scan)

\* Fault: the offsets are not checked.
AssessAnywhere(p) ==
    LET verdict == Analyze(p.said, Text[p.chunk])
    IN IF verdict = "supported" /\ Blend(p) < FloorPct * Unit THEN "partial" ELSE verdict

\* _assess
Assess(p) ==
    IF ~p.exact \/ p.quote = <<>> THEN "unsupported"
    ELSE LET verdict == Analyze(p.said, Text[p.chunk])
         IN IF verdict = "supported" /\ Blend(p) < FloorPct * Unit THEN "partial" ELSE verdict

Verify ==
    /\ node = "verify"
    /\ verdicts' = [i \in DOMAIN candidates |->
                       IF Cited(candidates[i]) THEN Assess(candidates[i]) ELSE "uncited"]
    /\ claims' = LET accepted == {i \in DOMAIN candidates : verdicts'[i] = "supported"}
                     order    == Ascending(accepted)
                 IN [n \in DOMAIN order |->
                        [claim |-> candidates[order[n]], confidence |-> Blend(candidates[order[n]])]]
    /\ node' = "decide"
    /\ UNCHANGED <<question, search, authorized, found, candidates, decided, answer>>

Count(v) == Cardinality({i \in DOMAIN verdicts : verdicts[i] = v})
Dropped == Len(candidates) - Len(claims)

-----------------------------------------------------------------------------
(* The decision. *)

\* Sum of the claims' confidences.
Total == SumFunction([i \in DOMAIN claims |-> claims[i].confidence])

\* Fault: a missing OCR confidence counts as reliable.
UnknownReliabilityIgnored == FALSE

OcrOf(c) == ocr[c.claim.chunk]
LowReliability == \E i \in DOMAIN claims :
    OcrOf(claims[i]).engine /\ OcrOf(claims[i]).conf # NoOcr /\ OcrOf(claims[i]).conf < LowOcr
UnknownReliability == \E i \in DOMAIN claims :
    OcrOf(claims[i]).engine /\ OcrOf(claims[i]).conf = NoOcr

Warned ==
    \/ Total < AnswerPct * Unit * Len(claims)
    \/ Dropped > 0
    \/ LowReliability
    \/ UnknownReliability

\* Fault: contradictions are only looked at when nothing is supported.
DecisionSupportFirst ==
    CASE claims # <<>> -> IF Warned THEN <<"answer_with_warning", "warnings">>
                                    ELSE <<"answer", "well_supported">>
      [] claims = <<>> /\ Count("contradicted") > 0 -> <<"escalate_for_review", "contradiction">>
      [] OTHER -> <<"ask_for_clarification", "nothing_verified">>

\* ConfidencePolicy.decide
Decision ==
    CASE Count("contradicted") > 0 -> <<"escalate_for_review", "contradiction">>
      [] Count("contradicted") = 0 /\ claims = <<>> /\ evidence = <<>> ->
            <<"abstain", "insufficient_evidence">>
      [] Count("contradicted") = 0 /\ claims = <<>> /\ evidence # <<>> ->
            <<"ask_for_clarification", "nothing_verified">>
      [] OTHER -> IF Warned THEN <<"answer_with_warning", "warnings">>
                            ELSE <<"answer", "well_supported">>

Decide ==
    /\ node = "decide"
    /\ decision' = Decision[1]
    /\ decisionReason' = Decision[2]
    /\ node' = IF decision' \in Answering THEN "compose" ELSE "abstain"
    /\ UNCHANGED <<question, search, authorized, found, checked, answer>>

-----------------------------------------------------------------------------
(* The two ends; then RagService records the trace, in the route's transaction. *)

Compose ==
    /\ node = "compose"
    /\ outcome' = IF Dropped > 0 THEN "partial" ELSE "answered"
    /\ text' = [i \in DOMAIN claims |-> claims[i].claim.said]
    /\ confidence' = Total \div Len(claims)
    /\ reason' = "none"
    /\ audited' = audited + 1
    /\ node' = "end"
    /\ UNCHANGED <<question, search, authorized, found, checked, decided>>

AbstentionReason ==
    IF ~authorized THEN "unauthorized"
    ELSE IF ~sufficient THEN "insufficient_evidence" ELSE decision

\* Fault: the claims stay in the state.
AbstainKeeping ==
    /\ node = "abstain"
    /\ outcome' = "abstained"
    /\ text' = Refusal
    /\ confidence' = 0
    /\ reason' = AbstentionReason
    /\ decisionReason' = IF decisionReason = "" THEN AbstentionReason ELSE decisionReason
    /\ audited' = audited + 1
    /\ node' = "end"
    /\ UNCHANGED <<question, search, authorized, found, checked, decision>>

Abstain ==
    /\ node = "abstain"
    /\ outcome' = "abstained"
    /\ text' = Refusal
    /\ confidence' = 0
    /\ reason' = AbstentionReason
    /\ decisionReason' = IF decisionReason = "" THEN AbstentionReason ELSE decisionReason
    /\ claims' = <<>>
    /\ audited' = audited + 1
    /\ node' = "end"
    /\ UNCHANGED <<question, search, authorized, found, candidates, verdicts, decision>>

Next ==
    \/ Ask
    \/ Authorize
    \/ SearchLexical \/ SearchDense \/ Retrieve \/ RerankMismatch
    \/ Generate \/ Verify \/ Decide
    \/ Compose \/ Abstain

Spec == Init /\ [][Next]_vars

-----------------------------------------------------------------------------
(* Properties. *)

Verbatim(p) == \E k \in DOMAIN Text[p.chunk] : p.said = Text[p.chunk][k] /\ p.quote = p.said

\* Fields keep their types, and a list of verdicts answers the list of candidates.
TypeOK ==
    /\ node \in {"authorize", "lexical", "dense", "retrieve", "generate", "verify", "decide",
                 "compose", "abstain", "end", "failed"}
    /\ reranking \in BOOLEAN /\ ocr \in OcrCases /\ query \in Queries
    /\ authorized \in BOOLEAN /\ sufficient \in BOOLEAN
    /\ \A i \in DOMAIN evidence : evidence[i].chunk \in Chunks /\ evidence[i].fused \in 0..(2 * Unit)
    /\ retrieved \in 0..TopK
    /\ Len(evidence) <= MaxEvidence /\ Len(candidates) <= MaxClaims
    /\ node \in {"decide", "compose"} => DOMAIN verdicts = DOMAIN candidates
    /\ \A i \in DOMAIN verdicts : verdicts[i] \in Verdicts \cup {"uncited"}
    /\ confidence \in 0..(100 * Unit)
    /\ audited \in 0..1

\* A sentence backs a statement when it holds nine tenths of its content, all its
\* numbers, dates and names, and has its polarity.
Backs(sentence, said) ==
    /\ 10 * Cardinality(Content(said) \cap Content(sentence)) >= 9 * Cardinality(Content(said))
    /\ Signals(said).units \subseteq Signals(sentence).units
    /\ Signals(said).bare \subseteq Signals(sentence).bare
    /\ Dates(said) \subseteq Dates(sentence)
    /\ Names(said) \subseteq Names(sentence)
    /\ Negated(said) = Negated(sentence)

\* Whatever a generator proposes, an answer consists of claims about passages that were
\* retrieved and kept, quoted where they say, and backed by one sentence of the cited
\* passage (rag/verification.py:1-22).
AnswersAreBacked ==
    node = "end" /\ outcome # "abstained" =>
        /\ claims # <<>>
        /\ text = [i \in DOMAIN claims |-> claims[i].claim.said]
        /\ \A i \in DOMAIN claims : LET p == claims[i].claim IN
             /\ \E j \in DOMAIN evidence : evidence[j].chunk = p.chunk
             /\ p.exact
             /\ \E k \in DOMAIN Text[p.chunk] : Backs(Text[p.chunk][k], p.said)

\* A refusal carries no claim, text or confidence that verification produced, says which
\* gate closed, and never says "no evidence" when evidence was kept (graph.py:_abstain).
RefusalsRevealNothing ==
    node = "end" /\ outcome = "abstained" =>
        /\ claims = <<>> /\ text = Refusal /\ confidence = 0
        /\ decision \notin Answering
        /\ reason = IF Len(evidence) < MinEvidence THEN "insufficient_evidence" ELSE decision
        /\ decisionReason # ""

\* If the passage a claim cites speaks of the same thing and says otherwise, the question
\* goes to a human, however well other claims are supported (decision/policy.py:11-20).
ContradictionWithheld ==
    (/\ node = "end"
     /\ \E i \in DOMAIN candidates : LET p == candidates[i] IN
          /\ \E j \in DOMAIN evidence : evidence[j].chunk = p.chunk
          /\ p.exact /\ p.quote # <<>> /\ Content(p.said) # {}
          /\ Contradicts(Signals(p.said), Signals(Aligned(Signals(p.said), Text[p.chunk]))))
    => outcome = "abstained" /\ reason = "escalate_for_review"

\* An answer without a warning is complete, confident, and cites no scan of low or unknown
\* quality; a partial answer is never without one (policy.py:_warnings, graph.py:_compose).
UnwarnedIsClean ==
    node = "end" /\ decision = "answer" =>
        /\ outcome = "answered"
        /\ Len(claims) = Len(candidates)
        /\ confidence >= AnswerPct * Unit
        /\ \A i \in DOMAIN claims : LET o == ocr[claims[i].claim.chunk] IN
             o.engine => o.conf # NoOcr /\ o.conf >= LowOcr

\* A sentence quoted as it stands is refused or dropped only for being far from the
\* question, or because an earlier sentence of its passage uses all the same words and is
\* compared in its place (rag/verification.py:164-165 says it is trivially entailed).
VerbatimUnlessEclipsed ==
    \A i \in DOMAIN verdicts : LET p == candidates[i] IN
        (/\ verdicts[i] \notin {"supported", "uncited"}
         /\ p.exact /\ Verbatim(p) /\ Content(p.said) # {})
        => \/ verdicts[i] = "partial" /\ Blend(p) < FloorPct * Unit
           \/ \E k \in DOMAIN Text[p.chunk] : \E j \in 1..(k - 1) :
                /\ p.said = Text[p.chunk][k]
                /\ Content(p.said) \subseteq Words(Text[p.chunk][j])

\* One chunk is above another in both searches (a search that misses it puts it last).
Above(a, b) ==
    /\ \E list \in {lexical, dense} : a \in Elements(list)
    /\ \A list \in {lexical, dense} :
         b \in Elements(list) => a \in Elements(list) /\ Rank(list, a) < Rank(list, b)

\* Evidence comes best first: by the reranker's score where there is one, and otherwise in
\* every order that both searches agree on (retrieval/fusion.py:39-46, service.py:_rerank).
BestEvidenceFirst ==
    [][ node = "retrieve" =>
        \A i, j \in DOMAIN evidence' :
            \/ evidence'[i].raw > evidence'[j].raw
            \/ ~reranking /\ Above(evidence'[i].chunk, evidence'[j].chunk)
            => i < j ]_vars
=============================================================================
