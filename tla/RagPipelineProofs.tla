------------------------- MODULE RagPipelineProofs -------------------------
(***************************************************************************)
(* Proofs about RagPipeline, for every corpus, vocabulary, generator,      *)
(* reranker and setting: what an answer says is backed, what a refusal     *)
(* reveals, and the order in which evidence comes.                         *)
(*                                                                         *)
(* The lemmas follow the modules: what the verifier's verdicts mean        *)
(* (Verification), what the search returns (Ranking), and the graph.       *)
(***************************************************************************)
EXTENDS RagPipeline, DataLemmas, SequenceTheorems

Sentences == Seq(Tokens)

-----------------------------------------------------------------------------
(* The verifier. *)

\* A text has finitely many words, and so has what is read from them.
LEMMA TextIsFinite ==
    ASSUME NEW t \in Sentences
    PROVE  /\ IsFiniteSet(Words(t)) /\ Words(t) \subseteq DOMAIN FeaturesOf
           /\ IsFiniteSet(Content(t)) /\ Cardinality(Content(t)) \in Nat
           /\ Content(t) \subseteq Words(t)
<1> DEFINE f == [i \in DOMAIN t |-> t[i].w]
<1>1. IsFiniteSet(DOMAIN t)
  <2>1. DOMAIN t = 1..Len(t) /\ Len(t) \in Nat
    BY DEF Sentences
  <2> QED BY <2>1, FirstPlaces
<1>2. Words(t) = {f[i] : i \in DOMAIN t}
  BY DEF Words
<1>3. IsFiniteSet(Words(t))
  <2> HIDE DEF f
  <2> QED BY <1>1, <1>2, FiniteImage
<1>4. Words(t) \subseteq DOMAIN FeaturesOf
  <2>1. \A i \in DOMAIN t : t[i] \in Tokens
    BY DEF Sentences
  <2> QED BY <2>1 DEF Words, Tokens
<1>5. Content(t) \in SUBSET Words(t)
  BY DEF Content
<1>6. IsFiniteSet(Content(t))
  BY <1>3, <1>5, FS_Subset
<1> QED BY <1>3, <1>4, <1>5, <1>6, FS_CardinalityType

\* The content that a claim shares with some words is a part of it.
LEMMA SharedContent ==
    ASSUME NEW t \in Sentences, NEW W
    PROVE  /\ Cardinality(Content(t)) \in Nat
           /\ Cardinality(Content(t) \cap W) \in Nat
           /\ Cardinality(Content(t) \cap W) <= Cardinality(Content(t))
           /\ Cardinality(Content(t) \cap W) = Cardinality(Content(t)) => Content(t) \subseteq W
           /\ Content(t) \subseteq W => Cardinality(Content(t) \cap W) = Cardinality(Content(t))
<1>1. IsFiniteSet(Content(t)) /\ Content(t) \cap W \in SUBSET Content(t)
  BY TextIsFinite
<1>2. /\ IsFiniteSet(Content(t) \cap W)
      /\ Cardinality(Content(t) \cap W) <= Cardinality(Content(t))
      /\ Cardinality(Content(t)) = Cardinality(Content(t) \cap W) => Content(t) = Content(t) \cap W
  BY <1>1, FS_Subset
<1>3. Cardinality(Content(t)) \in Nat /\ Cardinality(Content(t) \cap W) \in Nat
  BY <1>1, <1>2, FS_CardinalityType
<1>4. Content(t) \subseteq W => Content(t) \cap W = Content(t)
  OBVIOUS
<1> QED BY <1>2, <1>3, <1>4

\* The sentence a claim is compared with is the first one that shares most with it.
LEMMA AlignedIsFirstBest ==
    ASSUME NEW said \in Sentences, NEW passage \in Seq(Sentences), passage # <<>>
    PROVE  \E m \in DOMAIN passage :
              /\ Aligned(Signals(said), passage) = passage[m]
              /\ \A j \in DOMAIN passage :
                    /\ Cardinality(Content(said) \cap Words(passage[j]))
                           <= Cardinality(Content(said) \cap Words(passage[m]))
                    /\ Cardinality(Content(said) \cap Words(passage[j]))
                           = Cardinality(Content(said) \cap Words(passage[m])) => m <= j
<1> DEFINE shared(i) == Cardinality(Content(said) \cap Words(passage[i]))
           best == {i \in DOMAIN passage : \A j \in DOMAIN passage : shared(j) <= shared(i)}
           T == {shared(i) : i \in DOMAIN passage}
<1>1. \A i \in DOMAIN passage : shared(i) \in Nat /\ shared(i) <= Cardinality(Content(said))
  BY SharedContent
<1>2. DOMAIN passage \subseteq Nat /\ DOMAIN passage # {}
  <2>1. DOMAIN passage = 1..Len(passage) /\ Len(passage) \in Nat /\ Len(passage) # 0
    BY EmptySeq
  <2>2. 1 \in DOMAIN passage
    BY <2>1
  <2> QED BY <2>1, <2>2
<1>3. \E x \in T : \A y \in T : y <= x
  <2>1. T \in SUBSET Nat /\ T # {} /\ \A y \in T : y <= Cardinality(Content(said))
    BY <1>1, <1>2
  <2>2. Cardinality(Content(said)) \in Nat
    BY TextIsFinite
  <2> HIDE DEF T
  <2> QED BY <2>1, <2>2, GreatestNumber
<1>4. best # {}
  BY <1>3
<1>5. best \in SUBSET Nat
  BY <1>2
<1> DEFINE m == Minimum(best)
<1>6. m \in best /\ \A y \in best : m <= y
  <2> HIDE DEF best
  <2> QED BY <1>4, <1>5, MinimumIsLeast
<1>7. Signals(said).content = Content(said)
  BY DEF Signals
<1>8. Aligned(Signals(said), passage) = passage[m]
  BY <1>7 DEF Aligned
<1>9. \A j \in DOMAIN passage : shared(j) <= shared(m)
  BY <1>6
<1>10. \A j \in DOMAIN passage : shared(j) = shared(m) => j \in best
  BY <1>9
<1> HIDE DEF m
<1> QED BY <1>6, <1>8, <1>9, <1>10

\* An empty text asserts nothing.
LEMMA NothingAsserted ==
    /\ Signals(<<>>).content = {} /\ Signals(<<>>).units = {}
<1>1. DOMAIN (<<>>) = {}
  OBVIOUS
<1>2. Content(<<>>) = {}
  BY <1>1 DEF Content, Words
<1> DEFINE none == {i \in DOMAIN (<<>>) : (<<>>)[i].w \notin IsoDates}
           undated == AtPlaces(<<>>, none)
<1>3. none = {}
  BY <1>1
<1>4. Cardinality(none) = 0
  BY <1>3, FS_EmptySet
<1>5. DOMAIN undated = {}
  BY <1>4 DEF AtPlaces
<1>6. UnitNumbers(undated) = {}
  <2> HIDE DEF undated
  <2> QED BY <1>5 DEF UnitNumbers, NumberPlaces
<1> QED BY <1>2, <1>6 DEF Signals

\* The verdict "supported" is given only to what one sentence of the passage backs.
LEMMA SupportedIsBacked ==
    ASSUME NEW said \in Sentences, NEW passage \in Seq(Sentences),
           Analyze(said, passage) = "supported"
    PROVE  \E k \in DOMAIN passage : Backs(passage[k], said)
<1> DEFINE claim == Signals(said)
           aligned == Signals(Aligned(claim, passage))
<1>1. /\ ~(claim.content = {} /\ claim.units = {})
      /\ ~Contradicts(claim, aligned)
      /\ Supports(claim, aligned)
      /\ NumbersEntailed(claim, aligned)
      /\ claim.dates \subseteq aligned.dates
      /\ claim.names \subseteq aligned.names
  BY DEF Analyze
<1>2. claim.content = Content(said)
  BY DEF Signals
<1>3. passage # <<>>
  <2> SUFFICES ASSUME passage = <<>> PROVE FALSE
    OBVIOUS
  <2>1. aligned = Signals(<<>>)
    BY DEF Aligned
  <2>2. aligned.content = {} /\ aligned.units = {}
    BY <2>1, NothingAsserted
  <2>3. claim.units = {}
    BY <1>1, <2>2 DEF NumbersEntailed
  <2> HIDE DEF claim, aligned
  <2>4. Cardinality(claim.content \cap {}) = 0
    <3>1. claim.content \cap {} = {}
      OBVIOUS
    <3> QED BY <3>1, FS_EmptySet
  <2>5. 10 * 0 >= 9 * Cardinality(claim.content)
    BY <1>1, <2>2, <2>4 DEF Supports, Covered
  <2>6. Cardinality(claim.content) = 0
    BY <1>2, <2>5, TextIsFinite
  <2>7. claim.content = {}
    BY <1>2, <2>6, TextIsFinite, FS_EmptySet
  <2> QED BY <1>1, <2>3, <2>7
<1>4. PICK m \in DOMAIN passage : Aligned(claim, passage) = passage[m]
  BY <1>3, AlignedIsFirstBest
<1>5. aligned = Signals(passage[m])
  BY <1>4
<1>6. PartlyCovers(claim, aligned)
  <2>1. Cardinality(claim.content \cap aligned.content) \in Nat /\ Cardinality(claim.content) \in Nat
    BY <1>2, SharedContent
  <2> HIDE DEF claim, aligned
  <2> QED BY <1>1, <2>1 DEF Supports, PartlyCovers, Covered
<1>7. claim.negated = aligned.negated
  BY <1>1, <1>6 DEF Contradicts
<1>8. /\ claim.dates = Dates(said) /\ claim.names = Names(said) /\ claim.negated = Negated(said)
  BY DEF Signals
<1>9. /\ aligned.content = Content(passage[m])
      /\ aligned.dates = Dates(passage[m]) /\ aligned.names = Names(passage[m])
      /\ aligned.negated = Negated(passage[m])
  BY <1>5 DEF Signals
<1>10. 10 * Cardinality(Content(said) \cap Content(passage[m])) >= 9 * Cardinality(Content(said))
  <2> HIDE DEF claim, aligned
  <2> QED BY <1>1, <1>2, <1>9 DEF Supports, Covered
<1>11. claim.units \subseteq Signals(passage[m]).units /\ claim.bare \subseteq Signals(passage[m]).bare
  BY <1>1, <1>5 DEF NumbersEntailed
<1> HIDE DEF aligned
<1>12. Backs(passage[m], said)
  BY <1>1, <1>7, <1>8, <1>9, <1>10, <1>11 DEF Backs
<1> QED BY <1>12

\* A sentence of the passage, as it stands, is supported, unless an earlier sentence has all
\* its content words.
LEMMA VerbatimIsSupported ==
    ASSUME NEW passage \in Seq(Sentences), NEW k \in DOMAIN passage, Content(passage[k]) # {},
           \A j \in 1..(k - 1) : ~(Content(passage[k]) \subseteq Words(passage[j]))
    PROVE  Analyze(passage[k], passage) = "supported"
<1> DEFINE said == passage[k]
           claim == Signals(said)
           aligned == Signals(Aligned(claim, passage))
<1>1. said \in Sentences /\ passage # <<>> /\ k \in Nat
  OBVIOUS
<1>2. Content(said) \subseteq Words(said)
  BY <1>1, TextIsFinite
<1>3. PICK m \in DOMAIN passage :
          /\ Aligned(Signals(said), passage) = passage[m]
          /\ \A j \in DOMAIN passage :
                /\ Cardinality(Content(said) \cap Words(passage[j]))
                       <= Cardinality(Content(said) \cap Words(passage[m]))
                /\ Cardinality(Content(said) \cap Words(passage[j]))
                       = Cardinality(Content(said) \cap Words(passage[m])) => m <= j
  <2> HIDE DEF said
  <2> QED BY <1>1, AlignedIsFirstBest
<1>4. /\ Cardinality(Content(said) \cap Words(said)) = Cardinality(Content(said))
      /\ Cardinality(Content(said) \cap Words(passage[m])) <= Cardinality(Content(said))
      /\ Cardinality(Content(said) \cap Words(passage[m])) \in Nat
      /\ Cardinality(Content(said)) \in Nat
  <2>1. Cardinality(Content(said) \cap Words(said)) = Cardinality(Content(said))
    <3> HIDE DEF said
    <3> QED BY <1>1, <1>2, SharedContent
  <2>2. /\ Cardinality(Content(said) \cap Words(passage[m])) <= Cardinality(Content(said))
        /\ Cardinality(Content(said) \cap Words(passage[m])) \in Nat
        /\ Cardinality(Content(said)) \in Nat
    <3> HIDE DEF said
    <3> QED BY <1>1, SharedContent
  <2> QED BY <2>1, <2>2
<1>5. Cardinality(Content(said) \cap Words(passage[m])) = Cardinality(Content(said))
  <2>1. Cardinality(Content(said) \cap Words(passage[k]))
            <= Cardinality(Content(said) \cap Words(passage[m]))
    BY <1>3
  <2> QED BY <1>4, <2>1
<1>6. Content(said) \subseteq Words(passage[m])
  BY <1>1, <1>5, SharedContent
<1>7. m <= k
  BY <1>3, <1>4, <1>5
<1>8. m = k
  <2>1. m \in Nat /\ m >= 1
    OBVIOUS
  <2> QED BY <1>1, <1>6, <1>7, <2>1
<1>9. aligned = claim /\ claim.content = Content(said)
  BY <1>3, <1>8 DEF Signals
<1>10. /\ Cardinality(claim.content \cap claim.content) = Cardinality(claim.content)
       /\ Cardinality(claim.content) \in Nat
  <2>1. claim.content \cap claim.content = claim.content
    OBVIOUS
  <2> QED BY <1>4, <1>9, <2>1
<1> HIDE DEF claim, aligned
<1>11. Supports(claim, claim) /\ PartlyCovers(claim, claim)
  BY <1>10 DEF Supports, PartlyCovers, Covered
<1>12. ~Contradicts(claim, claim)
  BY DEF Contradicts, NumbersConflict, DatesConflict
<1>13. NumbersEntailed(claim, claim)
  BY DEF NumbersEntailed
<1>14. claim.content # {}
  BY <1>9
<1> QED BY <1>9, <1>11, <1>12, <1>13, <1>14 DEF Analyze, claim, aligned

\* What the cited passage contradicts is given the verdict "contradicted".
LEMMA ContradictedIsSaid ==
    ASSUME NEW said, NEW passage, Content(said) # {},
           Contradicts(Signals(said), Signals(Aligned(Signals(said), passage)))
    PROVE  Analyze(said, passage) = "contradicted"
<1>1. Signals(said).content = Content(said)
  BY DEF Signals
<1> QED BY <1>1 DEF Analyze

-----------------------------------------------------------------------------
(* The search. *)

PassageType == [chunk : Chunks, fused : 0..(2 * Unit), raw : Int]

\* Where a member of the list leads another, it comes first.
Respects(list, leads) == \A i, j \in DOMAIN list : <<list[i], list[j]>> \in leads => i < j

LEMMA TruncatedList ==
    ASSUME NEW X, NEW list \in Seq(X), NEW n \in Nat
    PROVE  /\ Truncated(list, n) \in Seq(X)
           /\ Len(Truncated(list, n)) <= n
           /\ \A i \in DOMAIN Truncated(list, n) :
                 i \in DOMAIN list /\ Truncated(list, n)[i] = list[i]
<1> DEFINE k == IF Len(list) < n THEN Len(list) ELSE n
<1>1. k \in Nat /\ k <= n /\ k <= Len(list) /\ DOMAIN list = 1..Len(list)
  OBVIOUS
<1>2. \A i \in 1..k : list[i] \in X
  BY <1>1
<1>3. Truncated(list, n) = SubSeq(list, 1, k)
  BY DEF Truncated
<1> HIDE DEF k
<1>4. /\ SubSeq(list, 1, k) \in Seq(X)
      /\ Len(SubSeq(list, 1, k)) = IF 1 <= k THEN k - 1 + 1 ELSE 0
      /\ \A i \in 1..(k - 1 + 1) : SubSeq(list, 1, k)[i] = list[1 + i - 1]
  BY <1>1, <1>2, SubSeqProperties
<1> DEFINE t == SubSeq(list, 1, k)
<1>5. t \in Seq(X) /\ Len(t) = k /\ \A i \in 1..k : t[i] = list[i]
  BY <1>1, <1>4
<1> HIDE DEF t
<1>6. DOMAIN t = 1..k
  BY <1>5
<1>7. \A i \in DOMAIN t : i \in DOMAIN list /\ t[i] = list[i]
  BY <1>1, <1>5, <1>6
<1> QED BY <1>1, <1>3, <1>5, <1>7 DEF t

\* Neither cutting a list off nor leaving some of it out changes what comes first.
LEMMA TruncatedRespects ==
    ASSUME NEW X, NEW list \in Seq(X), NEW n \in Nat, NEW leads, Respects(list, leads)
    PROVE  Respects(Truncated(list, n), leads)
BY TruncatedList DEF Respects

LEMMA AtPlacesRespects ==
    ASSUME NEW X, NEW list \in Seq(X), NEW places \in SUBSET DOMAIN list, NEW leads,
           Respects(list, leads)
    PROVE  Respects(AtPlaces(list, places), leads)
<1> DEFINE a == AtPlaces(list, places)
           f == Ascending(places)
           N == Cardinality(places)
<1>1. /\ N \in Nat /\ a \in Seq(X) /\ Len(a) = N
      /\ f \in [1..N -> places]
      /\ \A n \in 1..N : a[n] = list[f[n]]
      /\ \A m, n \in 1..N : m < n <=> f[m] < f[n]
  BY ElementsAtPlaces
<1> HIDE DEF a, f, N
<1>2. SUFFICES ASSUME NEW i \in DOMAIN a, NEW j \in DOMAIN a, <<a[i], a[j]>> \in leads
               PROVE  i < j
  BY DEF Respects, a
<1>3. i \in 1..N /\ j \in 1..N
  BY <1>1
<1>4. f[i] \in DOMAIN list /\ f[j] \in DOMAIN list /\ a[i] = list[f[i]] /\ a[j] = list[f[j]]
  BY <1>1, <1>3
<1>5. f[i] < f[j]
  BY <1>2, <1>4 DEF Respects
<1> QED BY <1>1, <1>3, <1>5

\* A result list ranks chunks of the workspace from 1.
LEMMA Ranks ==
    ASSUME NEW list \in ResultLists
    PROVE  /\ Elements(list) \subseteq Chunks
           /\ \A c \in Elements(list) :
                 Rank(list, c) \in 1..Cardinality(Chunks) /\ list[Rank(list, c)] = c
<1>1. Cardinality(Chunks) \in Nat
  BY PipelineAssumption, FS_CardinalityType
<1>2. PICK m \in 0..Cardinality(Chunks) : list \in [1..m -> Chunks]
  BY DEF ResultLists, SeqOf
<1>3. DOMAIN list = 1..m /\ 1..m \subseteq 1..Cardinality(Chunks)
  BY <1>1, <1>2
<1>4. \A c \in Elements(list) : Rank(list, c) \in DOMAIN list /\ list[Rank(list, c)] = c
  BY DEF Elements, Rank
<1> QED BY <1>2, <1>3, <1>4 DEF Elements

\* Of two divisors of a number the smaller goes into it more often.
LEMMA MoreOften ==
    ASSUME NEW u \in Nat \ {0}, NEW a \in Nat \ {0}, NEW b \in Nat \ {0},
           u % a = 0, u % b = 0
    PROVE  /\ u \div a \in 1..u
           /\ a < b => u \div b < u \div a
<1> DEFINE x == u \div a
           y == u \div b
<1>1. x \in Nat /\ y \in Nat /\ u = a * x /\ u = b * y
  BY Z3
<1> HIDE DEF x, y
<1>2. x # 0 /\ y # 0
  BY <1>1
<1>3. x <= a * x
  BY <1>1
<1>4. a < b => y < x
  <2> SUFFICES ASSUME a < b, x <= y PROVE FALSE
    BY <1>1
  <2>1. a * x <= a * y
    BY <1>1
  <2>2. a * y < b * y
    BY <1>1, <1>2
  <2>3. a * x \in Nat /\ a * y \in Nat /\ b * y \in Nat
    BY <1>1
  <2> QED BY <1>1, <2>1, <2>2, <2>3
<1> QED BY <1>1, <1>2, <1>3, <1>4 DEF x, y

\* What a list contributes to a chunk's score: more, the better its rank.
LEMMA Contributions ==
    ASSUME NEW list \in ResultLists
    PROVE  /\ \A c \in Chunks : Contribution(list, c) \in 0..Unit
           /\ \A c \in Chunks \ Elements(list) : Contribution(list, c) = 0
           /\ \A c \in Elements(list) : Contribution(list, c) > 0
           /\ \A c, d \in Elements(list) :
                 Rank(list, c) < Rank(list, d) => Contribution(list, c) > Contribution(list, d)
<1>1. RrfK \in Nat \ {0} /\ Unit \in Nat \ {0}
  BY RankingAssumption
<1>2. \A c \in Elements(list) : /\ Rank(list, c) \in Nat
                                /\ RrfK + Rank(list, c) \in Nat \ {0}
                                /\ Unit % (RrfK + Rank(list, c)) = 0
  BY <1>1, Ranks, ExactRanks
<1>3. \A c \in Elements(list) : Contribution(list, c) = Unit \div (RrfK + Rank(list, c))
  BY DEF Contribution
<1>4. \A c \in Chunks \ Elements(list) : Contribution(list, c) = 0
  BY DEF Contribution
<1>5. \A c \in Elements(list) : Contribution(list, c) \in 1..Unit
  <2> SUFFICES ASSUME NEW c \in Elements(list) PROVE Contribution(list, c) \in 1..Unit
    OBVIOUS
  <2>1. Unit \div (RrfK + Rank(list, c)) \in 1..Unit
    BY <1>1, <1>2, MoreOften
  <2> QED BY <1>3, <2>1
<1>6. ASSUME NEW c \in Elements(list), NEW d \in Elements(list), Rank(list, c) < Rank(list, d)
      PROVE  Contribution(list, c) > Contribution(list, d)
  <2> DEFINE a == RrfK + Rank(list, c)
             b == RrfK + Rank(list, d)
  <2>1. a \in Nat \ {0} /\ b \in Nat \ {0} /\ Unit % a = 0 /\ Unit % b = 0 /\ a < b
    BY <1>1, <1>2, <1>6
  <2>2. Contribution(list, c) = Unit \div a /\ Contribution(list, d) = Unit \div b
    BY <1>3
  <2>3. /\ Contribution(list, c) \in 1..Unit /\ Contribution(list, d) \in 1..Unit
    BY <1>5
  <2> HIDE DEF a, b
  <2>4. Unit \div b < Unit \div a
    BY <1>1, <2>1, MoreOften
  <2> QED BY <2>2, <2>3, <2>4
<1>7. \A c \in Chunks : Contribution(list, c) \in 0..Unit
  <2> SUFFICES ASSUME NEW c \in Chunks PROVE Contribution(list, c) \in 0..Unit
    OBVIOUS
  <2>1. CASE c \in Elements(list)
    BY <1>1, <1>5, <2>1
  <2>2. CASE c \notin Elements(list)
    BY <1>1, <1>4, <2>2
  <2> QED BY <2>1, <2>2
<1> QED BY <1>4, <1>5, <1>6, <1>7

\* A chunk that is above another in both searches has the better score.
LEMMA AboveScoresMore ==
    ASSUME lexical \in ResultLists, dense \in ResultLists,
           NEW a \in Chunks, NEW b \in Chunks, Above(a, b)
    PROVE  FusedScore(lexical, dense, a) > FusedScore(lexical, dense, b)
<1>1. ASSUME NEW list \in {lexical, dense}
      PROVE  /\ Contribution(list, a) \in Nat /\ Contribution(list, b) \in Nat
             /\ Contribution(list, a) >= Contribution(list, b)
             /\ a \in Elements(list) => Contribution(list, a) > Contribution(list, b)
  <2>1. list \in ResultLists
    OBVIOUS
  <2>2. Contribution(list, a) \in 0..Unit /\ Contribution(list, b) \in 0..Unit
    BY <2>1, Contributions
  <2>3. CASE b \in Elements(list)
    <3>1. a \in Elements(list) /\ Rank(list, a) < Rank(list, b)
      BY <2>3 DEF Above
    <3>2. Contribution(list, a) > Contribution(list, b)
      BY <2>1, <2>3, <3>1, Contributions
    <3> QED BY <2>2, <3>2, RankingAssumption
  <2>4. CASE b \notin Elements(list)
    <3>1. Contribution(list, b) = 0
      BY <2>1, <2>4, Contributions
    <3>2. a \in Elements(list) => Contribution(list, a) > 0
      BY <2>1, Contributions
    <3> QED BY <2>2, <3>1, <3>2, RankingAssumption
  <2> QED BY <2>3, <2>4
<1>2. a \in Elements(lexical) \/ a \in Elements(dense)
  BY DEF Above
<1>3. /\ Contribution(lexical, a) \in Nat /\ Contribution(lexical, b) \in Nat
      /\ Contribution(lexical, a) >= Contribution(lexical, b)
      /\ a \in Elements(lexical) => Contribution(lexical, a) > Contribution(lexical, b)
  BY <1>1
<1>4. /\ Contribution(dense, a) \in Nat /\ Contribution(dense, b) \in Nat
      /\ Contribution(dense, a) >= Contribution(dense, b)
      /\ a \in Elements(dense) => Contribution(dense, a) > Contribution(dense, b)
  BY <1>1
<1> QED BY <1>2, <1>3, <1>4 DEF FusedScore

\* What the fused lists lead with, without a reranker: what both searches put above.
Leads ==
    {p \in PassageType \X PassageType :
        \/ p[1].raw > p[2].raw
        \/ ~reranking /\ Above(p[1].chunk, p[2].chunk)}

\* Fusion returns at most n passages, the better ones first.
LEMMA FusedList ==
    ASSUME lexical \in ResultLists, dense \in ResultLists, NEW n \in Nat
    PROVE  /\ Fuse(lexical, dense, n) \in Seq(PassageType)
           /\ Len(Fuse(lexical, dense, n)) <= n
           /\ Respects(Fuse(lexical, dense, n), Leads)
<1> DEFINE S == Elements(lexical) \cup Elements(dense)
           score == [c \in S |-> FusedScore(lexical, dense, c)]
           order == ByScore(DOMAIN score, score)
           N == Cardinality(S)
           all == [i \in DOMAIN order |-> [chunk |-> order[i], fused |-> score[order[i]],
                                           raw |-> NoScore]]
<1>1. S \subseteq Chunks /\ IsFiniteSet(S) /\ S \in SUBSET Int
  <2>1. S \in SUBSET Chunks
    BY Ranks
  <2>2. IsFiniteSet(Chunks) /\ Chunks \subseteq Int
    BY PipelineAssumption
  <2> HIDE DEF S
  <2> QED BY <2>1, <2>2, FS_Subset
<1>2. \A c \in Chunks : FusedScore(lexical, dense, c) \in 0..(2 * Unit)
  <2> SUFFICES ASSUME NEW c \in Chunks PROVE FusedScore(lexical, dense, c) \in 0..(2 * Unit)
    OBVIOUS
  <2>1. Contribution(lexical, c) \in 0..Unit /\ Contribution(dense, c) \in 0..Unit
    BY Contributions
  <2> QED BY <2>1, RankingAssumption DEF FusedScore
<1>3. \A c \in S : score[c] = FusedScore(lexical, dense, c) /\ score[c] \in 0..(2 * Unit)
  <2>1. \A c \in S : score[c] = FusedScore(lexical, dense, c)
    OBVIOUS
  <2> HIDE DEF S, score
  <2> QED BY <1>1, <1>2, <2>1
<1>4. Fuse(lexical, dense, n) = Truncated(all, n)
  BY DEF Fuse
<1>5. DOMAIN score = S
  OBVIOUS
<1>6. /\ N \in Nat /\ order \in [1..N -> S]
      /\ \A i, j \in 1..N :
            i < j <=> \/ score[order[i]] > score[order[j]]
                      \/ score[order[i]] = score[order[j]] /\ order[i] < order[j]
  <2>1. \A c \in S : score[c] \in Int
    <3> HIDE DEF S, score
    <3> QED BY <1>3, RankingAssumption
  <2> HIDE DEF S, score
  <2> QED BY <1>1, <1>5, <2>1, ByScoreInOrder
<1>7. all \in [1..N -> PassageType]
  <2>1. DOMAIN order = 1..N
    BY <1>6
  <2> SUFFICES ASSUME NEW i \in 1..N
               PROVE  [chunk |-> order[i], fused |-> score[order[i]], raw |-> NoScore]
                          \in PassageType
    BY <2>1
  <2>2. order[i] \in S
    BY <1>6
  <2> HIDE DEF S, score, order
  <2>3. order[i] \in Chunks /\ score[order[i]] \in 0..(2 * Unit) /\ NoScore \in Int
    <3>1. order[i] \in Chunks
      BY <1>1, <2>2
    <3>2. score[order[i]] \in 0..(2 * Unit)
      BY <1>3, <2>2
    <3> QED BY <3>1, <3>2 DEF NoScore
  <2> QED BY <2>3 DEF PassageType
<1>8. all \in Seq(PassageType)
  <2> HIDE DEF N, all
  <2> QED BY <1>6, <1>7, FunctionIsSequence
<1>9. \A i \in 1..N : all[i].chunk = order[i] /\ all[i].raw = NoScore
  <2>1. DOMAIN order = 1..N
    BY <1>6
  <2> QED BY <2>1
<1>10. Respects(all, Leads)
  <2> SUFFICES ASSUME NEW i \in DOMAIN all, NEW j \in DOMAIN all, <<all[i], all[j]>> \in Leads
               PROVE  i < j
    BY DEF Respects
  <2>1. i \in 1..N /\ j \in 1..N
    BY <1>7
  <2>2. all[i].raw > all[j].raw \/ Above(all[i].chunk, all[j].chunk)
    BY DEF Leads
  <2>3. Above(order[i], order[j])
    <3>1. all[i].chunk = order[i] /\ all[j].chunk = order[j] /\ all[i].raw = -1 /\ all[j].raw = -1
      BY <1>9, <2>1 DEF NoScore
    <3> HIDE DEF all
    <3> QED BY <2>2, <3>1
  <2>4. order[i] \in S /\ order[j] \in S
    BY <1>6, <2>1
  <2> HIDE DEF S, order, score, all
  <2>5. score[order[i]] > score[order[j]]
    BY <1>1, <1>3, <2>3, <2>4, AboveScoresMore
  <2> QED BY <1>6, <2>1, <2>5
<1> HIDE DEF all
<1> QED BY <1>4, <1>8, <1>10, TruncatedList, TruncatedRespects

\* The rows that are still there keep their order.
LEMMA HydratedList ==
    ASSUME NEW list \in Seq(PassageType), NEW present, NEW leads, Respects(list, leads)
    PROVE  Hydrated(list, present) \in Seq(PassageType) /\ Respects(Hydrated(list, present), leads)
<1> DEFINE places == {i \in DOMAIN list : list[i].chunk \in present}
<1>1. places \in SUBSET DOMAIN list
  OBVIOUS
<1>2. Hydrated(list, present) = AtPlaces(list, places)
  BY DEF Hydrated
<1> HIDE DEF places
<1> QED BY <1>1, <1>2, ElementsAtPlaces, AtPlacesRespects

\* The reranker's order is that of its scores.
LEMMA RerankedList ==
    ASSUME reranking, NEW list \in Seq(PassageType),
           NEW s \in [{list[i].chunk : i \in DOMAIN list} -> RawScores]
    PROVE  Reranked(list, s) \in Seq(PassageType) /\ Respects(Reranked(list, s), Leads)
<1>1. CASE list = <<>>
  <2>1. Reranked(list, s) = <<>> /\ DOMAIN (<<>>) = {}
    BY <1>1 DEF Reranked
  <2> QED BY <2>1 DEF Respects
<1>2. CASE list # <<>>
  <2> DEFINE C == {list[i].chunk : i \in DOMAIN list}
             kept == {c \in C : Clears(s, c)}
             order == ByScore(kept, s)
             at(c) == CHOOSE i \in DOMAIN list : list[i].chunk = c
             out == [n \in DOMAIN order |-> [list[at(order[n])] EXCEPT !.raw = s[order[n]]]]
             N == Cardinality(kept)
  <2>1. Reranked(list, s) = out
    BY <1>2 DEF Reranked
  <2>2. kept \in SUBSET Int /\ IsFiniteSet(kept) /\ kept \subseteq C
    <3>1. \A i \in DOMAIN list : list[i].chunk \in Chunks
      <4>1. \A i \in DOMAIN list : list[i] \in PassageType
        OBVIOUS
      <4> QED BY <4>1 DEF PassageType
    <3>2. kept \in SUBSET Chunks /\ kept \subseteq C
      BY <3>1
    <3> HIDE DEF kept, C
    <3>3. IsFiniteSet(kept)
      BY <3>2, PipelineAssumption, FS_Subset
    <3>4. Chunks \subseteq Int
      BY PipelineAssumption
    <3> QED BY <3>2, <3>3, <3>4
  <2>3. \A c \in kept : s[c] \in Int
    BY PipelineAssumption
  <2>4. /\ N \in Nat /\ order \in [1..N -> kept]
        /\ \A i, j \in 1..N :
              i < j <=> \/ s[order[i]] > s[order[j]]
                        \/ s[order[i]] = s[order[j]] /\ order[i] < order[j]
    <3> HIDE DEF kept
    <3> QED BY <2>2, <2>3, ByScoreInOrder
  <2>5. \A c \in kept : at(c) \in DOMAIN list
    OBVIOUS
  <2>6. out \in [1..N -> PassageType] /\ \A i \in 1..N : out[i].raw = s[order[i]]
    <3>1. DOMAIN order = 1..N
      BY <2>4
    <3>2. ASSUME NEW i \in 1..N
          PROVE  /\ [list[at(order[i])] EXCEPT !.raw = s[order[i]]] \in PassageType
                 /\ [list[at(order[i])] EXCEPT !.raw = s[order[i]]].raw = s[order[i]]
      <4>1. order[i] \in kept
        BY <2>4
      <4>2. at(order[i]) \in DOMAIN list /\ s[order[i]] \in Int
        BY <2>3, <2>5, <4>1
      <4> HIDE DEF order, at, kept
      <4>3. list[at(order[i])] \in PassageType
        BY <4>2
      <4> QED BY <4>2, <4>3 DEF PassageType
    <3> HIDE DEF order, at
    <3> QED BY <3>1, <3>2
  <2>7. Respects(out, Leads)
    <3> SUFFICES ASSUME NEW i \in DOMAIN out, NEW j \in DOMAIN out, <<out[i], out[j]>> \in Leads
                 PROVE  i < j
      BY DEF Respects
    <3>1. i \in 1..N /\ j \in 1..N
      BY <2>6
    <3>2. out[i].raw > out[j].raw
      BY DEF Leads
    <3> HIDE DEF out, order, kept
    <3> QED BY <2>4, <2>6, <3>1, <3>2
  <2> HIDE DEF out
  <2> QED BY SMTT(60), <2>1, <2>4, <2>6, <2>7
<1> QED BY <1>1, <1>2

\* Every passage at one score is in any order.
LEMMA PassedThroughList ==
    ASSUME reranking, NEW list \in Seq(PassageType)
    PROVE  PassedThrough(list) \in Seq(PassageType) /\ Respects(PassedThrough(list), Leads)
<1> DEFINE out == PassedThrough(list)
<1>1. DOMAIN list = 1..Len(list) /\ Len(list) \in Nat
  OBVIOUS
<1>2. out \in [1..Len(list) -> PassageType] /\ \A i \in 1..Len(list) : out[i].raw = 0
  <2>1. ASSUME NEW i \in 1..Len(list)
        PROVE  [list[i] EXCEPT !.raw = 0] \in PassageType /\ [list[i] EXCEPT !.raw = 0].raw = 0
    <3>1. list[i] \in PassageType
      OBVIOUS
    <3> QED BY SMTT(60), <3>1 DEF PassageType
  <2> QED BY <1>1, <2>1 DEF PassedThrough
<1> HIDE DEF out
<1>3. out \in Seq(PassageType)
  BY <1>1, <1>2
<1>4. Respects(out, Leads)
  <2> SUFFICES ASSUME NEW i \in DOMAIN out, NEW j \in DOMAIN out, <<out[i], out[j]>> \in Leads
               PROVE  i < j
    BY DEF Respects
  <2>1. out[i].raw = 0 /\ out[j].raw = 0
    BY <1>2
  <2> QED BY <2>1 DEF Leads
<1> QED BY <1>3, <1>4 DEF out

\* So what a retrieval keeps is what leads, in order.
LEMMA RetrievedList ==
    ASSUME lexical \in ResultLists, dense \in ResultLists, reranking \in BOOLEAN,
           NEW present,
           NEW ranked \in Rerankings(Hydrated(Fuse(lexical, dense, FusionLimit(reranking, TopK)),
                                              present))
    PROVE  ranked \in Seq(PassageType) /\ Respects(ranked, Leads)
<1> DEFINE fused == Fuse(lexical, dense, FusionLimit(reranking, TopK))
           hydrated == Hydrated(fused, present)
<1>1. FusionLimit(reranking, TopK) \in Nat
  BY RankingAssumption, PipelineAssumption DEF FusionLimit
<1>2. fused \in Seq(PassageType) /\ Respects(fused, Leads)
  BY <1>1, FusedList
<1> HIDE DEF fused
<1>3. hydrated \in Seq(PassageType) /\ Respects(hydrated, Leads)
  BY <1>2, HydratedList
<1>4. ranked \in Rerankings(hydrated)
  BY DEF fused
<1> HIDE DEF hydrated
<1>5. CASE ~reranking \/ hydrated = <<>>
  BY <1>3, <1>4, <1>5 DEF Rerankings
<1>6. CASE reranking /\ hydrated # <<>>
  <2>1. \/ ranked = PassedThrough(hydrated)
        \/ \E s \in [{hydrated[i].chunk : i \in DOMAIN hydrated} -> RawScores] :
              ranked = Reranked(hydrated, s)
    BY <1>4, <1>6 DEF Rerankings
  <2> QED BY <1>3, <1>6, <2>1, PassedThroughList, RerankedList
<1> QED BY <1>5, <1>6

-----------------------------------------------------------------------------
(* The inductive invariant. *)

ClaimType == [claim : Propositions, confidence : 0..(100 * Unit)]
Decisions == {"abstain", "ask_for_clarification", "escalate_for_review"} \cup Answering
Nodes == {"authorize", "lexical", "dense", "retrieve", "generate", "verify", "decide",
          "compose", "abstain", "end", "failed"}
Searching == {"authorize", "lexical", "dense", "retrieve", "failed"}

\* The types of the state, which TypeOK follows from.
Typed ==
    /\ node \in Nodes /\ reranking \in BOOLEAN /\ ocr \in OcrCases /\ query \in Queries
    /\ lexical \in ResultLists /\ dense \in ResultLists
    /\ authorized \in BOOLEAN /\ sufficient \in BOOLEAN
    /\ evidence \in Seq(PassageType) /\ Len(evidence) <= MaxEvidence
    /\ retrieved \in 0..TopK
    /\ candidates \in Seq(Propositions) /\ Len(candidates) <= MaxClaims
    /\ verdicts \in Seq(Verdicts \cup {"uncited"})
    /\ claims \in Seq(ClaimType)
    /\ decision \in Decisions
    /\ confidence \in 0..(100 * Unit)
    /\ audited \in 0..1

\* What the earlier nodes leave for the later ones.
Staged ==
    /\ node \in Searching => evidence = <<>>
    /\ node \in Searching \cup {"generate"} => candidates = <<>>
    /\ node \in Searching \cup {"generate", "verify"} =>
          /\ claims = <<>> /\ verdicts = <<>>
    /\ node \in Nodes \ {"authorize", "failed"} => authorized
    /\ node \notin Searching => (sufficient <=> Len(evidence) >= MinEvidence)
    /\ node \in {"generate", "verify", "decide", "compose"} => sufficient
    /\ node \notin Searching /\ ~sufficient => candidates = <<>> /\ decision = "abstain"
    /\ node \notin Searching \cup {"generate", "verify"} => DOMAIN verdicts = DOMAIN candidates
    /\ node \in Searching \cup {"generate", "verify", "decide"} => decision = "abstain"
    /\ node # "end" => audited = 0

\* Every verdict is the verifier's about the evidence still at hand, and every claim is a
\* candidate that it supports.
Judged ==
    /\ \A i \in DOMAIN verdicts :
          /\ i \in DOMAIN candidates
          /\ verdicts[i] = IF Cited(candidates[i]) THEN Assess(candidates[i]) ELSE "uncited"
    /\ \A n \in DOMAIN claims : \E i \in DOMAIN verdicts :
          claims[n].claim = candidates[i] /\ verdicts[i] = "supported"
    /\ Len(claims) <= Len(candidates)

\* The decision is that of the policy, and what ends the question agrees with it.
Ruled ==
    /\ node \in {"compose", "abstain", "end"} /\ Count("contradicted") > 0 =>
          decision = "escalate_for_review"
    /\ node \in {"compose", "end"} /\ decision = "answer" => ~Warned
    /\ node = "compose" => decision \in Answering /\ claims # <<>>
    /\ node = "abstain" => decision \notin Answering

Ended ==
    node = "end" =>
        \/ /\ outcome = IF Dropped > 0 THEN "partial" ELSE "answered"
           /\ decision \in Answering
           /\ claims # <<>>
           /\ text = [i \in DOMAIN claims |-> claims[i].claim.said]
           /\ confidence = Total \div Len(claims)
        \/ /\ outcome = "abstained"
           /\ decision \notin Answering
           /\ claims = <<>> /\ text = Refusal /\ confidence = 0
           /\ reason = AbstentionReason
           /\ decisionReason # ""

IInv == Typed /\ Staged /\ Judged /\ Ruled /\ Ended

-----------------------------------------------------------------------------
(* Arithmetic of confidences. *)

LEMMA Quotient ==
    ASSUME NEW x \in Nat, NEW b \in Nat \ {0}, NEW u \in Int
    PROVE  /\ x \div b \in Nat
           /\ x <= u * b => x \div b <= u
           /\ x >= u * b => x \div b >= u
<1> DEFINE q == x \div b
           r == x % b
<1>1. q \in Nat /\ r \in 0..(b - 1) /\ x = b * q + r
  BY Z3
<1> HIDE DEF q, r
<1>2. ASSUME x <= u * b, q >= u + 1 PROVE FALSE
  <2>1. b * q >= b * (u + 1)
    BY <1>1, <1>2
  <2>2. b * (u + 1) = u * b + b
    OBVIOUS
  <2> QED BY <1>1, <1>2, <2>1, <2>2
<1>3. ASSUME x >= u * b, q <= u - 1 PROVE FALSE
  <2>1. b * q <= b * (u - 1)
    BY <1>1, <1>3
  <2>2. b * (u - 1) = u * b - b
    OBVIOUS
  <2> QED BY <1>1, <1>3, <2>1, <2>2
<1> QED BY <1>1, <1>2, <1>3 DEF q

LEMMA OverlapBounded ==
    ASSUME query \in Sentences, NEW quote \in Sentences
    PROVE  Overlap(quote) \in 0..Unit
<1>1. CASE query = <<>>
  BY <1>1, RankingAssumption DEF Overlap
<1>2. CASE query # <<>>
  <2> DEFINE a == Cardinality(Words(query) \cap Words(quote))
             b == Cardinality(Words(query))
  <2>1. IsFiniteSet(Words(query))
    BY TextIsFinite
  <2>2. IsFiniteSet(Words(query) \cap Words(quote)) /\ a <= b
    BY <2>1, FS_Intersection
  <2>3. a \in Nat /\ b \in Nat
    BY <2>1, <2>2, FS_CardinalityType
  <2>4. Words(query) # {}
    <3>1. Len(query) \in Nat \ {0} /\ DOMAIN query = 1..Len(query)
      BY <1>2, EmptySeq DEF Sentences
    <3>2. 1 \in DOMAIN query
      BY <3>1
    <3> QED BY <3>2 DEF Words
  <2>5. b # 0
    BY <2>1, <2>4, FS_EmptySet
  <2>6. Overlap(quote) = (Unit * a) \div b
    BY <1>2 DEF Overlap
  <2> HIDE DEF a, b
  <2>7. Unit \in Nat /\ Unit * a \in Nat /\ Unit * a <= Unit * b
    BY <2>2, <2>3, RankingAssumption
  <2>8. (Unit * a) \div b \in Nat /\ (Unit * a) \div b <= Unit
    BY <2>3, <2>5, <2>7, Quotient
  <2> QED BY <2>6, <2>7, <2>8
<1> QED BY <1>1, <1>2

\* The confidence of a claim about a passage at hand is a share of a hundred units.
LEMMA BlendBounded ==
    ASSUME evidence \in Seq(PassageType), ocr \in OcrCases, query \in Queries,
           NEW p \in Propositions, Cited(p)
    PROVE  Blend(p) \in 0..(100 * Unit)
<1> DEFINE from == PassageOf(p)
           rerank == IF from.raw = NoScore THEN from.fused ELSE from.raw
           scan == IF ocr[p.chunk].engine /\ ocr[p.chunk].conf # NoOcr
                   THEN ocr[p.chunk].conf ELSE Unit
<1>1. Unit \in Nat \ {0}
  BY RankingAssumption
<1>2. \E i \in DOMAIN evidence : evidence[i].chunk = p.chunk /\ from = evidence[i]
  BY DEF Cited, PassageOf
<1>3. from \in PassageType /\ p.chunk = from.chunk
  BY <1>2
<1>4. from.raw \in Int /\ from.fused \in Int /\ p.chunk \in Chunks
  BY <1>1, <1>3 DEF PassageType
<1>5. ocr[p.chunk].conf \in Int
  <2>1. ocr \in [Chunks -> Provenance]
    BY PipelineAssumption
  <2> QED BY <1>4, <2>1 DEF Provenance
<1>6. rerank \in Int /\ scan \in Int
  BY <1>1, <1>4, <1>5
<1>7. \A x \in Int : Clamp(x) \in 0..Unit
  BY <1>1 DEF Clamp
<1>8. Overlap(p.quote) \in 0..Unit
  <2>1. query \in Sentences /\ p.quote \in Sentences
    BY PipelineAssumption DEF Sentences, Propositions
  <2> QED BY <2>1, OverlapBounded
<1>9. Blend(p) = 25 * Clamp(from.fused) + 35 * Clamp(rerank) + 30 * Overlap(p.quote)
                 + 10 * Clamp(scan)
  BY DEF Blend
<1>10. Clamp(from.fused) \in 0..Unit /\ Clamp(rerank) \in 0..Unit /\ Clamp(scan) \in 0..Unit
  <2> HIDE DEF from, rerank, scan
  <2> QED BY <1>4, <1>6, <1>7
<1> HIDE DEF from, rerank, scan
<1> QED BY SMTT(60), <1>1, <1>8, <1>9, <1>10

\* The sum of the claims' confidences.
LEMMA TotalBounded ==
    ASSUME claims \in Seq(ClaimType)
    PROVE  Total \in Nat /\ Total <= 100 * Unit * Len(claims)
<1> DEFINE w == [i \in DOMAIN claims |-> claims[i].confidence]
           S == DOMAIN claims
           b == 100 * Unit
<1>1. b \in Nat
  BY RankingAssumption
<1>2. Len(claims) \in Nat /\ S = 1..Len(claims)
  OBVIOUS
<1>3. IsFiniteSet(S) /\ Cardinality(S) = Len(claims)
  <2> HIDE DEF S
  <2> QED BY <1>2, FirstPlaces
<1>4. \A i \in S : w[i] \in 0..b
  <2>1. \A i \in S : claims[i] \in ClaimType
    OBVIOUS
  <2> QED BY <2>1 DEF ClaimType
<1>5. Total = SumOver(w, S)
  <2>1. DOMAIN w = S /\ Total = SumFunction(w)
    BY DEF Total
  <2> HIDE DEF w, S
  <2>2. SumFunction(w) = SumOver(w, S)
    BY <2>1 DEF SumOver, MapThenSumSet, MapThenFoldSet,
                SumFunction, SumFunctionOnSet, FoldFunctionOnSet
  <2> QED BY <2>1, <2>2
<1> HIDE DEF w, S, b
<1>6. SumOver(w, S) \in Nat /\ SumOver(w, S) <= b * Cardinality(S)
  BY <1>1, <1>3, <1>4, SumBounded
<1> QED BY <1>3, <1>5, <1>6 DEF b

-----------------------------------------------------------------------------
(* The local generator. *)

LEMMA FeaturesFinite ==
    ASSUME NEW t \in Sentences
    PROVE  IsFiniteSet(Features(t))
<1> DEFINE F == {FeaturesOf[w] : w \in Words(t)}
<1>1. IsFiniteSet(Words(t)) /\ Words(t) \subseteq DOMAIN FeaturesOf
  BY TextIsFinite
<1>2. IsFiniteSet(F)
  BY <1>1, FiniteImage
<1>3. \A s \in F : IsFiniteSet(s)
  BY <1>1, VocabularyAssumption
<1>4. Features(t) = UNION F
  BY DEF Features
<1> HIDE DEF F
<1> QED BY <1>2, <1>3, <1>4, FS_UNION

\* The sentence quoted is one of the passage.
LEMMA BestSentenceIsOne ==
    ASSUME NEW q \in Sentences, NEW passage \in Seq(Sentences), passage # <<>>
    PROVE  /\ BestSentence(q, passage) \in DOMAIN passage
           /\ \A t \in Sentences : Coverage(q, t) \in Nat
<1> DEFINE cover(i) == Coverage(q, passage[i])
           best == {i \in DOMAIN passage : \A j \in DOMAIN passage : cover(j) <= cover(i)}
           T == {cover(i) : i \in DOMAIN passage}
           b == Cardinality(Features(q))
<1>1. \A t \in Sentences : Coverage(q, t) \in Nat /\ Coverage(q, t) <= b
  <2> SUFFICES ASSUME NEW t \in Sentences PROVE Coverage(q, t) \in Nat /\ Coverage(q, t) <= b
    OBVIOUS
  <2>1. IsFiniteSet(Features(q))
    BY FeaturesFinite
  <2>2. /\ IsFiniteSet(Features(q) \cap Features(t))
        /\ Cardinality(Features(q) \cap Features(t)) <= b
    BY <2>1, FS_Intersection
  <2> QED BY <2>2, FS_CardinalityType DEF Coverage
<1>2. b \in Nat
  BY FeaturesFinite, FS_CardinalityType
<1>3. /\ DOMAIN passage \subseteq Nat /\ DOMAIN passage # {}
      /\ \A i \in DOMAIN passage : passage[i] \in Sentences
  <2>1. DOMAIN passage = 1..Len(passage) /\ Len(passage) \in Nat /\ Len(passage) # 0
    BY EmptySeq
  <2>2. 1 \in DOMAIN passage
    BY <2>1
  <2> QED BY <2>1, <2>2
<1>4. \A i \in DOMAIN passage : cover(i) \in Nat /\ cover(i) <= b
  BY <1>1, <1>3
<1>5. \E x \in T : \A y \in T : y <= x
  <2>1. T \in SUBSET Nat /\ T # {} /\ \A y \in T : y <= b
    BY <1>3, <1>4
  <2> HIDE DEF T, b
  <2> QED BY <1>2, <2>1, GreatestNumber
<1>6. best # {} /\ best \in SUBSET Nat
  BY <1>3, <1>5
<1>7. Minimum(best) \in best
  <2> HIDE DEF best
  <2> QED BY <1>6, MinimumIsLeast
<1>8. BestSentence(q, passage) = Minimum(best)
  BY DEF BestSentence
<1> QED BY <1>1, <1>7, <1>8

\* What the local generator proposes is well formed, and not too much.
LEMMA ExtractedList ==
    ASSUME evidence \in Seq(PassageType), query \in Queries
    PROVE  Extracted \in Seq(Propositions) /\ Len(Extracted) <= MaxClaims
<1> DEFINE places == {i \in DOMAIN evidence :
                        /\ Text[evidence[i].chunk] # <<>>
                        /\ 10 * Score(evidence[i]) >= Cardinality(Features(query))}
           w == [i \in places |-> Score(evidence[i])]
           order == ByScore(places, w)
           out == [n \in DOMAIN order |-> Quoting(evidence[order[n]])]
           N == Cardinality(places)
<1>1. MaxClaims \in Nat
  BY PipelineAssumption
<1>2. CASE Features(query) = {}
  <2>1. Extracted = <<>>
    BY <1>2 DEF Extracted
  <2> QED BY <1>1, <2>1
<1>3. CASE Features(query) # {}
  <2>1. Extracted = Truncated(out, MaxClaims)
    BY <1>3 DEF Extracted
  <2>2. \A i \in DOMAIN evidence : evidence[i].chunk \in Chunks
    <3>1. \A i \in DOMAIN evidence : evidence[i] \in PassageType
      OBVIOUS
    <3> QED BY <3>1 DEF PassageType
  <2>3. ASSUME NEW i \in places
        PROVE  Score(evidence[i]) \in Int /\ Quoting(evidence[i]) \in Propositions
    <3> DEFINE c == evidence[i].chunk
               s == BestSentence(query, Text[c])
    <3>1. c \in Chunks /\ Text[c] # <<>>
      BY <2>2
    <3>2. Text[c] \in Seq(Sentences) /\ query \in Sentences /\ c \in Nat
      BY <3>1, PipelineAssumption DEF Sentences
    <3>3. s \in DOMAIN Text[c] /\ \A t \in Sentences : Coverage(query, t) \in Nat
      BY <3>1, <3>2, BestSentenceIsOne
    <3>4. Text[c][s] \in Sentences
      BY <3>2, <3>3
    <3>5. Score(evidence[i]) \in Int
      BY <3>3, <3>4 DEF Score
    <3>6. Quoting(evidence[i]) = Proposal(c, Text[c][s], Text[c][s], TRUE)
      BY DEF Quoting
    <3> HIDE DEF c, s
    <3>7. Quoting(evidence[i]) \in Propositions
      BY <3>2, <3>4, <3>6 DEF Proposal, Propositions, Sentences
    <3> QED BY <3>5, <3>7
  <2>4. places \in SUBSET Int /\ IsFiniteSet(places)
    <3>1. DOMAIN evidence = 1..Len(evidence) /\ Len(evidence) \in Nat
      OBVIOUS
    <3>2. IsFiniteSet(1..Len(evidence)) /\ places \in SUBSET (1..Len(evidence))
      BY <3>1, FirstPlaces
    <3> HIDE DEF places
    <3>3. IsFiniteSet(places)
      BY <3>2, FS_Subset
    <3> QED BY <3>2, <3>3
  <2>5. \A i \in places : w[i] \in Int
    BY <2>3
  <2>6. N \in Nat /\ order \in [1..N -> places]
    <3> HIDE DEF places, w
    <3> QED BY <2>4, <2>5, ByScoreInOrder
  <2>7. out \in [1..N -> Propositions]
    <3>1. DOMAIN order = 1..N /\ \A n \in 1..N : order[n] \in places
      BY <2>6
    <3> HIDE DEF order, places
    <3> QED BY <2>3, <3>1
  <2>8. out \in Seq(Propositions)
    <3> HIDE DEF out, N
    <3> QED BY <2>6, <2>7, FunctionIsSequence
  <2> HIDE DEF out
  <2> QED BY <1>1, <2>1, <2>8, TruncatedList
<1> QED BY <1>2, <1>3

-----------------------------------------------------------------------------
(* Every step keeps the invariant. *)

LEMMA NothingFound == <<>> \in ResultLists
<1>1. Cardinality(Chunks) \in Nat
  BY PipelineAssumption, FS_CardinalityType
<1>2. <<>> \in [1..0 -> Chunks]
  OBVIOUS
<1>3. <<>> \in SeqOf(Chunks, Cardinality(Chunks))
  BY <1>1, <1>2 DEF SeqOf
<1>4. Elements(<<>>) = {} /\ Len(<<>>) = 0
  BY DEF Elements
<1> QED BY <1>3, <1>4, FS_EmptySet DEF ResultLists

\* What is read from the verdicts and the claims stays while they do.
LEMMA SameJudgement ==
    ASSUME UNCHANGED <<evidence, ocr, query, candidates, claims, verdicts>>
    PROVE  /\ Judged => Judged'
           /\ \A v : Count(v)' = Count(v)
           /\ Warned' <=> Warned
           /\ Dropped' = Dropped /\ Total' = Total
<1>1. \A p : Assess(p)' = Assess(p) /\ (Cited(p)' <=> Cited(p))
  BY DEF Assess, Cited, Blend, PassageOf, Overlap
<1>2. Judged => Judged'
  BY <1>1 DEF Judged
<1>3. \A v : Count(v)' = Count(v)
  BY DEF Count
<1>4. Total' = Total /\ Dropped' = Dropped
  BY DEF Total, Dropped
<1>5. Warned' <=> Warned
  BY <1>4 DEF Warned, LowReliability, UnknownReliability, OcrOf
<1> QED BY <1>2, <1>3, <1>4, <1>5

LEMMA NothingJudged ==
    verdicts = <<>> /\ claims = <<>> /\ candidates \in Seq(Propositions) => Judged
<1> SUFFICES ASSUME verdicts = <<>>, claims = <<>>, candidates \in Seq(Propositions)
             PROVE  Judged
  OBVIOUS
<1>1. DOMAIN verdicts = {} /\ DOMAIN claims = {} /\ Len(claims) = 0 /\ Len(candidates) \in Nat
  OBVIOUS
<1> QED BY <1>1 DEF Judged

LEMMA NoVerdicts == verdicts = <<>> => \A v : Count(v) = 0
<1> SUFFICES ASSUME verdicts = <<>>, NEW v PROVE Count(v) = 0
  OBVIOUS
<1>1. {i \in DOMAIN verdicts : verdicts[i] = v} = {}
  OBVIOUS
<1> QED BY <1>1, FS_EmptySet DEF Count

LEMMA Initially == Init => IInv
<1> SUFFICES ASSUME Init PROVE IInv
  OBVIOUS
<1>1. /\ <<>> \in Seq(PassageType) /\ <<>> \in Seq(Propositions) /\ <<>> \in Seq(ClaimType)
      /\ <<>> \in Seq(Verdicts \cup {"uncited"}) /\ Len(<<>>) = 0
  OBVIOUS
<1>2. 0 \in 0..(100 * Unit) /\ 0 \in 0..TopK /\ 0 <= MaxEvidence /\ 0 <= MaxClaims
  BY RankingAssumption, PipelineAssumption
<1>3. Typed
  <2>1. node \in Nodes /\ reranking \in BOOLEAN /\ ocr \in OcrCases /\ query \in Queries
    BY DEF Init, Nodes
  <2>2. /\ lexical \in ResultLists /\ dense \in ResultLists
        /\ authorized \in BOOLEAN /\ sufficient \in BOOLEAN
        /\ evidence \in Seq(PassageType) /\ Len(evidence) <= MaxEvidence
        /\ retrieved \in 0..TopK
    BY <1>1, <1>2, NothingFound DEF Init
  <2>3. /\ candidates \in Seq(Propositions) /\ Len(candidates) <= MaxClaims
        /\ verdicts \in Seq(Verdicts \cup {"uncited"}) /\ claims \in Seq(ClaimType)
    BY <1>1, <1>2 DEF Init
  <2>4. decision \in Decisions /\ confidence \in 0..(100 * Unit) /\ audited \in 0..1
    <3>1. decision \in Decisions
      BY DEF Init, Decisions
    <3>2. confidence = 0 /\ audited = 0
      BY DEF Init
    <3> QED BY <1>2, <3>1, <3>2
  <2> QED BY <2>1, <2>2, <2>3, <2>4 DEF Typed
<1>4. Staged
  BY DEF Init, Staged, Searching, Nodes
<1>5. Judged
  BY <1>1, NothingJudged DEF Init
<1>6. Ruled /\ Ended
  BY DEF Init, Ruled, Ended
<1> QED BY <1>3, <1>4, <1>5, <1>6 DEF IInv

LEMMA AskStep == IInv /\ Ask => IInv'
<1> SUFFICES ASSUME IInv, Ask PROVE IInv'
  OBVIOUS
<1>1. /\ <<>> \in Seq(PassageType) /\ <<>> \in Seq(Propositions) /\ <<>> \in Seq(ClaimType)
      /\ <<>> \in Seq(Verdicts \cup {"uncited"}) /\ Len(<<>>) = 0
  OBVIOUS
<1>2. 0 \in 0..(100 * Unit) /\ 0 \in 0..TopK /\ 0 <= MaxEvidence /\ 0 <= MaxClaims
  BY RankingAssumption, PipelineAssumption
<1>3. Typed'
  <2>1. (node \in Nodes /\ reranking \in BOOLEAN /\ ocr \in OcrCases /\ query \in Queries)'
    BY DEF Ask, Nodes, IInv, Typed
  <2>2. (/\ lexical \in ResultLists /\ dense \in ResultLists
         /\ authorized \in BOOLEAN /\ sufficient \in BOOLEAN
         /\ evidence \in Seq(PassageType) /\ Len(evidence) <= MaxEvidence
         /\ retrieved \in 0..TopK)'
    BY <1>1, <1>2, NothingFound DEF Ask
  <2>3. (/\ candidates \in Seq(Propositions) /\ Len(candidates) <= MaxClaims
         /\ verdicts \in Seq(Verdicts \cup {"uncited"}) /\ claims \in Seq(ClaimType))'
    BY <1>1, <1>2 DEF Ask
  <2>4. (decision \in Decisions /\ confidence \in 0..(100 * Unit) /\ audited \in 0..1)'
    <3>1. decision' \in Decisions
      BY DEF Ask, Decisions
    <3>2. confidence' = 0 /\ audited' = 0
      BY DEF Ask
    <3> QED BY <1>2, <3>1, <3>2
  <2> QED BY <2>1, <2>2, <2>3, <2>4 DEF Typed
<1>4. Staged'
  BY DEF Ask, Staged, Searching, Nodes
<1>5. Judged'
  <2>1. (verdicts = <<>> /\ claims = <<>> /\ candidates \in Seq(Propositions) => Judged)'
    BY NothingJudged, PTL
  <2> QED BY <1>1, <2>1 DEF Ask
<1>6. Ruled' /\ Ended'
  BY DEF Ask, Ruled, Ended
<1> QED BY <1>3, <1>4, <1>5, <1>6 DEF IInv

\* The search adds nothing to judge until it is over.
LEMMA SearchStep ==
    IInv /\ (Authorize \/ SearchLexical \/ SearchDense \/ RerankMismatch) => IInv'
<1> SUFFICES ASSUME IInv, Authorize \/ SearchLexical \/ SearchDense \/ RerankMismatch
             PROVE  IInv'
  OBVIOUS
<1> USE DEF question, search, found, checked, decided, answer
<1>1. /\ node \in {"authorize", "lexical", "dense", "retrieve"}
      /\ node' \in {"lexical", "dense", "retrieve", "failed"}
      /\ authorized' \in BOOLEAN /\ (node # "authorize" => authorized' = authorized)
      /\ (node = "authorize" => authorized') /\ lexical' \in ResultLists /\ dense' \in ResultLists
      /\ UNCHANGED <<question, found, checked, decided, answer>>
  BY NothingFound DEF IInv, Typed, Authorize, SearchLexical, SearchDense, RerankMismatch
<1>2. Typed'
  BY <1>1 DEF IInv, Typed, Nodes
<1>3. Staged'
  BY <1>1 DEF IInv, Staged, Searching, Nodes
<1>4. Judged'
  BY <1>1, SameJudgement DEF IInv
<1>5. Ruled' /\ Ended'
  BY <1>1 DEF Ruled, Ended
<1> QED BY <1>2, <1>3, <1>4, <1>5 DEF IInv

\* What the retrieval keeps, typed and in order.
LEMMA KeptList ==
    ASSUME Typed, Retrieve
    PROVE  /\ evidence' \in Seq(PassageType) /\ Len(evidence') <= MaxEvidence
           /\ retrieved' \in 0..TopK
           /\ Respects(evidence', Leads)
           /\ sufficient' = (Len(evidence') >= MinEvidence)
           /\ node' = IF sufficient' THEN "generate" ELSE "abstain"
<1>0. PICK present \in SUBSET Chunks :
         \E ranked \in Rerankings(Hydrated(Fuse(lexical, dense, FusionLimit(reranking, TopK)),
                                           present)) :
            Keep(Truncated(ranked, TopK))
  BY DEF Retrieve
<1>1. PICK ranked \in Rerankings(Hydrated(Fuse(lexical, dense, FusionLimit(reranking, TopK)),
                                          present)) :
         Keep(Truncated(ranked, TopK))
  BY <1>0
<1>2. ranked \in Seq(PassageType) /\ Respects(ranked, Leads)
  BY RetrievedList DEF Typed
<1> DEFINE top == Truncated(ranked, TopK)
           strong == {i \in DOMAIN top : top[i].fused >= MinScore}
           kept == AtPlaces(top, strong)
<1>3. TopK \in Nat /\ MaxEvidence \in Nat
  BY PipelineAssumption
<1>4. top \in Seq(PassageType) /\ Len(top) <= TopK /\ Respects(top, Leads)
  BY <1>2, <1>3, TruncatedList, TruncatedRespects
<1>5. /\ evidence' = Truncated(kept, MaxEvidence) /\ retrieved' = Len(top)
      /\ sufficient' = (Len(evidence') >= MinEvidence)
      /\ node' = IF sufficient' THEN "generate" ELSE "abstain"
  BY <1>1 DEF Keep
<1> HIDE DEF top
<1>6. strong \in SUBSET DOMAIN top
  OBVIOUS
<1>7. kept \in Seq(PassageType) /\ Respects(kept, Leads)
  <2> HIDE DEF strong
  <2> QED BY <1>4, <1>6, ElementsAtPlaces, AtPlacesRespects
<1> HIDE DEF kept
<1>8. /\ evidence' \in Seq(PassageType) /\ Len(evidence') <= MaxEvidence
      /\ Respects(evidence', Leads)
  BY <1>3, <1>5, <1>7, TruncatedList, TruncatedRespects
<1>9. retrieved' \in 0..TopK
  BY <1>3, <1>4, <1>5
<1> QED BY <1>5, <1>8, <1>9

LEMMA RetrieveStep == IInv /\ Retrieve => IInv'
<1> SUFFICES ASSUME IInv, Retrieve PROVE IInv'
  OBVIOUS
<1> USE DEF question, search, found, checked, decided, answer
<1>1. /\ evidence' \in Seq(PassageType) /\ Len(evidence') <= MaxEvidence
      /\ retrieved' \in 0..TopK
      /\ sufficient' = (Len(evidence') >= MinEvidence)
      /\ node' = IF sufficient' THEN "generate" ELSE "abstain"
  BY KeptList DEF IInv
<1>2. /\ node = "retrieve" /\ lexical' = <<>> /\ dense' = <<>>
      /\ UNCHANGED <<question, authorized, checked, decided, answer>>
  BY DEF Retrieve
<1>3. sufficient' \in BOOLEAN /\ node' \in {"generate", "abstain"}
  BY <1>1
<1>4. Typed'
  BY <1>1, <1>2, <1>3, NothingFound DEF IInv, Typed, Nodes
<1>5. /\ candidates = <<>> /\ claims = <<>> /\ verdicts = <<>> /\ authorized /\ decision = "abstain"
      /\ audited = 0
  BY <1>2 DEF IInv, Staged, Searching, Nodes
<1>6. Staged'
  BY <1>1, <1>2, <1>3, <1>5 DEF Staged, Searching, Nodes
<1>7. Judged' /\ \A v : Count(v)' = 0
  <2>1. /\ (verdicts = <<>> /\ claims = <<>> /\ candidates \in Seq(Propositions) => Judged)'
        /\ (verdicts = <<>> => \A v : Count(v) = 0)'
    BY NothingJudged, NoVerdicts, PTL
  <2> QED BY <1>2, <1>4, <1>5, <2>1 DEF Typed
<1>8. Ruled' /\ Ended'
  <2>1. ~(Count("contradicted")' > 0)
    BY <1>7
  <2> QED BY <1>2, <1>3, <1>5, <2>1 DEF Ruled, Ended, Answering
<1> QED BY <1>4, <1>6, <1>7, <1>8 DEF IInv

LEMMA GenerateStep == IInv /\ Generate => IInv'
<1> SUFFICES ASSUME IInv, Generate PROVE IInv'
  OBVIOUS
<1> USE DEF question, search, found, checked, decided, answer
<1>1. /\ node = "generate" /\ node' = "verify"
      /\ UNCHANGED <<question, search, authorized, found, claims, verdicts, decided, answer>>
  BY DEF Generate
<1>2. candidates' \in Seq(Propositions) /\ Len(candidates') <= MaxClaims
  <2>1. CASE candidates' = Extracted
    BY <2>1, ExtractedList DEF IInv, Typed
  <2>2. CASE candidates' \in SeqOf(Proposals, MaxClaims)
    <3>1. MaxClaims \in Nat /\ Proposals \subseteq Propositions
      BY PipelineAssumption
    <3>2. PICK m \in 0..MaxClaims : candidates' \in [1..m -> Proposals]
      BY <2>2 DEF SeqOf
    <3>3. m \in Nat /\ m <= MaxClaims /\ candidates' \in [1..m -> Propositions]
      BY <3>1, <3>2
    <3> QED BY <3>3, FunctionIsSequence
  <2> QED BY <2>1, <2>2 DEF Generate
<1>3. Typed'
  BY <1>1, <1>2 DEF IInv, Typed, Nodes
<1>4. Staged'
  BY <1>1 DEF IInv, Staged, Searching, Nodes
<1>5. Judged'
  <2>1. (verdicts = <<>> /\ claims = <<>> /\ candidates \in Seq(Propositions) => Judged)'
    BY NothingJudged, PTL
  <2> QED BY <1>1, <1>2, <2>1 DEF IInv, Staged
<1>6. Ruled' /\ Ended'
  BY <1>1 DEF Ruled, Ended
<1> QED BY <1>3, <1>4, <1>5, <1>6 DEF IInv

\* The verifier's list of claims: the candidates it supports.
LEMMA VerifiedList ==
    ASSUME Typed, Verify
    PROVE  /\ verdicts' \in Seq(Verdicts \cup {"uncited"}) /\ DOMAIN verdicts' = DOMAIN candidates
           /\ claims' \in Seq(ClaimType) /\ Len(claims') <= Len(candidates)
           /\ \A i \in DOMAIN candidates :
                 verdicts'[i] = IF Cited(candidates[i]) THEN Assess(candidates[i]) ELSE "uncited"
           /\ \A n \in DOMAIN claims' : \E i \in DOMAIN candidates :
                 claims'[n].claim = candidates[i] /\ verdicts'[i] = "supported"
<1> DEFINE accepted == {i \in DOMAIN candidates : verdicts'[i] = "supported"}
           order == Ascending(accepted)
           N == Cardinality(accepted)
<1>1. DOMAIN candidates = 1..Len(candidates) /\ Len(candidates) \in Nat
  BY DEF Typed
<1>2. \A p : Assess(p) \in Verdicts
  BY DEF Assess, Analyze, Verdicts
<1>3. /\ DOMAIN verdicts' = DOMAIN candidates
      /\ \A i \in DOMAIN candidates :
            verdicts'[i] = IF Cited(candidates[i]) THEN Assess(candidates[i]) ELSE "uncited"
  BY DEF Verify
<1>4. verdicts' \in [1..Len(candidates) -> Verdicts \cup {"uncited"}]
  <2> SUFFICES ASSUME NEW i \in DOMAIN candidates
               PROVE  (IF Cited(candidates[i]) THEN Assess(candidates[i]) ELSE "uncited")
                          \in Verdicts \cup {"uncited"}
    BY <1>1 DEF Verify
  <2> QED BY <1>2
<1>5. verdicts' \in Seq(Verdicts \cup {"uncited"})
  BY <1>1, <1>4, FunctionIsSequence
<1>6. accepted \in SUBSET Int /\ IsFiniteSet(accepted) /\ N <= Len(candidates)
  <2>1. accepted \in SUBSET (1..Len(candidates))
    BY <1>1
  <2>2. IsFiniteSet(1..Len(candidates)) /\ Cardinality(1..Len(candidates)) = Len(candidates)
    BY <1>1, FirstPlaces
  <2>3. accepted \in SUBSET Int
    BY <1>1
  <2> HIDE DEF accepted
  <2>4. IsFiniteSet(accepted) /\ Cardinality(accepted) <= Len(candidates)
    BY <2>1, <2>2, FS_Subset
  <2> QED BY <2>3, <2>4
<1>7. N \in Nat /\ order \in [1..N -> accepted]
  <2> HIDE DEF accepted
  <2> QED BY <1>6, AscendingInOrder
<1>8. claims' = [n \in 1..N |-> [claim |-> candidates[order[n]],
                                 confidence |-> Blend(candidates[order[n]])]]
  <2>1. DOMAIN order = 1..N
    BY <1>7
  <2> QED BY <2>1 DEF Verify
<1>9. ASSUME NEW i \in accepted
      PROVE  [claim |-> candidates[i], confidence |-> Blend(candidates[i])] \in ClaimType
  <2>1. candidates[i] \in Propositions
    BY DEF Typed
  <2>2. Cited(candidates[i])
    BY <1>3
  <2>3. Blend(candidates[i]) \in 0..(100 * Unit)
    BY <2>1, <2>2, BlendBounded DEF Typed
  <2> QED BY <2>1, <2>3 DEF ClaimType
<1>10. \A n \in 1..N : order[n] \in accepted
  BY <1>7
<1> HIDE DEF order
<1>11. claims' \in [1..N -> ClaimType]
  BY <1>8, <1>9, <1>10
<1>12. claims' \in Seq(ClaimType) /\ Len(claims') = N /\ DOMAIN claims' = 1..N
  <2> HIDE DEF N
  <2> QED BY <1>7, <1>11, FunctionIsSequence
<1>13. \A n \in 1..N : claims'[n].claim = candidates[order[n]]
  BY <1>8
<1> QED BY <1>3, <1>5, <1>6, <1>10, <1>12, <1>13

LEMMA VerifyStep == IInv /\ Verify => IInv'
<1> SUFFICES ASSUME IInv, Verify PROVE IInv'
  OBVIOUS
<1> USE DEF question, search, found, checked, decided, answer
<1>1. /\ verdicts' \in Seq(Verdicts \cup {"uncited"}) /\ DOMAIN verdicts' = DOMAIN candidates
      /\ claims' \in Seq(ClaimType) /\ Len(claims') <= Len(candidates)
      /\ \A i \in DOMAIN candidates :
            verdicts'[i] = IF Cited(candidates[i]) THEN Assess(candidates[i]) ELSE "uncited"
      /\ \A n \in DOMAIN claims' : \E i \in DOMAIN candidates :
            claims'[n].claim = candidates[i] /\ verdicts'[i] = "supported"
  BY VerifiedList DEF IInv
<1>2. /\ node = "verify" /\ node' = "decide"
      /\ UNCHANGED <<question, search, authorized, found, candidates, decided, answer>>
  BY DEF Verify
<1>3. Typed'
  BY <1>1, <1>2 DEF IInv, Typed, Nodes
<1>4. Staged'
  BY <1>1, <1>2 DEF IInv, Staged, Searching, Nodes
<1>5. Judged'
  <2>1. \A p : Assess(p)' = Assess(p) /\ (Cited(p)' <=> Cited(p))
    BY <1>2 DEF Assess, Cited, Blend, PassageOf, Overlap
  <2>2. candidates' = candidates
    BY <1>2
  <2> QED BY <1>1, <2>1, <2>2 DEF Judged
<1>6. Ruled' /\ Ended'
  BY <1>2 DEF Ruled, Ended
<1> QED BY <1>3, <1>4, <1>5, <1>6 DEF IInv

\* How many verdicts there are of a kind.
LEMMA CountType ==
    Typed => \A v : Count(v) \in Nat /\ (Count(v) = 0 <=> \A i \in DOMAIN verdicts : verdicts[i] # v)
<1> SUFFICES ASSUME Typed, NEW v
             PROVE  Count(v) \in Nat /\ (Count(v) = 0 <=> \A i \in DOMAIN verdicts : verdicts[i] # v)
  OBVIOUS
<1> DEFINE S == {i \in DOMAIN verdicts : verdicts[i] = v}
<1>1. DOMAIN verdicts = 1..Len(verdicts) /\ Len(verdicts) \in Nat
  BY DEF Typed
<1>2. IsFiniteSet(1..Len(verdicts)) /\ S \in SUBSET (1..Len(verdicts))
  BY <1>1, FirstPlaces
<1>3. S = {} <=> \A i \in DOMAIN verdicts : verdicts[i] # v
  OBVIOUS
<1>4. Count(v) = Cardinality(S)
  BY DEF Count
<1> HIDE DEF S
<1>5. IsFiniteSet(S)
  BY <1>2, FS_Subset
<1> QED BY <1>3, <1>4, <1>5, FS_CardinalityType, FS_EmptySet

LEMMA DecideStep == IInv /\ Decide => IInv'
<1> SUFFICES ASSUME IInv, Decide PROVE IInv'
  OBVIOUS
<1> USE DEF question, search, found, checked, decided, answer
<1>1. /\ node = "decide" /\ node' = IF decision' \in Answering THEN "compose" ELSE "abstain"
      /\ decision' = Decision[1]
      /\ UNCHANGED <<question, search, authorized, found, checked, answer>>
  BY DEF Decide
<1> DEFINE con == Count("contradicted")
<1>2. con \in Nat
  BY CountType DEF IInv
<1>9. Decision = CASE con > 0 -> <<"escalate_for_review", "contradiction">>
                   [] con = 0 /\ claims = <<>> /\ evidence = <<>> ->
                         <<"abstain", "insufficient_evidence">>
                   [] con = 0 /\ claims = <<>> /\ evidence # <<>> ->
                         <<"ask_for_clarification", "nothing_verified">>
                   [] OTHER -> IF Warned THEN <<"answer_with_warning", "warnings">>
                                         ELSE <<"answer", "well_supported">>
  BY DEF Decision
<1> HIDE DEF con
<1>3. /\ Decision[1] \in Decisions
      /\ con > 0 => Decision[1] = "escalate_for_review"
      /\ Decision[1] \in Answering => con = 0 /\ claims # <<>>
      /\ Decision[1] = "answer" => ~Warned
  <2>1. CASE con > 0
    <3>1. Decision = <<"escalate_for_review", "contradiction">>
      BY <1>2, <1>9, <2>1
    <3> QED BY <2>1, <3>1 DEF Decisions, Answering
  <2>2. CASE con = 0 /\ claims = <<>> /\ evidence = <<>>
    <3>1. Decision = <<"abstain", "insufficient_evidence">>
      BY <1>2, <1>9, <2>2
    <3> QED BY <2>2, <3>1 DEF Decisions, Answering
  <2>3. CASE con = 0 /\ claims = <<>> /\ evidence # <<>>
    <3>1. Decision = <<"ask_for_clarification", "nothing_verified">>
      BY <1>2, <1>9, <2>3
    <3> QED BY <2>3, <3>1 DEF Decisions, Answering
  <2>4. CASE con = 0 /\ claims # <<>>
    <3>1. Decision = IF Warned THEN <<"answer_with_warning", "warnings">>
                               ELSE <<"answer", "well_supported">>
      BY <1>2, <1>9, <2>4
    <3> QED BY <2>4, <3>1 DEF Decisions, Answering
  <2> QED BY <1>2, <2>1, <2>2, <2>3, <2>4
<1>4. Judged' /\ Count("contradicted")' = Count("contradicted") /\ (Warned' <=> Warned)
  BY <1>1, SameJudgement DEF IInv
<1>5. Typed'
  BY <1>1, <1>3 DEF IInv, Typed, Nodes
<1>6. Staged'
  BY <1>1 DEF IInv, Staged, Searching, Nodes
<1>7. Ruled'
  BY <1>1, <1>3, <1>4 DEF Ruled, con
<1>8. Ended'
  BY <1>1 DEF Ended
<1> QED BY <1>4, <1>5, <1>6, <1>7, <1>8 DEF IInv

LEMMA ComposeStep == IInv /\ Compose => IInv'
<1> SUFFICES ASSUME IInv, Compose PROVE IInv'
  OBVIOUS
<1> USE DEF question, search, found, checked, decided
<1>1. /\ node = "compose" /\ node' = "end"
      /\ UNCHANGED <<question, search, authorized, found, checked, decided>>
      /\ outcome' = IF Dropped > 0 THEN "partial" ELSE "answered"
      /\ text' = [i \in DOMAIN claims |-> claims[i].claim.said]
      /\ confidence' = Total \div Len(claims)
      /\ audited' = audited + 1
  BY DEF Compose
<1>2. claims # <<>> /\ decision \in Answering /\ claims \in Seq(ClaimType)
  BY <1>1 DEF IInv, Ruled, Typed
<1>3. audited = 0
  BY <1>1 DEF IInv, Staged, Nodes
<1>4. /\ Judged' /\ \A v : Count(v)' = Count(v)
      /\ (Warned' <=> Warned) /\ Dropped' = Dropped /\ Total' = Total
  BY <1>1, SameJudgement DEF IInv
<1>5. confidence' \in 0..(100 * Unit)
  <2>1. Len(claims) \in Nat \ {0}
    BY <1>2, EmptySeq
  <2>2. Total \in Nat /\ Total <= 100 * Unit * Len(claims)
    BY <1>2, TotalBounded
  <2>3. 100 * Unit \in Int
    BY RankingAssumption
  <2>4. Total \div Len(claims) \in Nat /\ Total \div Len(claims) <= 100 * Unit
    BY <2>1, <2>2, <2>3, Quotient
  <2> QED BY <1>1, <2>3, <2>4
<1>6. Typed'
  BY <1>1, <1>3, <1>5 DEF IInv, Typed, Nodes
<1>7. Staged'
  BY <1>1 DEF IInv, Staged, Searching, Nodes
<1>8. Ruled'
  BY <1>1, <1>4 DEF IInv, Ruled
<1>9. Ended'
  BY <1>1, <1>2, <1>4 DEF Ended
<1> QED BY <1>4, <1>6, <1>7, <1>8, <1>9 DEF IInv

LEMMA AbstainStep == IInv /\ Abstain => IInv'
<1> SUFFICES ASSUME IInv, Abstain PROVE IInv'
  OBVIOUS
<1>1. /\ node = "abstain" /\ node' = "end"
      /\ UNCHANGED <<reranking, ocr, query, lexical, dense, authorized>>
      /\ UNCHANGED <<evidence, retrieved, sufficient, candidates, verdicts, decision>>
      /\ outcome' = "abstained" /\ text' = Refusal /\ confidence' = 0
      /\ reason' = AbstentionReason
      /\ claims' = <<>>
      /\ audited' = audited + 1
  BY DEF Abstain, question, search, found
<1>2. decisionReason' = IF decisionReason = "" THEN AbstentionReason ELSE decisionReason
  BY DEF Abstain
<1>3. audited = 0 /\ decision \notin Answering /\ decision \in Decisions
  BY <1>1 DEF IInv, Staged, Ruled, Typed, Nodes
<1>4. 0 \in 0..(100 * Unit) /\ <<>> \in Seq(ClaimType)
  BY RankingAssumption
<1>5. claims' = <<>>
  BY <1>1
<1>6. Typed'
  <2>1. confidence' = 0 /\ audited' = 1 /\ node' = "end"
    BY <1>1, <1>3
  <2>2. /\ UNCHANGED <<reranking, ocr, query, lexical, dense, authorized>>
        /\ UNCHANGED <<evidence, retrieved, sufficient, candidates, verdicts, decision>>
    BY <1>1
  <2> QED BY <2>1, <2>2, <1>4, <1>5 DEF IInv, Typed, Nodes
<1>7. Staged'
  BY <1>1 DEF IInv, Staged, Searching, Nodes
<1>8. Judged'
  <2>1. \A p : Assess(p)' = Assess(p) /\ (Cited(p)' <=> Cited(p))
    BY <1>1 DEF Assess, Cited, Blend, PassageOf, Overlap
  <2>5. claims' = <<>>
    BY <1>1
  <2>2. DOMAIN claims' = {} /\ Len(claims') = 0
    BY <2>5
  <2>4. Len(candidates) \in Nat
    BY DEF IInv, Typed
  <2>3. candidates' = candidates /\ verdicts' = verdicts
    BY <1>1
  <2> QED BY <2>1, <2>2, <2>3, <2>4 DEF IInv, Judged
<1>9. Ruled'
  <2>1. Count("contradicted")' = Count("contradicted")
    BY <1>1 DEF Count
  <2>2. decision' # "answer" /\ node' = "end" /\ decision' = decision
    BY <1>1, <1>3 DEF Answering
  <2> QED BY <1>1, <2>1, <2>2 DEF IInv, Ruled
<1>10. Ended'
  <2>1. AbstentionReason' = AbstentionReason /\ AbstentionReason # ""
    BY <1>1, <1>3 DEF AbstentionReason, Decisions, Answering
  <2>2. decisionReason' # ""
    BY <1>2, <2>1
  <2> QED BY <1>1, <1>3, <2>1, <2>2 DEF Ended
<1> QED BY <1>6, <1>7, <1>8, <1>9, <1>10 DEF IInv

\* The invariant holds in every reachable state.
THEOREM Invariant == Spec => []IInv
<1>1. IInv /\ [Next]_vars => IInv'
  <2> SUFFICES ASSUME IInv, [Next]_vars PROVE IInv'
    OBVIOUS
  <2>1. CASE UNCHANGED vars
    <3>1. UNCHANGED <<node, question, search, authorized, found, checked, decided, answer>>
      BY <2>1 DEF vars
    <3> USE <3>1 DEF question, search, found, checked, decided, answer
    <3>2. Typed' /\ Staged'
      BY DEF IInv, Typed, Staged
    <3>3. Judged' /\ Ruled'
      BY SameJudgement DEF IInv, Ruled
    <3>4. Ended'
      <4>1. Dropped' = Dropped /\ Total' = Total /\ AbstentionReason' = AbstentionReason
        BY SameJudgement DEF AbstentionReason
      <4> QED BY <4>1 DEF IInv, Ended
    <3> QED BY <3>2, <3>3, <3>4 DEF IInv
  <2> QED BY <2>1, AskStep, SearchStep, RetrieveStep, GenerateStep, VerifyStep, DecideStep,
             ComposeStep, AbstainStep DEF Next
<1> QED BY <1>1, Initially, PTL DEF Spec

-----------------------------------------------------------------------------
(* What follows for the answer. *)

\* Fields keep their types.
THEOREM TypeCorrect == Spec => []TypeOK
<1>1. IInv => TypeOK
  <2> SUFFICES ASSUME IInv PROVE TypeOK
    OBVIOUS
  <2>1. \A i \in DOMAIN evidence : evidence[i].chunk \in Chunks /\ evidence[i].fused \in 0..(2 * Unit)
    <3>1. \A i \in DOMAIN evidence : evidence[i] \in PassageType
      BY DEF IInv, Typed
    <3> QED BY <3>1 DEF PassageType
  <2>2. \A i \in DOMAIN verdicts : verdicts[i] \in Verdicts \cup {"uncited"}
    BY DEF IInv, Typed
  <2>3. node \in {"decide", "compose"} => DOMAIN verdicts = DOMAIN candidates
    BY DEF IInv, Staged, Searching
  <2> QED BY <2>1, <2>2, <2>3 DEF IInv, Typed, TypeOK, Nodes
<1> QED BY <1>1, Invariant, PTL

\* A claim accepted is about a passage at hand, quoted where it says, and backed.
LEMMA ClaimsAreBacked ==
    ASSUME IInv, NEW n \in DOMAIN claims
    PROVE  LET p == claims[n].claim IN
           /\ Cited(p) /\ p.exact
           /\ \E k \in DOMAIN Text[p.chunk] : Backs(Text[p.chunk][k], p.said)
<1> DEFINE p == claims[n].claim
<1>1. PICK i \in DOMAIN verdicts : p = candidates[i] /\ verdicts[i] = "supported"
  BY DEF IInv, Judged
<1>2. verdicts[i] = IF Cited(candidates[i]) THEN Assess(candidates[i]) ELSE "uncited"
  BY DEF IInv, Judged
<1>3. p \in Propositions
  <2>1. i \in DOMAIN candidates
    BY DEF IInv, Judged
  <2> QED BY <1>1, <2>1 DEF IInv, Typed
<1> HIDE DEF p
<1>4. Cited(p) /\ Assess(p) = "supported"
  BY <1>1, <1>2
<1>5. p.exact /\ Analyze(p.said, Text[p.chunk]) = "supported"
  BY <1>4 DEF Assess
<1>6. p.chunk \in Chunks
  <2>1. PICK j \in DOMAIN evidence : evidence[j].chunk = p.chunk
    BY <1>4 DEF Cited
  <2>2. evidence[j] \in PassageType
    BY DEF IInv, Typed
  <2> QED BY <2>1, <2>2 DEF PassageType
<1>7. p.said \in Sentences /\ Text[p.chunk] \in Seq(Sentences)
  BY <1>3, <1>6, PipelineAssumption DEF Propositions, Sentences
<1> QED BY <1>4, <1>5, <1>7, SupportedIsBacked DEF p

\* Whatever a generator proposes, an answer says only what one sentence of a passage that was
\* retrieved backs.
THEOREM AnswersBacked == Spec => []AnswersAreBacked
<1>1. IInv => AnswersAreBacked
  <2> SUFFICES ASSUME IInv, node = "end", outcome # "abstained"
               PROVE  /\ claims # <<>>
                      /\ text = [i \in DOMAIN claims |-> claims[i].claim.said]
                      /\ \A i \in DOMAIN claims : LET p == claims[i].claim IN
                           /\ \E j \in DOMAIN evidence : evidence[j].chunk = p.chunk
                           /\ p.exact
                           /\ \E k \in DOMAIN Text[p.chunk] : Backs(Text[p.chunk][k], p.said)
    BY DEF AnswersAreBacked
  <2>1. claims # <<>> /\ text = [i \in DOMAIN claims |-> claims[i].claim.said]
    BY DEF IInv, Ended
  <2> QED BY <2>1, ClaimsAreBacked DEF Cited
<1> QED BY <1>1, Invariant, PTL

\* A refusal carries nothing that was verified, and says which gate closed.
THEOREM RefusalsSilent == Spec => []RefusalsRevealNothing
<1>1. IInv => RefusalsRevealNothing
  <2> SUFFICES ASSUME IInv, node = "end", outcome = "abstained"
               PROVE  /\ claims = <<>> /\ text = Refusal /\ confidence = 0
                      /\ decision \notin Answering
                      /\ reason = IF Len(evidence) < MinEvidence THEN "insufficient_evidence"
                                                                 ELSE decision
                      /\ decisionReason # ""
    BY DEF RefusalsRevealNothing
  <2>1. /\ decision \notin Answering
        /\ claims = <<>> /\ text = Refusal /\ confidence = 0
        /\ reason = AbstentionReason
    BY DEF IInv, Ended
  <2>2. decisionReason # ""
    BY DEF IInv, Ended
  <2>3. authorized /\ (sufficient <=> Len(evidence) >= MinEvidence)
    BY DEF IInv, Staged, Nodes, Searching
  <2>4. Len(evidence) \in Nat /\ MinEvidence \in Nat
    BY PipelineAssumption DEF IInv, Typed
  <2>5. reason = IF Len(evidence) < MinEvidence THEN "insufficient_evidence" ELSE decision
    BY <2>1, <2>3, <2>4 DEF AbstentionReason
  <2> QED BY <2>1, <2>2, <2>5
<1> QED BY <1>1, Invariant, PTL

\* What its own passage contradicts is never answered, but goes to a human.
THEOREM ContradictionsWithheld == Spec => []ContradictionWithheld
<1>1. IInv => ContradictionWithheld
  <2> SUFFICES ASSUME IInv, node = "end", NEW i \in DOMAIN candidates,
                      \E j \in DOMAIN evidence : evidence[j].chunk = candidates[i].chunk,
                      candidates[i].exact, candidates[i].quote # <<>>,
                      Content(candidates[i].said) # {},
                      Contradicts(Signals(candidates[i].said),
                                  Signals(Aligned(Signals(candidates[i].said),
                                                  Text[candidates[i].chunk])))
               PROVE  outcome = "abstained" /\ reason = "escalate_for_review"
    BY DEF ContradictionWithheld
  <2>1. i \in DOMAIN verdicts
    BY DEF IInv, Staged, Searching
  <2>2. Analyze(candidates[i].said, Text[candidates[i].chunk]) = "contradicted"
    BY ContradictedIsSaid
  <2>3. Cited(candidates[i]) /\ Assess(candidates[i]) = "contradicted"
    BY <2>2 DEF Cited, Assess
  <2>4. verdicts[i] = "contradicted"
    BY <2>1, <2>3 DEF IInv, Judged
  <2>5. Count("contradicted") \in Nat /\ Count("contradicted") # 0
    BY <2>1, <2>4, CountType DEF IInv
  <2>6. Count("contradicted") > 0
    BY <2>5
  <2>7. decision = "escalate_for_review"
    BY <2>6 DEF IInv, Ruled
  <2>8. outcome = "abstained" /\ reason = AbstentionReason
    BY <2>7 DEF IInv, Ended, Answering
  <2>9. authorized /\ (sufficient \/ candidates = <<>>)
    BY DEF IInv, Staged, Nodes, Searching
  <2>10. candidates # <<>>
    OBVIOUS
  <2> QED BY <2>7, <2>8, <2>9, <2>10 DEF AbstentionReason
<1> QED BY <1>1, Invariant, PTL

\* An answer without a warning is complete, confident, and cites no doubtful scan.
THEOREM UnwarnedClean == Spec => []UnwarnedIsClean
<1>1. IInv => UnwarnedIsClean
  <2> SUFFICES ASSUME IInv, node = "end", decision = "answer"
               PROVE  /\ outcome = "answered"
                      /\ Len(claims) = Len(candidates)
                      /\ confidence >= AnswerPct * Unit
                      /\ \A i \in DOMAIN claims : LET o == ocr[claims[i].claim.chunk] IN
                           o.engine => o.conf # NoOcr /\ o.conf >= LowOcr
    BY DEF UnwarnedIsClean
  <2>1. ~Warned
    BY DEF IInv, Ruled
  <2>2. /\ outcome = IF Dropped > 0 THEN "partial" ELSE "answered"
        /\ claims # <<>> /\ confidence = Total \div Len(claims)
    BY DEF IInv, Ended, Answering
  <2>3. Len(claims) \in Nat \ {0} /\ Len(candidates) \in Nat /\ Len(claims) <= Len(candidates)
    BY <2>2, EmptySeq DEF IInv, Typed, Judged
  <2>4. ~(Dropped > 0)
    BY <2>1 DEF Warned
  <2>5. Len(claims) = Len(candidates)
    BY <2>3, <2>4 DEF Dropped
  <2>6. confidence >= AnswerPct * Unit
    <3>1. Total \in Nat
      BY TotalBounded DEF IInv, Typed
    <3>2. AnswerPct \in Int /\ AnswerPct * Unit \in Int
      BY PipelineAssumption, RankingAssumption
    <3>3. ~(Total < AnswerPct * Unit * Len(claims))
      BY <2>1 DEF Warned
    <3>4. Total >= AnswerPct * Unit * Len(claims)
      BY <2>3, <3>1, <3>2, <3>3
    <3> QED BY <2>2, <2>3, <3>1, <3>2, <3>4, Quotient
  <2>7. ASSUME NEW n \in DOMAIN claims, ocr[claims[n].claim.chunk].engine
        PROVE  ocr[claims[n].claim.chunk].conf # NoOcr /\ ocr[claims[n].claim.chunk].conf >= LowOcr
    <3> DEFINE p == claims[n].claim
               o == ocr[p.chunk]
    <3>1. o.conf # NoOcr /\ ~(o.conf < LowOcr)
      BY <2>1, <2>7 DEF Warned, LowReliability, UnknownReliability, OcrOf
    <3>2. Cited(p)
      BY ClaimsAreBacked
    <3> HIDE DEF p
    <3>3. p.chunk \in Chunks
      <4>1. PICK j \in DOMAIN evidence : evidence[j].chunk = p.chunk
        BY <3>2 DEF Cited
      <4>2. evidence[j] \in PassageType
        BY DEF IInv, Typed
      <4> QED BY <4>1, <4>2 DEF PassageType
    <3>4. ocr \in [Chunks -> Provenance]
      BY PipelineAssumption DEF IInv, Typed
    <3>5. o.conf \in Int /\ LowOcr \in Int
      BY <3>3, <3>4, PipelineAssumption DEF Provenance
    <3> HIDE DEF o
    <3>6. o.conf >= LowOcr
      BY <3>1, <3>5
    <3> QED BY <3>1, <3>6 DEF o, p
  <2> QED BY <2>2, <2>4, <2>5, <2>6, <2>7
<1> QED BY <1>1, Invariant, PTL

\* A sentence quoted as it stands is turned down only for being far from the question, or for
\* an earlier sentence that has all its words.
THEOREM VerbatimAccepted == Spec => []VerbatimUnlessEclipsed
<1>1. IInv => VerbatimUnlessEclipsed
  <2> SUFFICES ASSUME IInv, NEW i \in DOMAIN verdicts,
                      verdicts[i] \notin {"supported", "uncited"},
                      candidates[i].exact, Verbatim(candidates[i]),
                      Content(candidates[i].said) # {},
                      ~(verdicts[i] = "partial" /\ Blend(candidates[i]) < FloorPct * Unit)
               PROVE  \E k \in DOMAIN Text[candidates[i].chunk] : \E j \in 1..(k - 1) :
                         /\ candidates[i].said = Text[candidates[i].chunk][k]
                         /\ Content(candidates[i].said) \subseteq Words(Text[candidates[i].chunk][j])
    BY DEF VerbatimUnlessEclipsed
  <2> DEFINE p == candidates[i]
             passage == Text[p.chunk]
  <2>1. Cited(p) /\ verdicts[i] = Assess(p)
    BY DEF IInv, Judged
  <2>2. PICK k \in DOMAIN passage : p.said = passage[k] /\ p.quote = p.said
    BY DEF Verbatim
  <2>3. p.quote # <<>>
    <3> SUFFICES ASSUME p.said = <<>> PROVE FALSE
      BY <2>2
    <3>1. Content(<<>>) = {}
      BY NothingAsserted DEF Signals
    <3> QED BY <3>1
  <2>4. p.chunk \in Chunks
    <3> HIDE DEF p
    <3>1. PICK j \in DOMAIN evidence : evidence[j].chunk = p.chunk
      BY <2>1 DEF Cited
    <3>2. evidence[j] \in PassageType
      BY DEF IInv, Typed
    <3> QED BY <3>1, <3>2 DEF PassageType
  <2>5. passage \in Seq(Sentences)
    BY <2>4, PipelineAssumption DEF Sentences
  <2>6. Analyze(p.said, passage) # "supported"
    BY <2>1, <2>3 DEF Assess
  <2> HIDE DEF p, passage
  <2>7. Content(passage[k]) # {} /\ Analyze(passage[k], passage) # "supported"
    BY <2>2, <2>6 DEF p
  <2>8. \E j \in 1..(k - 1) : Content(passage[k]) \subseteq Words(passage[j])
    BY <2>5, <2>7, VerbatimIsSupported
  <2> QED BY <2>2, <2>8 DEF p, passage
<1> QED BY <1>1, Invariant, PTL

\* Evidence comes best first.
THEOREM BestFirst == Spec => BestEvidenceFirst
<1> DEFINE Best == node = "retrieve" =>
                     \A i, j \in DOMAIN evidence' :
                        \/ evidence'[i].raw > evidence'[j].raw
                        \/ ~reranking /\ Above(evidence'[i].chunk, evidence'[j].chunk)
                        => i < j
<1>1. IInv /\ [Next]_vars => [Best]_vars
  <2> SUFFICES ASSUME IInv, [Next]_vars, ~UNCHANGED vars, node = "retrieve",
                      NEW i \in DOMAIN evidence', NEW j \in DOMAIN evidence',
                      \/ evidence'[i].raw > evidence'[j].raw
                      \/ ~reranking /\ Above(evidence'[i].chunk, evidence'[j].chunk)
               PROVE  i < j
    OBVIOUS
  <2>1. Retrieve \/ RerankMismatch
    BY DEF Next, Ask, Authorize, SearchLexical, SearchDense, Generate, Verify, Decide, Compose,
           Abstain
  <2>2. CASE Retrieve
    <3>1. evidence' \in Seq(PassageType) /\ Respects(evidence', Leads)
      BY <2>2, KeptList DEF IInv
    <3>2. <<evidence'[i], evidence'[j]>> \in Leads
      <4>1. evidence'[i] \in PassageType /\ evidence'[j] \in PassageType
        BY <3>1
      <4> QED BY <4>1 DEF Leads
    <3> QED BY <3>1, <3>2 DEF Respects
  <2>3. CASE RerankMismatch
    <3>1. evidence' = <<>>
      BY <2>3 DEF RerankMismatch, found, IInv, Staged, Searching
    <3> QED BY <3>1
  <2> QED BY <2>1, <2>2, <2>3
<1> QED BY <1>1, Invariant, PTL DEF Spec, BestEvidenceFirst
=============================================================================
