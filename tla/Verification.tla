---------------------------- MODULE Verification ----------------------------
(***************************************************************************)
(* What a text asserts and whether a passage entails it (app/verification),*)
(* and the coverage that the generator and the reranker measure.           *)
(*                                                                         *)
(* A text is a sequence of tokens, each a word that is or is not written   *)
(* with a capital.  Words are atoms; the constants are the lexicon that    *)
(* signals.py spells out.  An ISO date is one token, and it is neither a   *)
(* number nor content.  Passages are sequences of sentences.               *)
(***************************************************************************)
EXTENDS Integers, Sequences, FiniteSets, FiniteSetsExt, Order

CONSTANTS
    NumberValue,    \* number tokens (digits, number words), with their values
    UnitModifiers,  \* words between a number and its unit
    Stopwords,
    Negations,
    MonthOf,        \* month names, with their numbers
    YearOf,         \* tokens that begin with four digits, with that year
    IsoDates,       \* tokens of the form YYYY-MM-DD
    FeaturesOf      \* the word itself and its character trigrams, of every word

ASSUME VocabularyAssumption == \A w \in DOMAIN FeaturesOf : IsFiniteSet(FeaturesOf[w])

Tokens == [w : DOMAIN FeaturesOf, cap : BOOLEAN]
NoYear == 0

Words(text) == {text[i].w : i \in DOMAIN text}
IsNumber(w) == w \in DOMAIN NumberValue

-----------------------------------------------------------------------------
(* Signals. *)

\* The noun that the number at i modifies, of the three tokens after it;
\* none when another number or nothing else comes first.
UnitsOf(text, i) ==
    LET near   == (i + 1)..(IF Len(text) < i + 3 THEN Len(text) ELSE i + 3)
        skip   == {j \in near : text[j].w \in UnitModifiers \cup Stopwords
                                    /\ ~IsNumber(text[j].w)}
        first  == near \ skip
    IN IF first = {} THEN {}
       ELSE LET j == Minimum(first)
            IN IF IsNumber(text[j].w) THEN {} ELSE {text[j].w}

NumberPlaces(text) == {i \in DOMAIN text : IsNumber(text[i].w)}

UnitNumbers(text) ==
    UNION {{<<u, NumberValue[text[i].w]>> : u \in UnitsOf(text, i)} : i \in NumberPlaces(text)}

BareNumbers(text) ==
    {NumberValue[text[i].w] : i \in {j \in NumberPlaces(text) : UnitsOf(text, j) = {}}}

\* A month with the first year among the next two tokens.
MonthAt(text, i) ==
    LET years == {j \in {i + 1, i + 2} : j <= Len(text) /\ text[j].w \in DOMAIN YearOf}
    IN <<IF years = {} THEN NoYear ELSE YearOf[text[Minimum(years)].w], MonthOf[text[i].w]>>

Dates(text) ==
    (Words(text) \cap IsoDates)
    \cup {MonthAt(text, i) : i \in {j \in DOMAIN text : text[j].w \in DOMAIN MonthOf}}

Content(text) ==
    {w \in Words(text) : /\ w \notin Stopwords \cup Negations \cup IsoDates
                         /\ ~IsNumber(w)}

\* Capitalized words but the first; a number word is no name.
Names(text) ==
    {text[i].w : i \in {j \in DOMAIN text : /\ j > 1
                                           /\ text[j].cap
                                           /\ ~IsNumber(text[j].w)}}

Negated(text) == Words(text) \cap Negations # {}

\* extract_signals: the numbers are read with the ISO dates taken out.
Signals(text) ==
    LET undated == AtPlaces(text, {i \in DOMAIN text : text[i].w \notin IsoDates})
    IN [content |-> Content(text),
        units   |-> UnitNumbers(undated),
        bare    |-> BareNumbers(undated),
        dates   |-> Dates(text),
        negated |-> Negated(text),
        names   |-> Names(text)]

-----------------------------------------------------------------------------
(* Entailment. *)

Verdicts == {"supported", "partial", "contradicted", "unsupported"}

\* Fault: the first sentence, whatever the claim is.
AlignedFirst(claim, passage) == IF passage = <<>> THEN <<>> ELSE passage[1]

\* The first sentence that shares most content words with the claim.
Aligned(claim, passage) ==
    LET shared(i) == Cardinality(claim.content \cap Words(passage[i]))
        best      == {i \in DOMAIN passage : \A j \in DOMAIN passage : shared(j) <= shared(i)}
    IN IF passage = <<>> THEN <<>> ELSE passage[Minimum(best)]

\* At least num/den of the claim's content is in the sentence.
Covered(claim, aligned, num, den) ==
    den * Cardinality(claim.content \cap aligned.content) >= num * Cardinality(claim.content)

Supports(claim, aligned)   == Covered(claim, aligned, 9, 10)
PartlyCovers(claim, aligned) == Covered(claim, aligned, 1, 2)

Values(units, u) == {p[2] : p \in {q \in units : q[1] = u}}

NumbersConflict(claim, aligned) ==
    \E p \in claim.units :
        /\ Values(aligned.units, p[1]) # {}
        /\ Values(claim.units, p[1]) \cap Values(aligned.units, p[1]) = {}

DatesConflict(claim, aligned) ==
    /\ claim.dates # {}
    /\ aligned.dates # {}
    /\ claim.dates \cap aligned.dates = {}

Contradicts(claim, aligned) ==
    /\ PartlyCovers(claim, aligned)
    /\ \/ NumbersConflict(claim, aligned)
       \/ DatesConflict(claim, aligned)
       \/ Supports(claim, aligned) /\ claim.negated # aligned.negated

\* Fault: bare counts are not looked at.
UnitNumbersEntailed(claim, aligned) == claim.units \subseteq aligned.units

NumbersEntailed(claim, aligned) ==
    /\ claim.units \subseteq aligned.units
    /\ claim.bare \subseteq aligned.bare

Analyze(text, passage) ==
    LET claim   == Signals(text)
        aligned == Signals(Aligned(claim, passage))
    IN IF claim.content = {} /\ claim.units = {}
       THEN "unsupported"
       ELSE IF Contradicts(claim, aligned) THEN "contradicted"
       ELSE IF /\ Supports(claim, aligned)
               /\ NumbersEntailed(claim, aligned)
               /\ claim.dates \subseteq aligned.dates
               /\ claim.names \subseteq aligned.names
            THEN "supported"
       ELSE IF PartlyCovers(claim, aligned) THEN "partial"
       ELSE "unsupported"

-----------------------------------------------------------------------------
(* Features: how much of a query a text covers. *)

Features(text) == UNION {FeaturesOf[w] : w \in Words(text)}

Coverage(query, text) == Cardinality(Features(query) \cap Features(text))

\* The first sentence of a passage that covers most of the query.
BestSentence(query, passage) ==
    LET best == {i \in DOMAIN passage : \A j \in DOMAIN passage :
                    Coverage(query, passage[j]) <= Coverage(query, passage[i])}
    IN Minimum(best)
=============================================================================
