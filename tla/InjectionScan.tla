--------------------------- MODULE InjectionScan ---------------------------
(***************************************************************************)
(* Scanning the chunks of a document for instructions hidden in it, and    *)
(* the decision to quarantine it (app/safety/detector.py, scanner.py,      *)
(* types.py).  Of a text the model keeps which rules match in which view   *)
(* of it; the patterns, the decoding and the excerpts are left out, and so *)
(* are the categories.  Scores are in millionths, exact for the three      *)
(* signals or fewer that a text has here.                                  *)
(***************************************************************************)
EXTENDS Integers, Sequences, FiniteSets

CONSTANTS
    FlagScore, QuarantineScore,     \* of InjectionPolicyConfig, in millionths
    QuarantineOnHigh,               \* quarantine_on_high_severity
    Passages,       \* what chunks may hold (see PassageType)
    Seams,          \* what the joined ends of two chunks may hold: sets of passages
    MaxChunks       \* bound: chunks of a document

Whole == 1000000

HighRules == {"ignore_previous", "instructions_ignore", "tamil_ignore_previous",
    "indirect_read_override", "system_prompt_reveal", "tamil_system_prompt_reveal",
    "exfiltrate_secrets", "role_impersonation", "you_are_now", "override_safety"}
MediumRules == {"system_prompt_mention", "new_instructions", "do_not_follow",
    "pretend_bypass", "indirect_trigger", "tool_use_request"}
Rules == HighRules \cup MediumRules

\* The rules that match in the text itself, in its folded view if that differs, in its
\* view without letter spacing if that differs, and the structural marks it has.
PassageType == [plain : SUBSET Rules, folded : SUBSET Rules, despaced : SUBSET Rules,
                invisible : BOOLEAN, spacing : BOOLEAN, base64 : BOOLEAN, hex : BOOLEAN]

ASSUME InjectionAssumption ==
    /\ FlagScore \in Nat /\ QuarantineScore \in Nat
    /\ 0 < FlagScore /\ FlagScore <= QuarantineScore /\ QuarantineScore <= Whole
    /\ QuarantineOnHigh \in BOOLEAN
    /\ Passages \subseteq PassageType
    /\ \A seam \in Seams : seam \subseteq PassageType /\ Cardinality(seam) <= 2

VARIABLES
    passages,   \* the chunks scanned
    seams,      \* the ends joined: with a space, and without if both are alphanumeric
    decision, quarantinedCount, flaggedCount    \* of the report

scan == <<passages, seams, decision, quarantinedCount, flaggedCount>>

ScanInit ==
    /\ passages = <<>> /\ seams = <<>>
    /\ decision = "allow" /\ quarantinedCount = 0 /\ flaggedCount = 0

-----------------------------------------------------------------------------
(* The detector. *)

\* Signals of one text, duplicates dropped: the rule as it is named, its place (a match
\* without letter spacing is placed at the start) and its severity.
Signals(p) ==
    LET severity(r) == IF r \in HighRules THEN "high" ELSE "medium" IN
    { <<r, "plain", severity(r)>> : r \in p.plain }
    \cup { <<r, "obfuscated", severity(r)>> : r \in p.folded }
    \cup { <<r, "despaced", severity(r)>> : r \in p.despaced }
    \cup (IF p.invisible THEN {<<"invisible_characters", "mark", "medium">>} ELSE {})
    \cup (IF p.spacing THEN {<<"letter_spacing", "mark", "medium">>} ELSE {})
    \cup (IF p.base64 THEN {<<"base64_instruction", "mark", "high">>} ELSE {})
    \cup (IF p.hex THEN {<<"hex_instruction", "mark", "high">>} ELSE {})

\* In thousandths.
HighWeight == 900
MediumWeight == 500

High(signals) == {s \in signals : s[3] = "high"}

\* Fault: the signals come in another order.
WeightsUnsorted(signals) ==
    [i \in 1..Cardinality(signals) |->
        IF i <= Cardinality(signals \ High(signals)) THEN MediumWeight ELSE HighWeight]

\* Strongest first.
Weights(signals) ==
    [i \in 1..Cardinality(signals) |->
        IF i <= Cardinality(High(signals)) THEN HighWeight ELSE MediumWeight]

\* _combine: what is left of the doubt after one more signal.
Doubt(left, weight) == (left * (1000 - weight)) \div 1000

\* The doubt after each of the signals; the first counts in full, the others by half.
Doubts(weights) ==
    LET left[n \in 0..Len(weights)] ==
            IF n = 0 THEN Whole
            ELSE Doubt(left[n - 1], IF n = 1 THEN weights[n] ELSE weights[n] \div 2)
    IN  left

\* _aggregate
Score(signals) == Whole - Doubts(Weights(signals))[Cardinality(signals)]

\* InjectionPolicyConfig.decide
PolicyDecision(signals) ==
    IF \/ QuarantineOnHigh /\ High(signals) # {}
       \/ Score(signals) >= QuarantineScore
    THEN "quarantine"
    ELSE IF Score(signals) >= FlagScore THEN "flag" ELSE "allow"

Verdict(p) == PolicyDecision(Signals(p))

-----------------------------------------------------------------------------
(* The scanner. *)

\* Fault: the last verdict counts.
RecordLastVerdict(verdict) ==
    /\ decision' = verdict
    /\ quarantinedCount' = quarantinedCount + (IF verdict = "quarantine" THEN 1 ELSE 0)
    /\ flaggedCount' = flaggedCount + (IF verdict = "flag" THEN 1 ELSE 0)

\* record
RecordVerdict(verdict) ==
    /\ decision' = IF verdict = "quarantine" \/ decision = "allow" THEN verdict ELSE decision
    /\ quarantinedCount' = quarantinedCount + (IF verdict = "quarantine" THEN 1 ELSE 0)
    /\ flaggedCount' = flaggedCount + (IF verdict = "flag" THEN 1 ELSE 0)

ScanChunk(p) ==
    /\ seams = <<>> /\ Len(passages) < MaxChunks
    /\ passages' = Append(passages, p)
    /\ RecordVerdict(Verdict(p))
    /\ UNCHANGED seams

\* The ends of the next two chunks, unless one of the two is quarantined; of the views
\* the one that scores highest counts, which is the gravest as long as quarantine_score
\* is at most the weight of a high rule.
ScanSeam(seam) ==
    LET left == Len(seams) + 1 IN
    /\ left < Len(passages)
    /\ seams' = Append(seams, seam)
    /\ IF \/ Verdict(passages[left]) = "quarantine"
          \/ Verdict(passages[left + 1]) = "quarantine"
          \/ seam = {}
       THEN UNCHANGED <<decision, quarantinedCount, flaggedCount>>
       ELSE \E view \in seam :
              /\ \A other \in seam : Score(Signals(other)) <= Score(Signals(view))
              /\ RecordVerdict(Verdict(view))
    /\ UNCHANGED passages

ScanNext ==
    \/ \E p \in Passages : ScanChunk(p)
    \/ \E seam \in Seams : ScanSeam(seam)

ScanSpec == ScanInit /\ [][ScanNext]_scan

-----------------------------------------------------------------------------
(* Properties. *)

ScanTypeOK ==
    /\ passages \in Seq(Passages) /\ seams \in Seq(Seams)
    /\ decision \in {"allow", "flag", "quarantine"}
    /\ quarantinedCount \in Nat /\ flaggedCount \in Nat

ScannedAll == passages # <<>> /\ Len(seams) = Len(passages) - 1

AllVerdicts == {Verdict(passages[i]) : i \in DOMAIN passages}
             \cup UNION {{Verdict(v) : v \in seams[i]} : i \in DOMAIN seams}

\* A document is quarantined exactly if one of its chunks or one view of two joined ends
\* would be on its own, whatever is scanned after it, whichever view is picked and whichever
\* seams are passed over; else it is flagged if one of them is (scanner.py, "a single hidden
\* instruction anywhere in a file is enough").
ReportIsWorst ==
    ScannedAll =>
        decision = IF "quarantine" \in AllVerdicts THEN "quarantine"
                   ELSE IF "flag" \in AllVerdicts THEN "flag" ELSE "allow"

\* More signals never make a text look safer: what some of its signals score, all of them
\* do (InjectionPolicyConfig, an attack "is never diluted below the threshold by surrounding
\* benign text").
NeverDiluted ==
    \A i \in DOMAIN passages : \A some \in SUBSET Signals(passages[i]) :
        Score(some) <= Score(Signals(passages[i]))
=============================================================================
