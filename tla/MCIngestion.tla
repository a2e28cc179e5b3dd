----------------------------- MODULE MCIngestion -----------------------------
(* Ingestion for TLC.  Workers are interchangeable: the safety runs use the  *)
(* symmetry, the runs that check fairness do not.                            *)
EXTENDS Ingestion, TLC

\* Two jobs, one that every gate accepts and one that is quarantined.
MixedInit == Init /\ kind = <<"flagged", "malware">>

MixedFairSpec == MixedInit /\ [][Next]_vars /\ Fairness

\* Bound of run workers: the last worker joins only for a clean file, before any crash and
\* before a second delay.  So the run has all that two workers do, and the third one where an
\* overtaken worker could let in one too many.
LastJoinsEarly ==
    (\A w \in Workers : pc[w] # "idle") =>
        crashes = 0 /\ delays <= 1 /\ \A j \in Jobs : kind[j] = "clean"

WorkerSymmetry == Permutations(Workers)
=============================================================================
