---------------------------- MODULE JobLifecycle ----------------------------
(***************************************************************************)
(* What the ingestion pipeline promises about an uploaded document, as the *)
(* status API and retrieval see it: it waits, is worked on at most         *)
(* MaxStarts times, and ends READY, QUARANTINED or FAILED for good; it is  *)
(* served only when READY, always from the same chunk rows, and only a     *)
(* file that every gate accepts gets there.  No queue, worker, crash or    *)
(* transaction appears here; Ingestion shows how those implement it.       *)
(***************************************************************************)
EXTENDS Naturals

CONSTANTS Jobs, MaxStarts

VARIABLES
    acceptable, \* the jobs whose file every gate lets through; never changes
    phase,      \* what the status API reports of the job
    starts,     \* how often work on it has begun
    serving     \* the chunk rows retrieval reads for it, 0 for none

jobLifecycleVars == <<acceptable, phase, starts, serving>>

Outcomes == {"ready", "quarantined", "failed"}
Phases == {"absent", "waiting", "working"} \cup Outcomes

Init ==
    /\ acceptable \in SUBSET Jobs
    /\ phase = [j \in Jobs |-> "absent"]
    /\ starts = [j \in Jobs |-> 0]
    /\ serving = [j \in Jobs |-> 0]

Submit(j) ==
    /\ phase[j] = "absent"
    /\ phase' = [phase EXCEPT ![j] = "waiting"]
    /\ UNCHANGED <<acceptable, starts, serving>>

Start(j) ==
    /\ phase[j] = "waiting"
    /\ starts[j] < MaxStarts
    /\ phase' = [phase EXCEPT ![j] = "working"]
    /\ starts' = [starts EXCEPT ![j] = @ + 1]
    /\ UNCHANGED <<acceptable, serving>>

\* Work is abandoned, by a failure that will be retried or a lost worker; one
\* recovery may find several abandoned jobs.
GiveBack ==
    /\ \E S \in SUBSET {j \in Jobs : phase[j] = "working"} :
         /\ \A j \in S : starts[j] < MaxStarts
         /\ phase' = [j \in Jobs |-> IF j \in S THEN "waiting" ELSE phase[j]]
    /\ UNCHANGED <<acceptable, starts, serving>>

Conclude(j) ==
    /\ phase[j] = "working"
    /\ \E o \in Outcomes :
         /\ o = "ready" => j \in acceptable
         /\ o = "quarantined" => j \notin acceptable
         /\ phase' = [phase EXCEPT ![j] = o]
         /\ IF o = "ready"
            THEN \E rows \in {1, 2} : serving' = [serving EXCEPT ![j] = rows]
            ELSE UNCHANGED serving
    /\ UNCHANGED <<acceptable, starts>>

\* Work on j itself comes to an end.
EndWork(j) == (GiveBack \/ Conclude(j)) /\ phase'[j] # phase[j]

Next == GiveBack \/ \E j \in Jobs : Submit(j) \/ Start(j) \/ Conclude(j)

Spec == Init /\ [][Next]_jobLifecycleVars

\* What can go on does.
GoesOn ==
    \A j \in Jobs : /\ WF_jobLifecycleVars(Start(j))
                    /\ WF_jobLifecycleVars(EndWork(j))
=============================================================================
