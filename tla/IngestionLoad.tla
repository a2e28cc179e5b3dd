---------------------------- MODULE IngestionLoad ----------------------------
(***************************************************************************)
(* Ingestion under a load that does not end.  Module Ingestion has as many *)
(* uploads as jobs, so its queue runs dry in the end and run_forever comes *)
(* to look for stale jobs; here documents keep coming.                     *)
(***************************************************************************)
EXTENDS Ingestion

\* Another document is uploaded.  It goes by the name of a job that is over and
\* that nothing holds or points to any more.
AnotherUpload(j) ==
    /\ Settled(j)
    /\ ~InFlight(j)
    /\ upload' = [upload EXCEPT ![j] = "open"]
    /\ \E k \in Kinds : kind' = [kind EXCEPT ![j] = k]
    /\ queue' = Append(queue, j)
    /\ status' = [status EXCEPT ![j] = "queued"]
    /\ stage' = [stage EXCEPT ![j] = "uploaded"]
    /\ attempts' = [attempts EXCEPT ![j] = 0]
    /\ aged' = aged \ {j}
    /\ doc' = [doc EXCEPT ![j] = "pending"]
    /\ paged' = [paged EXCEPT ![j] = FALSE]
    /\ chunks' = [chunks EXCEPT ![j] = 0]
    /\ audit' = [audit EXCEPT ![j] = {}]
    /\ dead' = dead \ {j}
    /\ recoveries' = [recoveries EXCEPT ![j] = 0]
    /\ UNCHANGED <<workerVars, crashes, delays>>

LoadNext == Next \/ \E j \in Jobs : AnotherUpload(j)

LoadSpec == Init /\ [][LoadNext]_vars /\ Fairness

\* "Consume jobs until cancelled, periodically recovering stale ones" (run_forever): a
\* job that has grown stale is found, taken up again or finished.
StaleJobsRecovered == \A j \in Jobs : j \in aged ~> j \notin aged
=============================================================================
