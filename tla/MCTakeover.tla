----------------------------- MODULE MCTakeover -----------------------------
(***************************************************************************)
(* The instance of RelayJobs in which two jobs of one PC meet: whatever    *)
(* brought them about, and a schedule that takes over from a running join  *)
(* first of all.  The player's own cancel is left to the instance with one *)
(* job.                                                                    *)
(***************************************************************************)
EXTENDS RelayJobs

MCNext == Next /\ asked' \cup finishing' = {}

MCSpec == Init /\ [][MCNext]_vars /\ Fairness /\ WF_vars(JobReports)
=============================================================================
