------------------------------ MODULE MCRunner ------------------------------
(***************************************************************************)
(* The instance of Runner that TLC explores in full.  A job that waits for *)
(* a wipe brings its server and its feed along, which multiply the states; *)
(* it is followed through one launch, with the log readable and no game    *)
(* running before.  The other job is followed through every launch, with   *)
(* every combination of the two; its server and its feed stand still:      *)
(* nothing of a job that does not wait looks at more than the queue.  Of a *)
(* job that has ended nobody reads the log, and nothing more is written.   *)
(***************************************************************************)
EXTENDS Runner

MCInit == RunnerInit /\ (waitForServerUp => audible /\ rust = "off")

MCNext ==
  /\ RunnerNext
  /\ state \in Ended => tail' = tail
  /\ IF waitForServerUp THEN attempt' <= 1 ELSE UNCHANGED world

MCSpec == MCInit /\ [][MCNext]_allVars /\ RunnerFairness
=============================================================================
