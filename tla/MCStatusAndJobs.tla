-------------------------- MODULE MCStatusAndJobs ---------------------------
(***************************************************************************)
(* Model-checking instance of the two-phase node status and of the job     *)
(* scheduler, safety.  They share no state, so each is explored with the   *)
(* other at rest: the state space is the sum of theirs.                    *)
(***************************************************************************)
EXTENDS MCTwoPhase, MCJobScheduler

VARIABLE focus   \* the component that moves

StatusAndJobsInit == focus \in {"status", "jobs"} /\ Init /\ JobInit

StatusAndJobsNext ==
  /\ UNCHANGED focus
  /\ \/ focus = "status" /\ Next /\ UNCHANGED jobVars
     \/ focus = "jobs" /\ JobNext /\ UNCHANGED vars

StatusAndJobsSpec ==
  StatusAndJobsInit /\ [][StatusAndJobsNext]_<<vars, jobVars, focus>>

Interchangeable == Symmetry \cup JobSymmetry
=============================================================================
