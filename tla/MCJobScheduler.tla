--------------------------- MODULE MCJobScheduler ---------------------------
(* Model-checking instances of JobScheduler; the cfg files give the constants. *)
EXTENDS JobScheduler, TLC

\* Jobs and workers are interchangeable (safety runs only).
JobSymmetry == Permutations(Jobs) \cup Permutations(JobWorkers)

\* Types, and the concurrency counter of every worker is exact: it counts the
\* executions that hold a slot, whatever is lost or crashes.
SlotsCounted == JobTypeOK /\ ActiveCounted
=============================================================================
