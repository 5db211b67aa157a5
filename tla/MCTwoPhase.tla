----------------------------- MODULE MCTwoPhase -----------------------------
(* Model-checking instances of TwoPhase; the cfg files give the constants.   *)
EXTENDS TwoPhase, TLC

\* Calls and workers are interchangeable (safety runs only).
Symmetry == Permutations(Calls) \cup Permutations(Workers)
=============================================================================
