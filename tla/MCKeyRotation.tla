---------------------------- MODULE MCKeyRotation ----------------------------
(* Model-checking instances of KeyRotation; the cfg files give the constants. *)
EXTENDS KeyRotation, TLC

\* Validators, keys, ids and concurrent calls are interchangeable (safety only).
Symmetry == Permutations(Validators) \cup Permutations(PublicKeys)
              \cup Permutations(RotationIds) \cup Permutations(Initiators)
=============================================================================
