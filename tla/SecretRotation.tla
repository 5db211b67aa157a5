--------------------------- MODULE SecretRotation ---------------------------
(***************************************************************************)
(* SecretRotationService of src/security/secret_rotation.ts for one        *)
(* secret: calls of rotate(), and of promote() and rollback() by an        *)
(* operator, over a store that holds its descriptor and its versions.      *)
(* Each call reads the descriptor once and writes whole records; nothing   *)
(* keeps two calls apart.                                                  *)
(*                                                                         *)
(* The candidate of a call is named after the call.  Steps end at awaits   *)
(* of the store, the generator and the hooks, each of which may reject.    *)
(***************************************************************************)
EXTENDS Naturals, FiniteSets

CONSTANTS
  Rotations,     \* calls of rotate()
  ManualCalls,   \* calls of promote() or rollback() by an operator
  initialVersion

ASSUME RotationsAssumption ==
  /\ initialVersion \notin Rotations /\ IsFiniteSet(Rotations)
  /\ Rotations \cap ManualCalls = {}

SecretCalls == Rotations \cup ManualCalls
SecretVersions == Rotations \cup {initialVersion}

VARIABLES
  secret,           \* the stored descriptor
  label,            \* labels.state of each stored version; none: not stored
  rotation,         \* each call: its copy of the descriptor, the version a rollback
                    \* restores, the version promote() activates
  activeCanaries,   \* the metric
  mixed,            \* history: two calls were under way at once
  stranded          \* history: a rollback or a manual call rejected half-way

secretVars == <<secret, label, rotation, activeCanaries, mixed, stranded>>

Descriptor ==
  [current : SecretVersions, phase : {"idle", "preparing", "canary", "complete", "rolled_back"}]

Live == {"preparing", "generate", "candidate", "validate", "canary", "apply",
         "promote", "retire", "activate", "switch", "rollback", "relabel", "restore"}

SecretTypeOK ==
  /\ secret \in Descriptor
  /\ label \in [SecretVersions -> {"none", "candidate", "current", "previous"}]
  /\ rotation \in [SecretCalls ->
       [pc : {"idle", "complete", "rolled_back", "threw"} \cup Live,
        copy : Descriptor, old : SecretVersions, new : SecretVersions]]
  /\ activeCanaries \in 0..Cardinality(Rotations)
  /\ mixed \in BOOLEAN /\ stranded \in BOOLEAN

\* registerSecret().
SecretInit ==
  /\ secret = [current |-> initialVersion, phase |-> "idle"]
  /\ label = [v \in SecretVersions |-> IF v = initialVersion THEN "current" ELSE "none"]
  /\ rotation = [c \in SecretCalls |->
                   [pc |-> "idle", copy |-> secret, old |-> secret.current,
                    new |-> IF c \in Rotations THEN c ELSE secret.current]]
  /\ activeCanaries = 0
  /\ mixed = FALSE /\ stranded = FALSE

-----------------------------------------------------------------------------
RotationAt(r, pc) == rotation[r].pc = pc
RotationGoto(r, pc) == rotation' = [rotation EXCEPT ![r].pc = pc]
putVersion(v, state) == label' = [label EXCEPT ![v] = state]
Decremented == IF activeCanaries > 0 THEN activeCanaries - 1 ELSE 0

Begin(c, call) ==
  /\ RotationAt(c, "idle")
  /\ rotation' = [rotation EXCEPT ![c] = call]
  /\ mixed' = (mixed \/ \E d \in SecretCalls : rotation[d].pc \in Live)
  /\ UNCHANGED <<secret, label, activeCanaries, stranded>>

\* rotate(): reads the descriptor and the current version.
rotate(r) ==
  Begin(r, [pc |-> "preparing", copy |-> secret, old |-> secret.current, new |-> r])

\* An operator calls promote() or rollback() with a version that is stored.
Stored == {v \in SecretVersions : label[v] # "none"}

manualPromote(c) ==
  \E v \in Stored :
    Begin(c, [pc |-> "promote", copy |-> secret, old |-> secret.current, new |-> v])

manualRollback(c) ==
  \E v \in Stored :
    Begin(c, [pc |-> "rollback", copy |-> secret, old |-> v, new |-> v])

\* updatePhase() writes the descriptor as the call read it, the version included.
updatePhase(r) ==
  /\ rotation[r].pc \in {"preparing", "canary"}
  /\ secret' = [rotation[r].copy EXCEPT !.phase = rotation[r].pc]
  /\ RotationGoto(r, IF RotationAt(r, "preparing") THEN "generate" ELSE "apply")
  /\ activeCanaries' = activeCanaries + (IF RotationAt(r, "canary") THEN 1 ELSE 0)
  /\ UNCHANGED <<label, mixed, stranded>>

\* The generator, the validate and the apply hook return.
HookReturns(r) ==
  /\ \/ RotationAt(r, "generate") /\ RotationGoto(r, "candidate")
     \/ RotationAt(r, "validate") /\ RotationGoto(r, "canary")
     \/ RotationAt(r, "apply") /\ RotationGoto(r, "promote")
  /\ UNCHANGED <<secret, label, activeCanaries, mixed, stranded>>

putCandidate(r) ==
  /\ RotationAt(r, "candidate")
  /\ putVersion(r, "candidate")
  /\ RotationGoto(r, "validate")
  /\ UNCHANGED <<secret, activeCanaries, mixed, stranded>>

\* promote() reads the descriptor, retires the version it finds current, activates
\* the given one, and switches the descriptor.
promote(r) ==
  \/ /\ RotationAt(r, "promote")
     /\ rotation' = [rotation EXCEPT ![r].pc = "retire", ![r].copy = secret]
     /\ UNCHANGED <<secret, label, activeCanaries, mixed, stranded>>
  \/ /\ RotationAt(r, "retire")
     /\ putVersion(rotation[r].copy.current, "previous")
     /\ RotationGoto(r, "activate")
     /\ UNCHANGED <<secret, activeCanaries, mixed, stranded>>
  \/ /\ RotationAt(r, "activate")
     /\ putVersion(rotation[r].new, "current")
     /\ RotationGoto(r, "switch")
     /\ UNCHANGED <<secret, activeCanaries, mixed, stranded>>
  \/ /\ RotationAt(r, "switch")
     /\ secret' = [current |-> rotation[r].new, phase |-> "complete"]
     /\ activeCanaries' = Decremented
     /\ RotationGoto(r, "complete")
     /\ UNCHANGED <<label, mixed, stranded>>

\* Anything in the try block of rotate() rejects: the write has not been made.
RotationFails(r) ==
  /\ r \in Rotations /\ rotation[r].pc \in Live \ {"rollback", "relabel", "restore"}
  /\ RotationGoto(r, "rollback")
  /\ UNCHANGED <<secret, label, activeCanaries, mixed, stranded>>

\* Fault: the rollback leaves the label of the version it restores.
rollbackSecret_KeepsLabel(r) ==
  \/ /\ RotationAt(r, "rollback")
     /\ RotationGoto(r, "restore")
     /\ UNCHANGED <<secret, label, activeCanaries, mixed, stranded>>
  \/ /\ RotationAt(r, "restore")
     /\ secret' = [current |-> rotation[r].old, phase |-> "rolled_back"]
     /\ activeCanaries' = Decremented
     /\ RotationGoto(r, "rolled_back")
     /\ UNCHANGED <<label, mixed, stranded>>

\* rollback() to the version that was current when rotate() began, or the operator's:
\* the hook, the label, the descriptor.  The version it replaces keeps its label.
rollbackSecret(r) ==
  \/ /\ RotationAt(r, "rollback")
     /\ RotationGoto(r, "relabel")
     /\ UNCHANGED <<secret, label, activeCanaries, mixed, stranded>>
  \/ /\ RotationAt(r, "relabel")
     /\ putVersion(rotation[r].old, "current")
     /\ RotationGoto(r, "restore")
     /\ UNCHANGED <<secret, activeCanaries, mixed, stranded>>
  \/ /\ RotationAt(r, "restore")
     /\ secret' = [current |-> rotation[r].old, phase |-> "rolled_back"]
     /\ activeCanaries' = Decremented
     /\ RotationGoto(r, "rolled_back")
     /\ UNCHANGED <<label, mixed, stranded>>

\* A rollback, or a promote() that nothing rolls back, rejects: the call throws.
CallThrows(r) ==
  /\ \/ rotation[r].pc \in {"rollback", "relabel", "restore"}
     \/ r \in ManualCalls /\ rotation[r].pc \in {"promote", "retire", "activate", "switch"}
  /\ RotationGoto(r, "threw")
  /\ stranded' = TRUE
  /\ UNCHANGED <<secret, label, activeCanaries, mixed>>

-----------------------------------------------------------------------------
RotationStep(r) ==
  \/ updatePhase(r) \/ HookReturns(r) \/ putCandidate(r) \/ promote(r)
  \/ RotationFails(r) \/ rollbackSecret(r) \/ CallThrows(r)

SecretNext ==
  \/ \E r \in Rotations : rotate(r)
  \/ \E c \in ManualCalls : manualPromote(c) \/ manualRollback(c)
  \/ \E c \in SecretCalls : RotationStep(c)

-----------------------------------------------------------------------------
SecretAtRest == \A c \in SecretCalls : rotation[c].pc \notin Live

\* The descriptor names a version that is stored, at every moment and however calls
\* overlap and fail.  When none is under way that version is labelled current and no
\* canary is counted, after any sequence of rotations that succeeded, failed at any
\* step and were rolled back, and of promotions and rollbacks by hand; but not once
\* two calls were under way together, or a call threw half-way.  (Other versions may
\* be labelled current as well: rollback() relabels only the one it restores.)
SecretCoherent ==
  /\ label[secret.current] # "none"
  /\ SecretAtRest /\ ~mixed /\ ~stranded =>
       label[secret.current] = "current" /\ activeCanaries = 0
=============================================================================
