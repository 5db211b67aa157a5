----------------------------- MODULE MCProgress -----------------------------
(***************************************************************************)
(* Model-checking instance of what the job scheduler, the key-rotation     *)
(* ceremony and the sweep of the tentative rows owe their callers.  They   *)
(* share no state, so each is explored with the others at rest: the state  *)
(* space is the sum of theirs.                                             *)
(***************************************************************************)
EXTENDS MCJobScheduler

CONSTANTS
  Validators, PublicKeys, NoKey, NoOne, RotationIds, NoRotation, Initiators,
  OLD_KEY_RETIREMENT_SLOTS, ROTATION_GRACE_EPOCHS, SlotsPerEpoch,
  maxCompletedCommitments, MaxSlot,
  Nodes, Calls, Workers, Admins, NoCall, Kinds, InitialStatuses, BatchSize, Poison,
  TimelyCalls

VARIABLES
  keys, signing, pendingKey, slot, rotations, active, call, commit, completed,
  status, row, pc, node, target, attempt, chain, logged, claims, cascade, begun,
  claimed, apc, aread,
  focus   \* the component that moves

Ceremony == INSTANCE KeyRotation
TwoPhase == INSTANCE TwoPhase

keyVars == <<keys, signing, pendingKey, slot, rotations, active, call, commit, completed>>
rowVars == <<status, row, pc, node, target, attempt, chain, logged, claims, cascade,
             begun, claimed, apc, aread>>

ProgressInit ==
  focus \in {"jobs", "keys", "rows"} /\ JobInit /\ Ceremony!Init /\ TwoPhase!Init

ProgressNext ==
  /\ UNCHANGED focus
  /\ \/ focus = "jobs" /\ JobNext /\ UNCHANGED <<keyVars, rowVars>>
     \/ focus = "keys" /\ Ceremony!Next /\ UNCHANGED <<jobVars, rowVars>>
     \/ focus = "rows" /\ TwoPhase!Next /\ UNCHANGED <<jobVars, keyVars>>

\* No fair action of a ceremony or of the two-phase protocol at rest is enabled.
ProgressSpec ==
  /\ ProgressInit /\ [][ProgressNext]_<<jobVars, keyVars, rowVars, focus>>
  /\ focus = "jobs" => JobFairness
  /\ Ceremony!Fairness
  /\ TwoPhase!Fairness

-----------------------------------------------------------------------------
\* What is owed comes: every scheduled job is completed or failed at last, whoever
\* crashes, and every approval attempt of a rotation settles.
WorkSettles == JobSettles /\ Ceremony!AttemptSettles

\* No tentative row stays PENDING for ever, whatever crashes, unless the rollback of
\* an older one fails every time.
PendingIsResolved == TwoPhase!PendingIsResolved
=============================================================================
