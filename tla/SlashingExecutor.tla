-------------------------- MODULE SlashingExecutor --------------------------
(***************************************************************************)
(* SlashingExecutor.execute() of src/slashing/executor.ts and calculate-   *)
(* Penalty(), with the ValidatorRegistry of src/staking that changes the   *)
(* active set meanwhile, over the tables of migration 012.                 *)
(*                                                                         *)
(* One step is one SQL statement.  A statement of the registry commits by  *)
(* itself; it conflicts with SHARE ROW EXCLUSIVE, so it waits while an     *)
(* executor has locked the table, as does another executor.  The snapshot  *)
(* of the SERIALIZABLE transaction is taken by its first SELECT, after the *)
(* lock.                                                                   *)
(***************************************************************************)
EXTENDS Integers, FiniteSets

CONSTANTS
  Members,                \* validator ids
  Slashers,               \* calls of execute()
  NoSlasher,              \* the table is not locked
  TotalCounts,            \* values callers pass as totalValidators
  BASE_SLASHING_PENALTY   \* 500 in the code

ASSUME ExecutorAssumption ==
  /\ IsFiniteSet(Members) /\ Members # {}
  /\ NoSlasher \notin Slashers
  /\ TotalCounts \subseteq Nat
  /\ BASE_SLASHING_PENALTY \in Nat \ {0}

VARIABLES
  membership,   \* validator_registry
  tableLock,    \* the executor that has locked validator_registry
  slasher,      \* each call of execute()
  events        \* slashing_events

slashVars == <<membership, tableLock, slasher, events>>

\* The view active_validators.
active_validators == {v \in Members : membership[v] = "active"}

SlashOpen == {"lock", "count", "insert"}

\* A row of slashing_events; penalty is in units of 1 / total.
Event == [by : Slashers, validator : Members, count : Nat, total : Nat, penalty : Nat]

SlashTypeOK ==
  /\ membership \in [Members -> {"none", "active", "inactive"}]
  /\ tableLock \in Slashers \cup {NoSlasher}
  /\ slasher \in [Slashers -> [pc : {"idle", "done", "threw"} \cup SlashOpen,
                               validator : Members, total : Nat, count : Nat]]
  /\ events \subseteq Event
  /\ \A e \in events : e.count \in 0..e.total /\ e.total > 0

SlashInit ==
  /\ membership = [v \in Members |-> "none"]
  /\ tableLock = NoSlasher
  /\ slasher = [s \in Slashers |-> [pc |-> "idle", validator |-> CHOOSE v \in Members : TRUE,
                                    total |-> 0, count |-> 0]]
  /\ events = {}

-----------------------------------------------------------------------------
(***************************************************************************)
(* ValidatorRegistry                                                       *)
(***************************************************************************)

\* INSERT ... ON CONFLICT DO UPDATE.
registerValidator(v, status) ==
  /\ tableLock = NoSlasher
  /\ membership' = [membership EXCEPT ![v] = status]
  /\ UNCHANGED <<tableLock, slasher, events>>

\* activateValidator, deactivateValidator, removeValidator.
setActive(v, status) ==
  /\ membership[v] # "none"
  /\ tableLock = NoSlasher
  /\ membership' = [membership EXCEPT ![v] = status]
  /\ UNCHANGED <<tableLock, slasher, events>>

-----------------------------------------------------------------------------
(***************************************************************************)
(* SlashingExecutor                                                        *)
(***************************************************************************)

\* BEGIN ISOLATION LEVEL SERIALIZABLE
Execute(s, v, total) ==
  /\ slasher[s].pc = "idle"
  /\ slasher' = [slasher EXCEPT ![s] = [@ EXCEPT !.pc = "lock", !.validator = v,
                                                 !.total = total]]
  /\ UNCHANGED <<membership, tableLock, events>>

\* Fault: the table is not locked.
LockTable_Missing(s) ==
  /\ slasher[s].pc = "lock"
  /\ slasher' = [slasher EXCEPT ![s].pc = "count"]
  /\ UNCHANGED <<membership, tableLock, events>>

\* LOCK TABLE validator_registry IN SHARE ROW EXCLUSIVE MODE
LockTable(s) ==
  /\ slasher[s].pc = "lock"
  /\ tableLock = NoSlasher
  /\ tableLock' = s
  /\ slasher' = [slasher EXCEPT ![s].pc = "count"]
  /\ UNCHANGED <<membership, events>>

\* Fault: the lock outlives a transaction that throws.
EndSlash_KeepsLock(s, result) ==
  /\ slasher' = [slasher EXCEPT ![s].pc = result]
  /\ tableLock' = IF tableLock = s /\ result = "done" THEN NoSlasher ELSE tableLock

\* COMMIT or ROLLBACK.
EndSlash(s, result) ==
  /\ slasher' = [slasher EXCEPT ![s].pc = result]
  /\ tableLock' = IF tableLock = s THEN NoSlasher ELSE tableLock

\* calculatePenalty() throws a RangeError otherwise.
calculable(active, total) == total > 0 /\ active <= total

\* basePenalty * (1 + (total - active) / total), times total.
calculatePenalty(active, total) == BASE_SLASHING_PENALTY * (total + (total - active))

\* SELECT COUNT(*) FROM active_validators, and the calculation.
CountActive(s) ==
  LET active == Cardinality(active_validators) IN
  /\ slasher[s].pc = "count"
  /\ IF calculable(active, slasher[s].total)
     THEN /\ slasher' = [slasher EXCEPT ![s].pc = "insert", ![s].count = active]
          /\ UNCHANGED tableLock
     ELSE EndSlash(s, "threw")
  /\ UNCHANGED <<membership, events>>

\* INSERT INTO slashing_events and COMMIT, whose answer may be lost.
RecordEvent(s) ==
  LET q == slasher[s] IN
  /\ q.pc = "insert"
  /\ events' = events \cup
       {[by |-> s, validator |-> q.validator, count |-> q.count, total |-> q.total,
         penalty |-> calculatePenalty(q.count, q.total)]}
  /\ \E result \in {"done", "threw"} : EndSlash(s, result)
  /\ UNCHANGED membership

\* A statement fails (a serialization failure among them), or the process dies.
AbortSlash(s) ==
  /\ slasher[s].pc \in SlashOpen
  /\ EndSlash(s, "threw")
  /\ UNCHANGED <<membership, events>>

-----------------------------------------------------------------------------
SlashStep(s) == LockTable(s) \/ CountActive(s) \/ RecordEvent(s)

SlashNext ==
  \/ \E v \in Members, status \in {"active", "inactive"} :
       registerValidator(v, status) \/ setActive(v, status)
  \/ \E s \in Slashers : \/ \E v \in Members, total \in TotalCounts : Execute(s, v, total)
                         \/ SlashStep(s)
                         \/ AbortSlash(s)

\* The database answers, and grants the lock to whoever waits for it (its queue
\* of waiters is first come, first served: strong fairness).
SlashFairness ==
  \A s \in Slashers : SF_slashVars(LockTable(s)) /\ WF_slashVars(SlashStep(s))

SlashSpec == SlashInit /\ [][SlashNext]_slashVars /\ SlashFairness

-----------------------------------------------------------------------------
\* The count an event is about to record is the size of the active set at that
\* very moment, however validators join and leave around the transaction.
SnapshotIsCurrent ==
  \A s \in Slashers : slasher[s].pc = "insert" =>
    slasher[s].count = Cardinality(active_validators)

\* A penalty is between the base and its double, it is the base only when the
\* whole set was active, and of two events with the same total the one with fewer
\* active validators has the greater penalty.
PenaltyFollowsCount ==
  \A e, f \in events :
    /\ e.penalty \in (BASE_SLASHING_PENALTY * e.total)..(2 * BASE_SLASHING_PENALTY * e.total)
    /\ e.penalty = BASE_SLASHING_PENALTY * e.total <=> e.count = e.total
    /\ e.total = f.total => (e.count < f.count <=> e.penalty > f.penalty)

\* Every call ends, so the registry is not locked out for ever.
SlashEnds ==
  \A s \in Slashers : slasher[s].pc \in SlashOpen ~> slasher[s].pc \in {"done", "threw"}
=============================================================================
