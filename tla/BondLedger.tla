----------------------------- MODULE BondLedger -----------------------------
(***************************************************************************)
(* InMemoryBondPoolStore of src/staking/poolStore.ts for one pool: every   *)
(* operation runs under withPoolLock(), so each is one atomic step.  It is *)
(* also the specification that PgBondPoolStore (module BondPool) is shown  *)
(* to implement.                                                           *)
(***************************************************************************)
EXTENDS Integers, FiniteSets, Functions

CONSTANTS
  Validators,         \* validator ids
  MIN_STAKE,          \* least amount of one operation, 100 in the code
  MAX_STAKE,          \* greatest amount of one operation, 100000 in the code
  maxValidatorStake   \* limit of one validator's stake, 100000 by default

ASSUME StakeAssumption ==
  /\ IsFiniteSet(Validators) /\ Validators # {}
  /\ MIN_STAKE \in Nat \ {0}
  /\ MAX_STAKE \in Nat
  /\ maxValidatorStake \in Nat
  /\ MIN_STAKE <= MAX_STAKE /\ MAX_STAKE <= maxValidatorStake

VARIABLES
  stake,     \* amount of each validator's stake; 0: there is no row
  balance,   \* balance of the pool
  version    \* version of the pool

ledger == <<stake, balance, version>>

\* assertStakeAmount() of BondPoolService.
Amounts == MIN_STAKE..MAX_STAKE

sumValidatorStakes(amounts) == FoldFunction(+, 0, amounts)

LedgerInit ==
  /\ stake \in [Validators -> 0..maxValidatorStake]
  /\ balance = sumValidatorStakes(stake)
  /\ version = 0

Stake(v, a) ==
  /\ stake[v] + a <= maxValidatorStake
  /\ stake' = [stake EXCEPT ![v] = @ + a]
  /\ balance' = balance + a
  /\ version' = version + 1

Unstake(v, a) ==
  /\ stake[v] >= a
  /\ balance >= a
  /\ stake' = [stake EXCEPT ![v] = @ - a]
  /\ balance' = balance - a
  /\ version' = version + 1

Reconcile ==
  /\ balance' = sumValidatorStakes(stake)
  /\ version' = version + 1
  /\ UNCHANGED stake

LedgerNext ==
  \/ \E v \in Validators, a \in Amounts : Stake(v, a) \/ Unstake(v, a)
  \/ Reconcile

LedgerSpec == LedgerInit /\ [][LedgerNext]_ledger
=============================================================================
