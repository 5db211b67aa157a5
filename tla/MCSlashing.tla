----------------------------- MODULE MCSlashing -----------------------------
(***************************************************************************)
(* Model-checking instance of Reputation, Notifications, SlashingExecutor  *)
(* and BondPool.  They share no state, so each is explored with the others *)
(* at rest: the state space is the sum of theirs, not the product.         *)
(***************************************************************************)
EXTENDS Reputation, Notifications, SlashingExecutor, BondPool

CONSTANTS p1, p2, c1, c2, c3, v1, v2

MinScore == -1

\* Two calls in one process, one in another.
Home == [c \in {c1, c2, c3} |-> IF c = c3 THEN p2 ELSE p1]

VARIABLE focus   \* the component that moves

allVars == <<scoreVars, notifyVars, slashVars, vars, focus>>

\* v1 and v2 are interchangeable.
AllInit ==
  /\ focus \in {"reputation", "notifications", "executor", "pools"}
  /\ ScoreInit /\ NotifyInit /\ SlashInit /\ Init
  /\ stake[v1] <= stake[v2] /\ (focus # "pools" => stake[v2] = 0)

AllNext ==
  /\ UNCHANGED focus
  /\ \/ focus = "reputation" /\ ScoreNext /\ UNCHANGED <<notifyVars, slashVars, vars>>
     \/ focus = "notifications" /\ NotifyNext /\ UNCHANGED <<scoreVars, slashVars, vars>>
     \/ focus = "executor" /\ SlashNext /\ UNCHANGED <<scoreVars, notifyVars, vars>>
     \/ focus = "pools" /\ Next /\ UNCHANGED <<scoreVars, notifyVars, slashVars>>

\* No fair action of a component at rest is enabled.
AllSpec ==
  /\ AllInit /\ [][AllNext]_allVars
  /\ ScoreFairness /\ NotifyFairness /\ SlashFairness /\ Fairness

-----------------------------------------------------------------------------
\* Scores stay in their bounds, and no slash is lost or overwritten.
ReputationSafe == ScoreTypeOK /\ SlashCounted /\ SlashNotOverwritten

\* One sender works on a delivery, which nobody sends twice, within maxRetries.
DeliverySafe == NotifyTypeOK /\ OneSender /\ NoDuplicateSend /\ DeliveringIsWorkedOn

\* A penalty follows the count recorded with it, and that count is current.
PenaltySafe == SlashTypeOK /\ SnapshotIsCurrent /\ PenaltyFollowsCount

\* A pool's balance is the sum of its stakes, up to what reconcilePool() left out,
\* so unstake() is not refused for want of balance.
PoolCoversStakes == TypeOK /\ BalanceIsSum /\ UnstakeCovered

\* Every call of the four ends, whoever fails: row and table locks are given back,
\* and a delivery in progress is delivered or failed unless it was orphaned.
SlashingSettles == ScoreCallEnds /\ DeliverySettles /\ SlashEnds /\ EveryCallEnds
=============================================================================
