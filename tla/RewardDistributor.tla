-------------------------- MODULE RewardDistributor --------------------------
(***************************************************************************)
(* RewardDistributor, RewardCycleScheduler and the lock manager of         *)
(* src/rewards: calls of computeAndDistributeNodeReward() for one node,    *)
(* each a transaction that takes the node's advisory lock, reads the       *)
(* pending amount, records the payment and subtracts it.  Amounts are in   *)
(* units of 10^-7, as the code's parseUnits() has them.  RollbackHandler   *)
(* deletes from reward_tx as well: its claim of the node's tentative row   *)
(* and the opening and commit of such rows are the steps of TwoPhase that  *)
(* concern this table.                                                     *)
(***************************************************************************)
EXTENDS Naturals, FiniteSets, Functions

CONSTANTS
  RewardCalls,
  RewardNodes,     \* nodes of a cycle, for the allocation arithmetic
  Earned,          \* initial amount pending for the node, and what it may earn
  NoRewardCall,
  MaxWindows       \* bound on the tentative rows of the node

ASSUME RewardAssumption ==
  /\ Earned \in Nat \ {0} /\ NoRewardCall \notin RewardCalls
  /\ MaxWindows \in Nat
  /\ IsFiniteSet(RewardNodes)

VARIABLES
  pendingAmount,   \* reward_pending_amounts
  rewardTx,        \* sum of reward_tx
  rewardLock,      \* holder of the advisory lock and of the row
  rewardCall,      \* each call, with what its transaction has not committed
  retryQueue,      \* calls whose node was requeued
  earned,          \* history: all the node has earned
  windowTx,        \* the part of rewardTx dated since the tentative row's created_at
  windows,         \* tentative rows of the node so far
  tentative,       \* whether the last of them is PENDING
  reclaimed        \* history: what rollbacks have deleted from reward_tx

windowVars == <<windows, tentative, reclaimed>>
rewardVars == <<pendingAmount, rewardTx, rewardLock, rewardCall, retryQueue, earned, windowTx,
                windowVars>>

RewardTypeOK ==
  /\ {pendingAmount, rewardTx, earned, windowTx, windows, reclaimed} \subseteq Nat
  /\ tentative \in BOOLEAN
  /\ rewardLock \in RewardCalls \cup {NoRewardCall}
  /\ rewardCall \in [RewardCalls ->
       [pc : {"idle", "lock", "read", "insert", "update", "caught", "commit", "ended"},
        amount : Nat, paid : Nat, subtracted : Nat, began : Nat,
        status : {"none", "distributed", "skipped", "requeued", "threw"}]]
  /\ retryQueue \subseteq RewardCalls

\* began: the tentative row of the node when the transaction began, which dates
\* the rows it inserts (created_at DEFAULT now()).
NoReward == [pc |-> "idle", amount |-> 0, paid |-> 0, subtracted |-> 0, began |-> 0,
             status |-> "none"]

RewardInit ==
  /\ pendingAmount = Earned /\ earned = Earned /\ rewardTx = 0
  /\ rewardLock = NoRewardCall
  /\ rewardCall = [c \in RewardCalls |-> NoReward]
  /\ retryQueue = {}
  /\ windowTx = 0 /\ windows = 0 /\ tentative = FALSE /\ reclaimed = 0

-----------------------------------------------------------------------------
\* computeAllocations(): shares of the pool in proportion, rounded down; nodes
\* whose share is nothing are left out.
computeAllocations(amounts, pool) ==
  LET nodes == {n \in DOMAIN amounts : amounts[n] > 0}
      total == FoldFunction(+, 0, [n \in nodes |-> amounts[n]])
      share == [n \in nodes |-> (pool * amounts[n]) \div total] IN
  IF total = 0 THEN <<>> ELSE [n \in {k \in nodes : share[k] > 0} |-> share[n]]

RewardAt(c, label) == rewardCall[c].pc = label
RewardGoto(c, label) == rewardCall' = [rewardCall EXCEPT ![c].pc = label]
ReleaseLock(c) == rewardLock' = IF rewardLock = c THEN NoRewardCall ELSE rewardLock

\* BEGIN and SAVEPOINT.
runCycle(c) ==
  /\ RewardAt(c, "idle")
  /\ rewardCall' = [rewardCall EXCEPT ![c].pc = "lock", ![c].began = windows]
  /\ UNCHANGED <<pendingAmount, rewardTx, rewardLock, retryQueue, earned, windowTx, windowVars>>

acquireRewardNodeLock(c) ==
  /\ RewardAt(c, "lock") /\ rewardLock = NoRewardCall
  /\ rewardLock' = c
  /\ RewardGoto(c, "read")
  /\ UNCHANGED <<pendingAmount, rewardTx, retryQueue, earned, windowTx, windowVars>>

\* SELECT ... FOR UPDATE: nothing pending is skipped.
readPending(c) ==
  LET allocation == computeAllocations([n \in {c} |-> pendingAmount], pendingAmount) IN
  /\ RewardAt(c, "read")
  /\ rewardCall' = IF DOMAIN allocation = {}
                    THEN [rewardCall EXCEPT ![c].pc = "commit", ![c].status = "skipped"]
                    ELSE [rewardCall EXCEPT ![c].pc = "insert", ![c].amount = allocation[c]]
  /\ UNCHANGED <<pendingAmount, rewardTx, rewardLock, retryQueue, earned, windowTx, windowVars>>

insertRewardTx(c) ==
  /\ RewardAt(c, "insert")
  /\ rewardCall' = [rewardCall EXCEPT ![c].pc = "update", ![c].paid = rewardCall[c].amount]
  /\ UNCHANGED <<pendingAmount, rewardTx, rewardLock, retryQueue, earned, windowTx, windowVars>>

subtractPending(c) ==
  /\ RewardAt(c, "update")
  /\ rewardCall' = [rewardCall EXCEPT ![c].pc = "commit", ![c].status = "distributed",
                                      ![c].subtracted = rewardCall[c].amount]
  /\ UNCHANGED <<pendingAmount, rewardTx, rewardLock, retryQueue, earned, windowTx, windowVars>>

\* A statement of the try block fails: by lock_timeout, which holds for every
\* statement of the transaction, or otherwise.
StatementFails(c) ==
  /\ rewardCall[c].pc \in {"lock", "read", "insert", "update"}
  /\ \E outcome \in {"requeued", "threw"} :
       rewardCall' = [rewardCall EXCEPT ![c].pc = "caught", ![c].status = outcome]
  /\ UNCHANGED <<pendingAmount, rewardTx, rewardLock, retryQueue, earned, windowTx, windowVars>>

\* Fault: the savepoint is not rolled back.
RewardCaught_KeepsEffects(c) ==
  /\ RewardAt(c, "caught")
  /\ RewardGoto(c, IF rewardCall[c].status = "requeued" THEN "commit" ELSE "ended")
  /\ retryQueue' = IF rewardCall[c].status = "requeued" THEN retryQueue \cup {c} ELSE retryQueue
  /\ ReleaseLock(c)
  /\ UNCHANGED <<pendingAmount, rewardTx, earned, windowTx, windowVars>>

\* ROLLBACK TO SAVEPOINT undoes the statements and gives the locks back; a lock
\* timeout requeues the node and the transaction is committed, any other error
\* leaves it to be rolled back.
RewardCaught(c) ==
  /\ RewardAt(c, "caught")
  /\ rewardCall' = [rewardCall EXCEPT ![c].pc = IF rewardCall[c].status = "requeued"
                                                THEN "commit" ELSE "ended",
                                      ![c].paid = 0, ![c].subtracted = 0]
  /\ retryQueue' = IF rewardCall[c].status = "requeued" THEN retryQueue \cup {c} ELSE retryQueue
  /\ ReleaseLock(c)
  /\ UNCHANGED <<pendingAmount, rewardTx, earned, windowTx, windowVars>>

\* The answer of COMMIT may be lost: the caller then sees an exception.
Commit(c) ==
  /\ RewardAt(c, "commit")
  /\ rewardTx' = rewardTx + rewardCall[c].paid
  /\ windowTx' = IF rewardCall[c].began = windows /\ windows > 0
                 THEN windowTx + rewardCall[c].paid ELSE windowTx
  /\ pendingAmount' = pendingAmount - rewardCall[c].subtracted
  /\ \E answer \in {rewardCall[c].status, "threw"} :
       rewardCall' = [rewardCall EXCEPT ![c].pc = "ended", ![c].status = answer]
  /\ ReleaseLock(c)
  /\ UNCHANGED <<retryQueue, earned, windowVars>>

\* The connection is lost: the server rolls the transaction back.
ConnectionLost(c) ==
  /\ rewardCall[c].pc \notin {"idle", "ended"}
  /\ rewardCall' = [rewardCall EXCEPT ![c] = [NoReward EXCEPT !.pc = "ended", !.status = "threw"]]
  /\ ReleaseLock(c)
  /\ UNCHANGED <<pendingAmount, rewardTx, retryQueue, earned, windowTx, windowVars>>

\* The requeued node is drained and runs again.
drainRetryQueue(c) ==
  /\ RewardAt(c, "ended") /\ c \in retryQueue
  /\ retryQueue' = retryQueue \ {c}
  /\ rewardCall' = [rewardCall EXCEPT ![c] = NoReward]
  /\ UNCHANGED <<pendingAmount, rewardTx, rewardLock, earned, windowTx, windowVars>>

\* The node earns more; it waits for the lock of the row.
Earn ==
  /\ earned < 2 * Earned
  /\ \A c \in RewardCalls : rewardLock = c => rewardCall[c].pc \in {"read", "caught"}
  /\ earned' = earned + Earned
  /\ pendingAmount' = pendingAmount + Earned
  /\ UNCHANGED <<rewardTx, rewardLock, rewardCall, retryQueue, windowTx, windowVars>>

\* Phase 1 of a transition of the node: what was paid before is no longer dated
\* since the created_at of its tentative row.
OpenTentative ==
  /\ ~tentative /\ windows < MaxWindows
  /\ tentative' = TRUE /\ windows' = windows + 1 /\ windowTx' = 0
  /\ UNCHANGED <<pendingAmount, rewardTx, rewardLock, rewardCall, retryQueue, earned, reclaimed>>

\* The transition commits.
CommitTentative ==
  /\ tentative /\ tentative' = FALSE
  /\ UNCHANGED <<pendingAmount, rewardTx, rewardLock, rewardCall, retryQueue, earned, windowTx,
                 windows, reclaimed>>

\* RollbackHandler.execute(): the payments since created_at are deleted, and
\* reward_pending_amounts is left as it is.
RollbackTentative ==
  /\ tentative /\ tentative' = FALSE
  /\ rewardTx' = rewardTx - windowTx /\ windowTx' = 0
  /\ reclaimed' = reclaimed + windowTx
  /\ UNCHANGED <<pendingAmount, rewardLock, rewardCall, retryQueue, earned, windows>>

-----------------------------------------------------------------------------
RewardStep(c) ==
  \/ acquireRewardNodeLock(c) \/ readPending(c) \/ insertRewardTx(c) \/ subtractPending(c)
  \/ StatementFails(c) \/ RewardCaught(c) \/ Commit(c) \/ ConnectionLost(c)

RewardNext ==
  \/ Earn \/ OpenTentative \/ CommitTentative \/ RollbackTentative
  \/ \E c \in RewardCalls : runCycle(c) \/ drainRetryQueue(c) \/ RewardStep(c)

-----------------------------------------------------------------------------
RewardSpec == RewardInit /\ [][RewardNext]_rewardVars

\* No double spend: what is paid, what is pending and what rollbacks have deleted
\* add up to what was earned, however calls for the node overlap, time out, fail and
\* are requeued; the distributor itself neither creates nor loses a reward.
RewardConserved == rewardTx + pendingAmount + reclaimed = earned

\* The shares of a cycle never exceed the pool, and rounding down leaves less than
\* one unit for each node undistributed.
AllocationFits ==
  \A amounts \in [RewardNodes -> 0..3], pool \in 1..4 :
    LET alloc == computeAllocations(amounts, pool)
        sum == FoldFunction(+, 0, alloc) IN
    /\ sum <= pool
    /\ DOMAIN alloc # {} => pool < sum + Cardinality(RewardNodes)

\* The rollback deletes rows that were written speculatively, for a status that did
\* not come: an earned reward stays paid or pending.  The code does not keep this:
\* RewardDistributor pays whatever the status, and its rows of the window go too.
EarnedIsKept == rewardTx + pendingAmount = earned
=============================================================================
