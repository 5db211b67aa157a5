------------------------------ MODULE BondPool ------------------------------
(***************************************************************************)
(* PgBondPoolStore of src/staking/poolStore.ts for one pool: concurrent    *)
(* transactions stake() and unstake() and the single statement of          *)
(* reconcilePool(), over the tables of migration 006_bond_pools.           *)
(*                                                                         *)
(* One step is one SQL statement at PostgreSQL's default isolation, READ   *)
(* COMMITTED: a statement sees what was committed when it began; one that  *)
(* writes a row another transaction has written waits for its end and then *)
(* evaluates its WHERE again on the new row.  The ledger's variables are   *)
(* the committed rows (stake 0: no row, since unstake() deletes it); what  *)
(* an open transaction has written is known by the locks it holds.         *)
(***************************************************************************)
EXTENDS BondLedger

CONSTANTS
  Txs,                    \* calls of stake() and unstake()
  Reconcilers,            \* calls of reconcilePool()
  NoTx,                   \* no transaction holds the lock
  maxOptimisticAttempts   \* 5 in the code

ASSUME PoolAssumption ==
  /\ NoTx \notin Txs
  /\ maxOptimisticAttempts \in Nat \ {0}

VARIABLES
  tx,          \* each transaction
  stakeLock,   \* who has written or locked each row of validator_stakes
  poolLock,    \* who has written the row of bond_pools
  rec,         \* each call of reconcilePool(), with the sum it has read
  drift        \* history: what the last reconcilePool() left out

locks == <<stakeLock, poolLock>>
vars == <<ledger, tx, locks, rec, drift>>

Open == {"row", "read", "update", "commit"}

\* The parameters of a call, and the version it has read.
Tx == [pc : {"idle", "applied", "refused"} \cup Open, op : {"stake", "unstake"},
       validator : Validators, amount : Amounts, read : Nat,
       attempt : 0..(maxOptimisticAttempts - 1)]

TypeOK ==
  /\ stake \in [Validators -> 0..maxValidatorStake]
  /\ balance \in Nat
  /\ version \in Nat
  /\ tx \in [Txs -> Tx]
  /\ stakeLock \in [Validators -> Txs \cup {NoTx}]
  /\ poolLock \in Txs \cup {NoTx}
  /\ rec \in [Reconcilers -> [pc : {"idle", "waiting", "done"}, sum : Nat]]
  /\ drift \in Int

Init ==
  /\ LedgerInit
  /\ tx = [t \in Txs |-> [pc |-> "idle", op |-> "stake",
                          validator |-> CHOOSE v \in Validators : TRUE,
                          amount |-> MIN_STAKE, read |-> 0, attempt |-> 0]]
  /\ stakeLock = [v \in Validators |-> NoTx]
  /\ poolLock = NoTx
  /\ rec = [r \in Reconcilers |-> [pc |-> "idle", sum |-> 0]]
  /\ drift = 0

-----------------------------------------------------------------------------
Goto(t, label) == tx' = [tx EXCEPT ![t].pc = label]

Change(t) == IF tx[t].op = "stake" THEN tx[t].amount ELSE -tx[t].amount

\* BEGIN
Begin(t, op, v, a) ==
  /\ tx[t].pc = "idle"
  /\ tx' = [tx EXCEPT ![t].pc = "row", ![t].op = op, ![t].validator = v,
                      ![t].amount = a]
  /\ UNCHANGED <<ledger, locks, rec, drift>>

\* Fault: the statements were not in one transaction, so the stake stays.
Refuse_Autocommit(t) ==
  LET v == tx[t].validator IN
  /\ Goto(t, "refused")
  /\ stake' = [stake EXCEPT ![v] = IF stakeLock[v] = t THEN @ + Change(t) ELSE @]
  /\ stakeLock' = [u \in Validators |-> IF stakeLock[u] = t THEN NoTx ELSE stakeLock[u]]
  /\ poolLock' = IF poolLock = t THEN NoTx ELSE poolLock
  /\ UNCHANGED <<balance, version, rec, drift>>

\* ROLLBACK, after an exception or when the connection is lost.
Refuse(t) ==
  /\ Goto(t, "refused")
  /\ stakeLock' = [u \in Validators |-> IF stakeLock[u] = t THEN NoTx ELSE stakeLock[u]]
  /\ poolLock' = IF poolLock = t THEN NoTx ELSE poolLock
  /\ UNCHANGED <<ledger, rec, drift>>

\* The statement on validator_stakes is done; its row is t's until the end.
HoldRow(t) ==
  /\ stakeLock' = [stakeLock EXCEPT ![tx[t].validator] = t]
  /\ Goto(t, "read")
  /\ UNCHANGED <<ledger, poolLock, rec, drift>>

\* stake(): INSERT ... ON CONFLICT DO UPDATE.  Only the update has the limit.
UpsertStake(t) ==
  LET v == tx[t].validator IN
  /\ tx[t].pc = "row" /\ tx[t].op = "stake"
  /\ stakeLock[v] = NoTx
  /\ IF stake[v] = 0 \/ stake[v] + tx[t].amount <= maxValidatorStake
     THEN HoldRow(t) ELSE Refuse(t)

\* unstake(): SELECT ... FOR UPDATE, then UPDATE and DELETE of the same row.  A
\* row that is not committed is not seen, and not waited for.
TakeStake(t) ==
  LET v == tx[t].validator IN
  /\ tx[t].pc = "row" /\ tx[t].op = "unstake"
  /\ stake[v] # 0 => stakeLock[v] = NoTx
  /\ IF stake[v] >= tx[t].amount THEN HoldRow(t) ELSE Refuse(t)

\* The SELECT of incrementPoolBalance() and decrementPoolBalance(), which also
\* compares the balance.
ReadPool(t) ==
  /\ tx[t].pc = "read"
  /\ IF tx[t].op = "unstake" /\ balance < tx[t].amount
     THEN Refuse(t)
     ELSE /\ tx' = [tx EXCEPT ![t].pc = "update", ![t].read = version]
          /\ UNCHANGED <<ledger, locks, rec, drift>>

\* The UPDATE ... WHERE version = $3 finds the row.
UpdatePool(t) ==
  /\ tx[t].pc = "update"
  /\ version = tx[t].read
  /\ poolLock = NoTx
  /\ tx[t].op = "unstake" => balance >= tx[t].amount
  /\ poolLock' = t
  /\ Goto(t, "commit")
  /\ UNCHANGED <<ledger, stakeLock, rec, drift>>

\* It does not: another attempt, or the exception after the last one.
Conflict(t) ==
  /\ tx[t].pc = "update"
  /\ version # tx[t].read
  /\ IF tx[t].attempt + 1 < maxOptimisticAttempts
     THEN /\ tx' = [tx EXCEPT ![t].pc = "read", ![t].attempt = @ + 1]
          /\ UNCHANGED <<ledger, locks, rec, drift>>
     ELSE Refuse(t)

\* Fault: the UPDATE does not advance the version.
Commit_SameVersion(t) ==
  LET v == tx[t].validator IN
  /\ tx[t].pc = "commit"
  /\ stake' = [stake EXCEPT ![v] = @ + Change(t)]
  /\ balance' = balance + Change(t)
  /\ stakeLock' = [stakeLock EXCEPT ![v] = NoTx]
  /\ poolLock' = NoTx
  /\ Goto(t, "applied")
  /\ UNCHANGED <<version, rec, drift>>

\* COMMIT
Commit(t) ==
  LET v == tx[t].validator IN
  /\ tx[t].pc = "commit"
  /\ stake' = [stake EXCEPT ![v] = @ + Change(t)]
  /\ balance' = balance + Change(t)
  /\ version' = version + 1
  /\ stakeLock' = [stakeLock EXCEPT ![v] = NoTx]
  /\ poolLock' = NoTx
  /\ Goto(t, "applied")
  /\ UNCHANGED <<rec, drift>>

\* The connection is lost or the process dies.
Abort(t) == tx[t].pc \in Open /\ Refuse(t)

-----------------------------------------------------------------------------
(***************************************************************************)
(* reconcilePool(): UPDATE bond_pools SET balance = (SELECT SUM ...).      *)
(***************************************************************************)
Write(r, sum) ==
  /\ balance' = sum
  /\ version' = version + 1
  /\ drift' = sumValidatorStakes(stake) - sum
  /\ rec' = [rec EXCEPT ![r] = [pc |-> "done", sum |-> 0]]
  /\ UNCHANGED <<stake, tx, locks>>

ReconcileNow(r) ==
  /\ rec[r].pc = "idle"
  /\ poolLock = NoTx
  /\ Write(r, sumValidatorStakes(stake))

\* The row is locked: the statement waits, with the sum its snapshot gave.
ReconcileWaits(r) ==
  /\ rec[r].pc = "idle"
  /\ poolLock # NoTx
  /\ rec' = [rec EXCEPT ![r] = [pc |-> "waiting", sum |-> sumValidatorStakes(stake)]]
  /\ UNCHANGED <<ledger, tx, locks, drift>>

ReconcileResumes(r) ==
  /\ rec[r].pc = "waiting"
  /\ poolLock = NoTx
  /\ Write(r, rec[r].sum)

-----------------------------------------------------------------------------
TxStep(t) ==
  \/ UpsertStake(t) \/ TakeStake(t) \/ ReadPool(t) \/ UpdatePool(t)
  \/ Conflict(t) \/ Commit(t)

Next ==
  \/ \E t \in Txs : \/ \E op \in {"stake", "unstake"}, v \in Validators, a \in Amounts :
                         Begin(t, op, v, a)
                    \/ TxStep(t)
                    \/ Abort(t)
  \/ \E r \in Reconcilers : ReconcileNow(r) \/ ReconcileWaits(r) \/ ReconcileResumes(r)

Spec == Init /\ [][Next]_vars

(***************************************************************************)
(* Fairness.  The database answers a statement that need not wait; a       *)
(* waiting one proceeds when the row is free.  Nothing is assumed of the   *)
(* callers, nor that a connection is lost.                                 *)
(***************************************************************************)
Fairness ==
  /\ \A t \in Txs : WF_vars(TxStep(t))
  /\ \A r \in Reconcilers : WF_vars(ReconcileResumes(r))

LiveSpec == Spec /\ Fairness

-----------------------------------------------------------------------------
\* The balance is the sum of the stakes, but for what a reconcilePool() that
\* had to wait for the row has left out of its sum; transactions add nothing
\* to that difference, however they interleave, conflict or fail.
BalanceIsSum == balance + drift = sumValidatorStakes(stake)

\* While the balance is exact, unstake() is not refused for want of balance:
\* whoever holds a sufficient stake finds the pool covers it.
UnstakeCovered ==
  drift = 0 =>
    \A t \in Txs : tx[t].op = "unstake" /\ tx[t].pc \in {"read", "update", "commit"}
                     => balance >= tx[t].amount

\* PgBondPoolStore implements InMemoryBondPoolStore: each committed transaction
\* is one atomic stake or unstake of the ledger, and nothing else changes it.
Ledger == INSTANCE BondLedger WITH balance <- balance + drift

ImplementsLedger == Ledger!LedgerSpec

\* Row locks and optimistic retries end: no transaction and no reconcilePool()
\* waits for ever, whoever else fails.
EveryCallEnds ==
  /\ \A t \in Txs : tx[t].pc \in Open ~> tx[t].pc \in {"applied", "refused"}
  /\ \A r \in Reconcilers : rec[r].pc = "waiting" ~> rec[r].pc = "done"
=============================================================================
