--------------------------- MODULE BondPoolProofs ---------------------------
(***************************************************************************)
(* Proofs about BondPool for any finite set of validators, any number of   *)
(* transactions and reconciliations and any limits: the pool covers its    *)
(* stakes, and PgBondPoolStore implements the atomic ledger.               *)
(***************************************************************************)
EXTENDS MCSlashing, SumProofs

\* Past its statement on validator_stakes a transaction has the row to itself, and
\* what it is going to write respects the limits.
Past == {"read", "update", "commit"}

RowIsHeld ==
  \A t \in Txs : tx[t].pc \in Past =>
    /\ stakeLock[tx[t].validator] = t
    /\ stake[tx[t].validator] + Change(t) \in 0..maxValidatorStake

\* A transaction about to commit has the pool's row, whose balance it has checked.
PoolIsHeld ==
  \A t \in Txs : tx[t].pc = "commit" =>
    /\ poolLock = t
    /\ balance + Change(t) >= 0

PoolInv == TypeOK /\ BalanceIsSum /\ RowIsHeld /\ PoolIsHeld
-----------------------------------------------------------------------------
(***************************************************************************)
(* Sums of stakes                                                          *)
(***************************************************************************)

\* The sum of the stakes covers each stake.
LEMMA SumCovers ==
  ASSUME TypeOK
  PROVE  /\ sumValidatorStakes(stake) \in Nat
         /\ \A v \in Validators : sumValidatorStakes(stake) >= stake[v]
<1>1. /\ IsFiniteSet(Validators) /\ stake \in [Validators -> Int]
      /\ \A v \in Validators : stake[v] >= 0
  BY StakeAssumption DEF TypeOK
<1>2. sumValidatorStakes(stake) = Total(stake)
  BY DEF sumValidatorStakes, Total
<1> QED BY <1>1, <1>2, TotalCovers

\* Changing one stake changes the sum by as much.
LEMMA SumChanges ==
  ASSUME TypeOK, NEW v \in Validators, NEW d \in Int
  PROVE  sumValidatorStakes([stake EXCEPT ![v] = @ + d]) = sumValidatorStakes(stake) + d
<1>1. /\ IsFiniteSet(Validators) /\ stake \in [Validators -> Int]
      /\ stake[v] \in Int /\ stake[v] + d \in Int
  BY StakeAssumption DEF TypeOK
<1>2. Total([stake EXCEPT ![v] = stake[v] + d]) = Total(stake) - stake[v] + (stake[v] + d)
  BY <1>1, TotalExcept
<1>3. Total(stake) \in Int
  BY <1>1, TotalType
<1>4. Total([stake EXCEPT ![v] = stake[v] + d]) = Total(stake) + d
  BY <1>1, <1>2, <1>3
<1> QED BY <1>4 DEF sumValidatorStakes, Total

-----------------------------------------------------------------------------
(***************************************************************************)
(* Steps that leave the committed rows as they are                         *)
(***************************************************************************)
Chg(r) == IF r.op = "stake" THEN r.amount ELSE -r.amount

\* Transaction t becomes r; it takes and gives back only locks that were free or
\* its own, and r has the locks that its place requires.
TxKept(t, r) ==
  /\ tx' = [tx EXCEPT ![t] = r] /\ r \in Tx
  /\ UNCHANGED <<stake, balance, version, rec, drift>>
  /\ stakeLock' \in [Validators -> Txs \cup {NoTx}] /\ poolLock' \in Txs \cup {NoTx}
  /\ \A v \in Validators : stakeLock'[v] = stakeLock[v] \/ stakeLock[v] \in {NoTx, t}
  /\ poolLock' = poolLock \/ poolLock \in {NoTx, t}
  /\ r.pc \in Past => /\ stakeLock'[r.validator] = t
                      /\ stake[r.validator] + Chg(r) \in 0..maxValidatorStake
  /\ r.pc = "commit" => poolLock' = t /\ balance + Chg(r) >= 0

\* Such a step keeps the invariant.
LEMMA KeptStep ==
  ASSUME PoolInv, NEW t \in Txs, NEW r, TxKept(t, r)
  PROVE  PoolInv'
<1> USE DEF TxKept
<1>1. TypeOK /\ tx \in [Txs -> Tx] /\ \A u \in Txs : tx[u].validator \in Validators
  BY DEF PoolInv, TypeOK, Tx
<1>2. tx'[t] = r /\ \A u \in Txs : u # t => tx'[u] = tx[u]
  BY <1>1
<1>3. TypeOK'
  BY <1>1 DEF TypeOK
<1>4. BalanceIsSum'
  BY DEF PoolInv, BalanceIsSum
<1>5. Change(t)' = Chg(r) /\ \A u \in Txs : u # t => Change(u)' = Change(u)
  BY <1>2 DEF Change, Chg
<1>6. RowIsHeld'
  <2> SUFFICES ASSUME NEW u \in Txs, tx'[u].pc \in Past
               PROVE  /\ stakeLock'[tx'[u].validator] = u
                      /\ stake'[tx'[u].validator] + Change(u)' \in 0..maxValidatorStake
    BY DEF RowIsHeld
  <2>1. CASE u = t
    BY <1>2, <1>5, <2>1
  <2>2. CASE u # t
    <3>1. /\ stakeLock[tx[u].validator] = u
          /\ stake[tx[u].validator] + Change(u) \in 0..maxValidatorStake
      BY <1>2, <2>2 DEF PoolInv, RowIsHeld
    <3> QED BY <1>1, <1>2, <1>5, <2>2, <3>1, PoolAssumption
  <2> QED BY <2>1, <2>2
<1>7. PoolIsHeld'
  BY <1>2, <1>5, PoolAssumption DEF PoolInv, PoolIsHeld
<1> QED BY <1>3, <1>4, <1>6, <1>7 DEF PoolInv

\* A rollback gives back the locks of its transaction only.
LEMMA RefuseStep ==
  ASSUME PoolInv, NEW t \in Txs, Refuse(t)
  PROVE  PoolInv' /\ UNCHANGED <<ledger, drift>>
<1> DEFINE r == [tx[t] EXCEPT !.pc = "refused"]
<1>1. tx \in [Txs -> Tx] /\ stakeLock \in [Validators -> Txs \cup {NoTx}]
      /\ poolLock \in Txs \cup {NoTx}
  BY DEF PoolInv, TypeOK
<1>2. r \in Tx /\ r.pc = "refused" /\ tx' = [tx EXCEPT ![t] = r]
  BY <1>1 DEF Refuse, Goto, Tx
<1> HIDE DEF r
<1>3. TxKept(t, r)
  BY <1>1, <1>2 DEF TxKept, Refuse, ledger, Past
<1> QED BY <1>3, KeptStep DEF Refuse

-----------------------------------------------------------------------------
(***************************************************************************)
(* Every step keeps the invariant, and is a step of the ledger or none     *)
(***************************************************************************)

\* The statements of a transaction before its COMMIT.
LEMMA StatementSteps ==
  ASSUME PoolInv, NEW t \in Txs,
         \/ \E op \in {"stake", "unstake"}, v \in Validators, a \in Amounts :
              Begin(t, op, v, a)
         \/ UpsertStake(t) \/ TakeStake(t) \/ ReadPool(t) \/ UpdatePool(t)
         \/ Conflict(t) \/ Abort(t)
  PROVE  PoolInv' /\ UNCHANGED <<ledger, drift>>
<1> USE DEF ledger, locks
<1>1. /\ tx \in [Txs -> Tx] /\ stakeLock \in [Validators -> Txs \cup {NoTx}]
      /\ poolLock \in Txs \cup {NoTx} /\ tx[t] \in Tx /\ tx[t].validator \in Validators
      /\ stake \in [Validators -> 0..maxValidatorStake]
      /\ balance \in Nat /\ version \in Nat /\ tx[t].amount \in Amounts
      /\ tx[t].op \in {"stake", "unstake"}
  BY DEF PoolInv, TypeOK, Tx
<1>2. /\ MIN_STAKE \in Nat \ {0} /\ MAX_STAKE \in Nat /\ maxValidatorStake \in Nat
      /\ MAX_STAKE <= maxValidatorStake
  BY StakeAssumption
<1>3. Chg(tx[t]) = Change(t) /\ tx[t].amount \in Nat /\ tx[t].amount > 0
      /\ tx[t].amount <= maxValidatorStake
  BY <1>1, <1>2 DEF Chg, Change, Amounts
<1>4. CASE Refuse(t)
  BY <1>4, RefuseStep
<1>5. ASSUME NEW op \in {"stake", "unstake"}, NEW v \in Validators, NEW a \in Amounts,
             Begin(t, op, v, a)
      PROVE  PoolInv' /\ UNCHANGED <<ledger, drift>>
  <2> DEFINE r == [tx[t] EXCEPT !.pc = "row", !.op = op, !.validator = v, !.amount = a]
  <2>1. r \in Tx /\ r.pc = "row"
    BY <1>1 DEF Tx, Open
  <2>2. tx' = [tx EXCEPT ![t] = r]
    BY <1>1, <1>5 DEF Begin, Tx
  <2> HIDE DEF r
  <2>3. TxKept(t, r)
    BY <1>1, <1>5, <2>1, <2>2 DEF TxKept, Begin, Past
  <2> QED BY <1>5, <2>3, KeptStep DEF Begin
<1>6. ASSUME HoldRow(t), stakeLock[tx[t].validator] = NoTx,
             stake[tx[t].validator] + Change(t) \in 0..maxValidatorStake
      PROVE  PoolInv' /\ UNCHANGED <<ledger, drift>>
  <2> DEFINE r == [tx[t] EXCEPT !.pc = "read"]
  <2>1. r \in Tx /\ r.pc = "read" /\ r.validator = tx[t].validator /\ Chg(r) = Chg(tx[t])
    BY <1>1 DEF Tx, Open, Chg
  <2>2. tx' = [tx EXCEPT ![t] = r]
    BY <1>1, <1>6 DEF HoldRow, Goto, Tx
  <2> HIDE DEF r
  <2>3. TxKept(t, r)
    BY <1>1, <1>3, <1>6, <2>1, <2>2 DEF TxKept, HoldRow
  <2> QED BY <1>6, <2>3, KeptStep DEF HoldRow
<1>7. CASE UpsertStake(t)
  <2>1. stake[tx[t].validator] \in 0..maxValidatorStake
    BY <1>1
  <2>2. CASE HoldRow(t) /\ (stake[tx[t].validator] = 0
                             \/ stake[tx[t].validator] + tx[t].amount <= maxValidatorStake)
    <3>1. Change(t) = tx[t].amount /\ stakeLock[tx[t].validator] = NoTx
      BY <1>7 DEF UpsertStake, Change
    <3>2. stake[tx[t].validator] + Change(t) \in 0..maxValidatorStake
      BY <1>2, <1>3, <2>1, <2>2, <3>1
    <3> QED BY <1>6, <2>2, <3>1, <3>2
  <2> QED BY <1>4, <1>7, <2>2 DEF UpsertStake
<1>8. CASE TakeStake(t)
  <2>1. stake[tx[t].validator] \in 0..maxValidatorStake
    BY <1>1
  <2>2. CASE HoldRow(t) /\ stake[tx[t].validator] >= tx[t].amount
    <3>1. Change(t) = -tx[t].amount /\ stakeLock[tx[t].validator] = NoTx
      BY <1>3, <1>8, <2>1, <2>2 DEF TakeStake, Change
    <3>2. stake[tx[t].validator] + Change(t) \in 0..maxValidatorStake
      BY <1>2, <1>3, <2>1, <2>2, <3>1
    <3> QED BY <1>6, <2>2, <3>1, <3>2
  <2> QED BY <1>4, <1>8, <2>2 DEF TakeStake
<1>9. tx[t].pc \in Past => /\ stakeLock[tx[t].validator] = t
                           /\ stake[tx[t].validator] + Change(t) \in 0..maxValidatorStake
  BY DEF PoolInv, RowIsHeld
<1>10. ASSUME NEW label \in {"read", "update"}, NEW n \in Nat, NEW k \in 0..(maxOptimisticAttempts - 1),
              tx[t].pc \in Past,
              tx' = [tx EXCEPT ![t] = [tx[t] EXCEPT !.pc = label, !.read = n, !.attempt = k]],
              UNCHANGED <<ledger, locks, rec, drift>>
       PROVE  PoolInv' /\ UNCHANGED <<ledger, drift>>
  <2> DEFINE r == [tx[t] EXCEPT !.pc = label, !.read = n, !.attempt = k]
  <2>1. r \in Tx /\ r.pc = label /\ r.validator = tx[t].validator /\ Chg(r) = Chg(tx[t])
    BY <1>1, <1>10 DEF Tx, Open, Chg
  <2>2. tx' = [tx EXCEPT ![t] = r]
    BY <1>10
  <2> HIDE DEF r
  <2>3. TxKept(t, r)
    BY <1>1, <1>3, <1>9, <1>10, <2>1, <2>2 DEF TxKept
  <2> QED BY <1>10, <2>3, KeptStep
<1>11. CASE ReadPool(t)
  <2>1. CASE ~Refuse(t)
    <3>1. /\ tx[t].pc \in Past /\ UNCHANGED <<ledger, locks, rec, drift>>
          /\ tx' = [tx EXCEPT ![t].pc = "update", ![t].read = version]
      BY <1>11, <2>1 DEF ReadPool, Past
    <3>2. tx' = [tx EXCEPT ![t] = [tx[t] EXCEPT !.pc = "update", !.read = version,
                                                !.attempt = tx[t].attempt]]
      BY <1>1, <3>1 DEF Tx
    <3>3. tx[t].attempt \in 0..(maxOptimisticAttempts - 1)
      BY <1>1 DEF Tx
    <3> QED BY <1>1, <1>10, <3>1, <3>2, <3>3
  <2> QED BY <1>4, <2>1
<1>12. CASE Conflict(t)
  <2>1. CASE ~Refuse(t)
    <3>1. /\ tx[t].pc \in Past /\ UNCHANGED <<ledger, locks, rec, drift>>
          /\ tx' = [tx EXCEPT ![t].pc = "read", ![t].attempt = tx[t].attempt + 1]
          /\ tx[t].attempt + 1 < maxOptimisticAttempts
      BY <1>12, <2>1 DEF Conflict, Past
    <3>2. tx' = [tx EXCEPT ![t] = [tx[t] EXCEPT !.pc = "read", !.read = tx[t].read,
                                                !.attempt = tx[t].attempt + 1]]
      BY <1>1, <3>1 DEF Tx
    <3>3. tx[t].attempt \in 0..(maxOptimisticAttempts - 1) /\ tx[t].read \in Nat
      BY <1>1 DEF Tx
    <3>4. tx[t].attempt + 1 \in 0..(maxOptimisticAttempts - 1)
      BY <3>1, <3>3, PoolAssumption
    <3> QED BY <1>1, <1>10, <3>1, <3>2, <3>3, <3>4
  <2> QED BY <1>4, <2>1
<1>13. CASE UpdatePool(t)
  <2> DEFINE r == [tx[t] EXCEPT !.pc = "commit"]
  <2>1. r \in Tx /\ r.pc = "commit" /\ r.validator = tx[t].validator /\ Chg(r) = Chg(tx[t])
    BY <1>1 DEF Tx, Open, Chg
  <2>2. tx' = [tx EXCEPT ![t] = r]
    BY <1>1, <1>13 DEF UpdatePool, Goto, Tx
  <2>3. balance + Change(t) >= 0
    BY <1>1, <1>3, <1>13 DEF UpdatePool, Change
  <2>4. tx[t].pc \in Past /\ poolLock = NoTx /\ poolLock' = t
        /\ UNCHANGED <<ledger, stakeLock, rec, drift>>
    BY <1>13 DEF UpdatePool, Past
  <2> HIDE DEF r
  <2>5. TxKept(t, r)
    BY <1>1, <1>3, <1>9, <2>1, <2>2, <2>3, <2>4 DEF TxKept
  <2> QED BY <2>4, <2>5, KeptStep
<1>14. CASE Abort(t)
  BY <1>4, <1>14 DEF Abort
<1> QED BY <1>5, <1>7, <1>8, <1>11, <1>12, <1>13, <1>14
\* COMMIT: the sum and the balance change by the same amount, within the limits, and
\* the other transactions, which hold other rows, are not disturbed.
LEMMA CommitStep ==
  ASSUME PoolInv, NEW t \in Txs, Commit(t)
  PROVE  PoolInv'
<1> DEFINE v == tx[t].validator
           d == Change(t)
           r == [tx[t] EXCEPT !.pc = "applied"]
<1>1. /\ tx \in [Txs -> Tx] /\ stakeLock \in [Validators -> Txs \cup {NoTx}]
      /\ stake \in [Validators -> 0..maxValidatorStake] /\ v \in Validators
      /\ balance \in Nat /\ version \in Nat /\ drift \in Int /\ d \in Int
      /\ \A u \in Txs : tx[u].validator \in Validators
  BY StakeAssumption DEF PoolInv, TypeOK, Tx, Change, Amounts
<1>2. /\ tx[t].pc = "commit" /\ stake' = [stake EXCEPT ![v] = @ + d]
      /\ balance' = balance + d /\ version' = version + 1
      /\ stakeLock' = [stakeLock EXCEPT ![v] = NoTx] /\ poolLock' = NoTx
      /\ UNCHANGED <<rec, drift>>
  BY DEF Commit
<1>3. /\ stakeLock[v] = t /\ stake[v] + d \in 0..maxValidatorStake
      /\ poolLock = t /\ balance + d >= 0
  BY <1>2 DEF PoolInv, RowIsHeld, PoolIsHeld, Past
<1>4. r \in Tx /\ r.pc = "applied" /\ tx' = [tx EXCEPT ![t] = r]
  BY <1>1 DEF Commit, Goto, Tx
<1>5. sumValidatorStakes([stake EXCEPT ![v] = @ + d]) = sumValidatorStakes(stake) + d
  BY <1>1, SumChanges DEF PoolInv
<1>6. sumValidatorStakes(stake) \in Nat
  BY SumCovers DEF PoolInv
<1> HIDE DEF v, d, r
<1>7. TypeOK'
  <2>1. balance' \in Nat /\ version' \in Nat
    BY <1>1, <1>2, <1>3
  <2>2. stake' \in [Validators -> 0..maxValidatorStake]
    BY <1>1, <1>2, <1>3
  <2>3. tx' \in [Txs -> Tx] /\ stakeLock' \in [Validators -> Txs \cup {NoTx}]
    BY <1>1, <1>2, <1>4
  <2> QED BY <1>2, <2>1, <2>2, <2>3 DEF PoolInv, TypeOK
<1>8. BalanceIsSum'
  <2>1. sumValidatorStakes(stake') = sumValidatorStakes(stake) + d
    BY <1>2, <1>5
  <2>2. balance + drift = sumValidatorStakes(stake)
    BY DEF PoolInv, BalanceIsSum
  <2>3. balance' + drift' = sumValidatorStakes(stake')
    BY <1>1, <1>2, <1>6, <2>1, <2>2
  <2> QED BY <2>3 DEF BalanceIsSum
<1>9. tx'[t] = r /\ \A u \in Txs : u # t => tx'[u] = tx[u] /\ Change(u)' = Change(u)
  BY <1>1, <1>4 DEF Change
<1>10. RowIsHeld'
  <2> SUFFICES ASSUME NEW u \in Txs, tx'[u].pc \in Past
               PROVE  /\ stakeLock'[tx'[u].validator] = u
                      /\ stake'[tx'[u].validator] + Change(u)' \in 0..maxValidatorStake
    BY DEF RowIsHeld
  <2>1. u # t
    BY <1>4, <1>9 DEF Past
  <2>2. /\ stakeLock[tx[u].validator] = u
        /\ stake[tx[u].validator] + Change(u) \in 0..maxValidatorStake
    BY <1>9, <2>1 DEF PoolInv, RowIsHeld
  <2>3. tx[u].validator # v
    BY <1>3, <2>1, <2>2
  <2> QED BY <1>1, <1>2, <1>9, <2>1, <2>2, <2>3
<1>11. PoolIsHeld'
  <2>1. \A u \in Txs : u # t => tx[u].pc # "commit"
    BY <1>3 DEF PoolInv, PoolIsHeld
  <2> QED BY <1>4, <1>9, <2>1 DEF PoolIsHeld
<1> QED BY <1>7, <1>8, <1>10, <1>11 DEF PoolInv

\* reconcilePool() runs while nobody has the pool's row, and drift records what its
\* sum left out.
LEMMA ReconcileSteps ==
  ASSUME PoolInv, NEW q \in Reconcilers,
         ReconcileNow(q) \/ ReconcileWaits(q) \/ ReconcileResumes(q)
  PROVE  PoolInv'
<1>1. /\ TypeOK /\ sumValidatorStakes(stake) \in Nat
      /\ rec \in [Reconcilers -> [pc : {"idle", "waiting", "done"}, sum : Nat]]
  BY SumCovers DEF PoolInv, TypeOK
<1>2. CASE ReconcileWaits(q)
  <2>1. /\ rec' \in [Reconcilers -> [pc : {"idle", "waiting", "done"}, sum : Nat]]
        /\ UNCHANGED <<stake, balance, version, tx, stakeLock, poolLock, drift>>
    BY <1>1, <1>2 DEF ReconcileWaits, ledger, locks
  <2>2. TypeOK'
    BY <1>1, <2>1 DEF TypeOK
  <2>3. BalanceIsSum' /\ RowIsHeld' /\ PoolIsHeld'
    BY <2>1 DEF PoolInv, BalanceIsSum, RowIsHeld, PoolIsHeld, Change
  <2> QED BY <2>2, <2>3 DEF PoolInv
<1>3. ASSUME NEW n \in Nat, Write(q, n), poolLock = NoTx PROVE PoolInv'
  <2>1. /\ balance' = n /\ version' = version + 1
        /\ drift' = sumValidatorStakes(stake) - n
        /\ rec' = [rec EXCEPT ![q] = [pc |-> "done", sum |-> 0]]
        /\ UNCHANGED <<stake, tx, stakeLock, poolLock>>
    BY <1>3 DEF Write, locks
  <2>2. rec' \in [Reconcilers -> [pc : {"idle", "waiting", "done"}, sum : Nat]]
    BY <1>1, <2>1
  <2>3. TypeOK'
    BY <1>1, <2>1, <2>2 DEF TypeOK
  <2>4. BalanceIsSum'
    BY <1>1, <2>1 DEF BalanceIsSum
  <2>5. RowIsHeld'
    BY <2>1 DEF PoolInv, RowIsHeld, Change
  <2>6. PoolIsHeld'
    BY <1>3, <2>1, PoolAssumption DEF PoolInv, PoolIsHeld
  <2> QED BY <2>3, <2>4, <2>5, <2>6 DEF PoolInv
<1>4. CASE ReconcileNow(q)
  BY <1>1, <1>3, <1>4 DEF ReconcileNow
<1>5. CASE ReconcileResumes(q)
  <2>1. rec[q].sum \in Nat
    BY <1>1
  <2> QED BY <1>3, <1>5, <2>1 DEF ReconcileResumes
<1> QED BY <1>2, <1>4, <1>5

\* The pool starts balanced and without transactions.
LEMMA PoolInitOK == Init => PoolInv
<1> SUFFICES ASSUME Init PROVE PoolInv
  OBVIOUS
<1>1. stake \in [Validators -> 0..maxValidatorStake] /\ version = 0 /\ drift = 0
      /\ balance = sumValidatorStakes(stake)
  BY DEF Init, LedgerInit
<1>2. sumValidatorStakes(stake) \in Nat
  <2>1. /\ IsFiniteSet(Validators) /\ stake \in [Validators -> Int]
        /\ \A v \in Validators : stake[v] >= 0
    BY <1>1, StakeAssumption
  <2> QED BY <2>1, TotalCovers DEF sumValidatorStakes, Total
<1>3. tx \in [Txs -> Tx] /\ \A t \in Txs : tx[t].pc = "idle"
  <2>1. (CHOOSE v \in Validators : TRUE) \in Validators
    BY StakeAssumption
  <2>2. MIN_STAKE \in Amounts /\ 0 \in 0..(maxOptimisticAttempts - 1)
    BY StakeAssumption, PoolAssumption DEF Amounts
  <2> QED BY <2>1, <2>2 DEF Init, Tx
<1>4. TypeOK
  BY <1>1, <1>2, <1>3 DEF Init, TypeOK
<1>5. BalanceIsSum
  BY <1>1, <1>2 DEF BalanceIsSum
<1>6. RowIsHeld /\ PoolIsHeld
  BY <1>3 DEF RowIsHeld, PoolIsHeld, Past
<1> QED BY <1>4, <1>5, <1>6 DEF PoolInv

\* The invariant is inductive.
LEMMA PoolStepOK == PoolInv /\ [Next]_vars => PoolInv'
<1> SUFFICES ASSUME PoolInv, [Next]_vars PROVE PoolInv'
  OBVIOUS
<1>1. CASE UNCHANGED vars
  BY <1>1 DEF vars, ledger, locks, PoolInv, TypeOK, BalanceIsSum, RowIsHeld, PoolIsHeld, Change
<1> QED BY <1>1, StatementSteps, CommitStep, ReconcileSteps DEF Next, TxStep

\* The invariant holds in every reachable state.
LEMMA PoolInvariance == Spec => []PoolInv
<1> QED BY PoolInitOK, PoolStepOK, PTL DEF Spec

\* Unless a reconcilePool() that waited left a commit out, the pool's balance is the
\* sum of the stakes, and no unstake() is refused for want of balance.
THEOREM PoolAlwaysCovers == Spec => []PoolCoversStakes
<1>1. PoolInv => PoolCoversStakes
  <2> SUFFICES ASSUME PoolInv, drift = 0, NEW t \in Txs, tx[t].op = "unstake",
                      tx[t].pc \in Past
               PROVE  balance >= tx[t].amount
    BY DEF PoolInv, PoolCoversStakes, UnstakeCovered, Past
  <2>1. /\ tx[t] \in Tx /\ tx[t].validator \in Validators /\ tx[t].amount \in Nat
        /\ stake[tx[t].validator] \in Nat /\ balance \in Nat
    BY StakeAssumption DEF PoolInv, TypeOK, Tx, Amounts
  <2>2. stake[tx[t].validator] + (-tx[t].amount) >= 0
    BY DEF PoolInv, RowIsHeld, Change
  <2>3. balance = sumValidatorStakes(stake)
    BY <2>1 DEF PoolInv, BalanceIsSum
  <2>4. sumValidatorStakes(stake) >= stake[tx[t].validator] /\ sumValidatorStakes(stake) \in Nat
    BY <2>1, SumCovers DEF PoolInv
  <2> QED BY <2>1, <2>2, <2>3, <2>4
<1> QED BY <1>1, PoolInvariance, PTL

-----------------------------------------------------------------------------
(***************************************************************************)
(* The refinement                                                          *)
(***************************************************************************)

\* The ledger sums stakes as the pool does.
LEMMA LedgerSum == Ledger!sumValidatorStakes(stake) = sumValidatorStakes(stake)
<1> QED BY DEF Ledger!sumValidatorStakes, sumValidatorStakes, FoldFunction,
               Ledger!FoldFunction, FoldFunctionOnSet, Ledger!FoldFunctionOnSet,
               MapThenFoldSet, Ledger!MapThenFoldSet

\* A committed transaction is one step of the ledger.
LEMMA CommitRefines ==
  ASSUME PoolInv, NEW t \in Txs, Commit(t)
  PROVE  Ledger!LedgerNext
<1> DEFINE v == tx[t].validator
           a == tx[t].amount
<1>1. /\ tx[t] \in Tx /\ v \in Validators /\ a \in Amounts /\ a \in Nat
      /\ tx[t].op \in {"stake", "unstake"} /\ stake[v] \in Nat
      /\ balance \in Nat /\ drift \in Int
      /\ stake \in [Validators -> 0..maxValidatorStake]
  BY StakeAssumption DEF PoolInv, TypeOK, Tx, Amounts
<1>2. /\ stake[v] + Change(t) \in 0..maxValidatorStake
      /\ stake' = [stake EXCEPT ![v] = @ + Change(t)]
      /\ balance' = balance + Change(t) /\ version' = version + 1 /\ drift' = drift
  BY DEF Commit, PoolInv, RowIsHeld, Past
<1>3. CASE tx[t].op = "stake"
  <2>1. Change(t) = a
    BY <1>3 DEF Change
  <2>2. Ledger!Stake(v, a)
    BY <1>1, <1>2, <2>1 DEF Ledger!Stake
  <2> QED BY <1>1, <2>2 DEF Ledger!LedgerNext, Ledger!Amounts, Amounts
<1>4. CASE tx[t].op = "unstake"
  <2>1. Change(t) = -a
    BY <1>4 DEF Change
  <2>2. stake[v] >= a
    BY <1>1, <1>2, <2>1
  <2>3. balance + drift >= a
    <3>1. sumValidatorStakes(stake) >= stake[v] /\ sumValidatorStakes(stake) \in Nat
      BY <1>1, SumCovers DEF PoolInv
    <3> QED BY <1>1, <2>2, <3>1 DEF PoolInv, BalanceIsSum
  <2>4. stake' = [stake EXCEPT ![v] = stake[v] - a]
    BY <1>1, <1>2, <2>1
  <2>5. (balance + drift)' = (balance + drift) - a /\ version' = version + 1
    BY <1>1, <1>2, <2>1
  <2>6. Ledger!Unstake(v, a)
    BY <2>2, <2>3, <2>4, <2>5 DEF Ledger!Unstake
  <2> QED BY <1>1, <2>6 DEF Ledger!LedgerNext, Ledger!Amounts, Amounts
<1> QED BY <1>1, <1>3, <1>4

\* reconcilePool() is a reconciliation of the ledger, or nothing while it waits.
LEMMA ReconcileRefines ==
  ASSUME PoolInv, NEW q \in Reconcilers,
         ReconcileNow(q) \/ ReconcileWaits(q) \/ ReconcileResumes(q)
  PROVE  Ledger!LedgerNext \/ UNCHANGED <<ledger, drift>>
<1>1. CASE ReconcileWaits(q)
  BY <1>1 DEF ReconcileWaits
<1>2. ASSUME NEW n \in Nat, Write(q, n) PROVE Ledger!LedgerNext
  <2>1. balance' + drift' = sumValidatorStakes(stake)
    BY <1>2, SumCovers DEF Write, PoolInv
  <2>2. Ledger!Reconcile
    BY <1>2, <2>1, LedgerSum DEF Write, Ledger!Reconcile
  <2> QED BY <2>2 DEF Ledger!LedgerNext
<1>3. sumValidatorStakes(stake) \in Nat /\ rec[q].sum \in Nat
  BY SumCovers DEF PoolInv, TypeOK
<1> QED BY <1>1, <1>2, <1>3 DEF ReconcileNow, ReconcileResumes

\* PgBondPoolStore implements InMemoryBondPoolStore: every COMMIT is one atomic stake
\* or unstake of the ledger, every reconcilePool() one reconciliation, and no other
\* statement, conflict or rollback changes it.
THEOREM PoolImplementsLedger == Spec => ImplementsLedger
<1>1. Init => Ledger!LedgerInit
  <2> SUFFICES ASSUME Init PROVE Ledger!LedgerInit
    OBVIOUS
  <2>1. balance \in Nat /\ drift = 0
    BY PoolInitOK DEF Init, PoolInv, TypeOK
  <2> QED BY <2>1, LedgerSum DEF Init, LedgerInit, Ledger!LedgerInit
<1>2. PoolInv /\ [Next]_vars => [Ledger!LedgerNext]_(Ledger!ledger)
  <2> SUFFICES ASSUME PoolInv, [Next]_vars
               PROVE  Ledger!LedgerNext \/ UNCHANGED <<ledger, drift>>
    BY DEF ledger, Ledger!ledger
  <2>1. CASE UNCHANGED vars
    BY <2>1 DEF vars
  <2> QED BY <2>1, StatementSteps, CommitRefines, ReconcileRefines DEF Next, TxStep
<1> QED BY <1>1, <1>2, PoolInvariance, PTL DEF Spec, ImplementsLedger, Ledger!LedgerSpec
=============================================================================
