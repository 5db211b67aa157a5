--------------------------- MODULE TwoPhaseProofs ---------------------------
(***************************************************************************)
(* Proofs about TwoPhase for any numbers of nodes, calls, sweeps and       *)
(* administrators.                                                         *)
(***************************************************************************)
EXTENDS TwoPhase, TLAPS

\* Where the call that owns a PENDING row can be.
Owner == {"rpc", "commit", "mark", "rollback", "commitFailed", "threw", "crashed"}

\* A row's key is a call on that node which is past Phase 1.
KeyIsCall ==
  \A n \in Nodes : row[n].key \in Calls =>
    node[row[n].key] = n /\ pc[row[n].key] \notin {"idle", "phase1"}

\* A PENDING row was never claimed, and its call has not reported an end.
PendingIsOpen ==
  \A n \in Nodes : row[n].state = "PENDING" =>
    /\ row[n].key \in Calls
    /\ claims[row[n].key] = 0
    /\ pc[row[n].key] \in Owner

\* A call that has not passed Phase 1 has no row to claim.
FreshUnclaimed == \A c \in Calls : pc[c] \in {"idle", "phase1"} => claims[c] = 0

\* A dependent row is begun once its node had a tentative row.
BegunHasRow == \A n \in Nodes : begun[n] # {} => row[n].key \in Calls

IndInv == /\ TypeOK /\ KeyIsCall /\ PendingIsOpen /\ FreshUnclaimed /\ SingleClaim
          /\ BegunHasRow

\* What a transaction on node n may do to the rows and to the claim counts.
TableStep(n) ==
  /\ row' \in [Nodes -> Row]
  /\ status' \in [Nodes -> NodeStatus]
  /\ logged' \subseteq Calls
  /\ cascade' \in [Nodes -> SUBSET Dependent]
  /\ claims' \in [Calls -> Nat]
  /\ \A m \in Nodes : row'[m].key = row[m].key
  /\ \A m \in Nodes : row'[m].state = "PENDING" => row[m].state = "PENDING" /\ m # n
  /\ \A c \in Calls : claims'[c] <= 1
  /\ \A c \in Calls : claims'[c] # claims[c] =>
                        c = row[n].key /\ row[n].state = "PENDING"

\* Updating the state and the mark of a tentative row gives a tentative row.
LEMMA RowUpdate ==
  ASSUME NEW r \in Row, NEW s \in {"COMMITTED", "ROLLED_BACK"}, NEW m \in BOOLEAN
  PROVE  LET new == [r EXCEPT !.state = s, !.marked = m]
         IN  /\ new \in Row
             /\ new.key = r.key /\ new.target = r.target /\ new.state = s
             /\ new.expired = r.expired /\ new.marked = m
             /\ new.before = r.before
BY DEF Row

\* RollbackHandler.execute() touches one row, and leaves it not PENDING.
LEMMA RollbackIsTableStep ==
  ASSUME IndInv, NEW n \in Nodes, NEW k \in Calls, NEW t \in NodeStatus,
         RollbackExecute(n, k, t)
  PROVE  TableStep(n)
<1>1. CASE row[n].state = "PENDING"
  <2> DEFINE new == [row[n] EXCEPT !.state = "ROLLED_BACK", !.marked = FALSE]
  <2>1. row' = [row EXCEPT ![n] = new]
    BY <1>1 DEF RollbackExecute, IndInv, TypeOK, Row
  <2>2. new \in Row /\ new.key = row[n].key /\ new.state = "ROLLED_BACK"
    BY RowUpdate DEF IndInv, TypeOK
  <2> HIDE DEF new
  <2>3. row' \in [Nodes -> Row]
    BY <2>1, <2>2 DEF IndInv, TypeOK
  <2>4. /\ \A m \in Nodes : row'[m].key = row[m].key
        /\ \A m \in Nodes : row'[m].state = "PENDING" =>
                              row[m].state = "PENDING" /\ m # n
    BY <2>1, <2>2 DEF IndInv, TypeOK
  <2>5. row[n].key \in Calls /\ claims[row[n].key] = 0
    BY <1>1 DEF IndInv, PendingIsOpen
  <2>6. claims' = [claims EXCEPT ![row[n].key] = 1]
    BY <1>1, <2>5 DEF RollbackExecute, IndInv, TypeOK
  <2>7. /\ claims' \in [Calls -> Nat]
        /\ \A c \in Calls : claims'[c] <= 1
        /\ \A c \in Calls : claims'[c] # claims[c] => c = row[n].key
    BY <2>5, <2>6 DEF IndInv, TypeOK, SingleClaim
  <2>8. cascade' \in [Nodes -> SUBSET Dependent]
    BY <1>1 DEF RollbackExecute, IndInv, TypeOK
  <2>9. status' \in [Nodes -> NodeStatus] /\ logged' \subseteq Calls
    BY <1>1 DEF RollbackExecute, IndInv, TypeOK
  <2> QED
    BY <1>1, <2>3, <2>4, <2>7, <2>8, <2>9 DEF TableStep
<1>2. CASE row[n].state # "PENDING"
  BY <1>2 DEF RollbackExecute, IndInv, TypeOK, SingleClaim, tables, TableStep
<1> QED
  BY <1>1, <1>2

\* So does the transaction of the commit path.
LEMMA CommitIsTableStep ==
  ASSUME IndInv, NEW n \in Nodes, NEW t \in NodeStatus, NEW m \in BOOLEAN,
         CommitTables(n, t, m)
  PROVE  TableStep(n)
<1> DEFINE new == [row[n] EXCEPT !.state = "COMMITTED", !.marked = m]
<1>1. row' = [row EXCEPT ![n] = new]
  BY DEF CommitTables, IndInv, TypeOK, Row
<1>2. new \in Row /\ new.key = row[n].key /\ new.state = "COMMITTED"
  <2>1. row[n] \in Row
    BY DEF IndInv, TypeOK
  <2> QED BY <2>1, RowUpdate, Zenon
<1> HIDE DEF new
<1>3. row' \in [Nodes -> Row]
  BY <1>1, <1>2 DEF IndInv, TypeOK
<1>4. /\ \A l \in Nodes : row'[l].key = row[l].key
      /\ \A l \in Nodes : row'[l].state = "PENDING" =>
                            row[l].state = "PENDING" /\ l # n
  BY <1>1, <1>2 DEF IndInv, TypeOK
<1> QED
  BY <1>3, <1>4 DEF CommitTables, IndInv, TypeOK, SingleClaim, TableStep

\* A transaction that leaves the calls alone preserves the invariant.
LEMMA TableStepKeepsInv ==
  ASSUME IndInv, NEW n \in Nodes, TableStep(n),
         pc' \in [Calls -> {"idle"} \cup Running \cup Ended], node' = node,
         begun' = begun,
         \A c \in Calls : \/ pc'[c] = pc[c]
                          \/ /\ node[c] = n
                             /\ pc[c] \notin {"idle", "phase1"}
                             /\ pc'[c] \notin {"idle", "phase1"}
  PROVE  KeyIsCall' /\ PendingIsOpen' /\ FreshUnclaimed' /\ SingleClaim' /\ BegunHasRow'
<1>1. KeyIsCall' /\ BegunHasRow'
  BY DEF IndInv, TypeOK, TableStep, KeyIsCall, BegunHasRow
<1>2. PendingIsOpen'
  <2> SUFFICES ASSUME NEW m \in Nodes, row'[m].state = "PENDING"
               PROVE  /\ row'[m].key \in Calls
                      /\ claims'[row'[m].key] = 0
                      /\ pc'[row'[m].key] \in Owner
    BY DEF PendingIsOpen
  <2>1. row[m].state = "PENDING" /\ m # n /\ row'[m].key = row[m].key
    BY DEF TableStep
  <2>2. row[m].key \in Calls /\ claims[row[m].key] = 0 /\ node[row[m].key] = m
        /\ pc[row[m].key] \in Owner
    BY <2>1 DEF IndInv, PendingIsOpen, KeyIsCall
  <2>3. claims'[row[m].key] = 0
    <3>1. SUFFICES ASSUME claims'[row[m].key] # claims[row[m].key] PROVE FALSE
      BY <2>2
    <3>2. row[m].key = row[n].key /\ row[n].state = "PENDING"
      BY <3>1, <2>2 DEF TableStep
    <3>3. node[row[n].key] = n
      BY <3>2, <2>2 DEF IndInv, KeyIsCall
    <3> QED BY <3>2, <3>3, <2>1, <2>2
  <2> QED BY <2>1, <2>2, <2>3
<1>3. FreshUnclaimed'
  <2> SUFFICES ASSUME NEW c \in Calls, pc'[c] \in {"idle", "phase1"}
               PROVE  claims'[c] = 0
    BY DEF FreshUnclaimed
  <2>1. pc[c] \in {"idle", "phase1"} /\ claims[c] = 0
    BY DEF IndInv, FreshUnclaimed
  <2>2. c # row[n].key
    BY <2>1 DEF IndInv, KeyIsCall
  <2> QED BY <2>1, <2>2 DEF TableStep
<1>4. SingleClaim'
  BY DEF TableStep, SingleClaim
<1> QED BY <1>1, <1>2, <1>3, <1>4

\* A step that leaves the tables alone and moves one call forward.
LEMMA CallStepKeepsInv ==
  ASSUME IndInv, NEW c \in Calls, UNCHANGED tables,
         pc[c] \in Running, pc'[c] \in Running \cup {"threw", "crashed"},
         pc[c] = "phase1" => pc'[c] \in {"threw", "crashed"},
         pc[c] # "phase1" => pc'[c] # "phase1",
         pc' = [pc EXCEPT ![c] = pc'[c]], UNCHANGED <<node, begun>>
  PROVE  KeyIsCall' /\ PendingIsOpen' /\ FreshUnclaimed' /\ SingleClaim' /\ BegunHasRow'
<1>1. \A d \in Calls : d # c => pc'[d] = pc[d]
  BY DEF IndInv, TypeOK
<1>2. KeyIsCall'
  BY <1>1 DEF IndInv, KeyIsCall, tables, Running
<1>3. PendingIsOpen'
  BY <1>1 DEF IndInv, PendingIsOpen, tables, Running, Owner
<1>4. FreshUnclaimed'
  BY <1>1 DEF IndInv, FreshUnclaimed, tables, Running
<1>5. SingleClaim' /\ BegunHasRow'
  BY DEF IndInv, SingleClaim, BegunHasRow, tables
<1> QED BY <1>2, <1>3, <1>4, <1>5

\* The initial state satisfies the invariant.
LEMMA InitInv == Init => IndInv
<1> SUFFICES ASSUME Init PROVE IndInv
  OBVIOUS
<1>1. (CHOOSE n \in Nodes : TRUE) \in Nodes
  BY ConstantsAssumption
<1>2. row \in [Nodes -> Row]
  BY ConstantsAssumption DEF Init, Row, NodeStatus
<1>2a. node \in [Calls -> Nodes]
  BY <1>1, Zenon DEF Init
<1>2b. status \in [Nodes -> NodeStatus]
  BY ConstantsAssumption DEF Init
<1>2c. /\ pc \in [Calls -> {"idle"} \cup Running \cup Ended]
       /\ target \in [Calls -> NodeStatus]
       /\ attempt \in [Calls -> 1..COMMIT_RETRY_ATTEMPTS]
       /\ chain \subseteq Calls /\ logged \subseteq Calls
       /\ claims \in [Calls -> Nat]
       /\ cascade \in [Nodes -> SUBSET Dependent]
       /\ begun \in [Nodes -> SUBSET (Kinds \X Calls)]
       /\ claimed \in [Workers -> SUBSET Claim]
       /\ apc \in [Admins -> {"idle", "commit", "rollback", "done"}]
       /\ aread \in [Admins -> SUBSET Claim]
  BY DEF Init, NodeStatus, COMMIT_RETRY_ATTEMPTS
<1>3. TypeOK
  BY <1>2, <1>2a, <1>2b, <1>2c DEF TypeOK
<1>4. KeyIsCall /\ PendingIsOpen /\ FreshUnclaimed /\ SingleClaim /\ BegunHasRow
  BY ConstantsAssumption
     DEF Init, BegunHasRow, KeyIsCall, PendingIsOpen, FreshUnclaimed, SingleClaim
<1> QED BY <1>3, <1>4 DEF IndInv

\* Every step of a call of transition() preserves it.
LEMMA CallInv == ASSUME IndInv, NEW c \in Calls, CallStep(c) PROVE IndInv'
<1>1. ASSUME NEW n \in Nodes, NEW t \in NodeStatus, Start(c, n, t) PROVE IndInv'
  <2>1. TypeOK'
    BY <1>1 DEF IndInv, TypeOK, Start, Goto, tables, adminVars, Running, Ended
  <2>2. /\ pc[c] = "idle" /\ pc'[c] \in {"phase1", "threw"}
        /\ \A d \in Calls : d # c => pc'[d] = pc[d] /\ node'[d] = node[d]
        /\ UNCHANGED <<tables, begun>>
    BY <1>1 DEF IndInv, TypeOK, Start, Goto
  <2>3. \A m \in Nodes : row[m].key # c
    BY <2>2 DEF IndInv, KeyIsCall
  <2>4. KeyIsCall'
    BY <2>2, <2>3 DEF IndInv, KeyIsCall, tables
  <2>5. PendingIsOpen'
    BY <2>2, <2>3 DEF IndInv, PendingIsOpen, tables
  <2>6. FreshUnclaimed' /\ SingleClaim' /\ BegunHasRow'
    BY <2>2 DEF IndInv, FreshUnclaimed, SingleClaim, BegunHasRow, tables
  <2> QED BY <2>1, <2>4, <2>5, <2>6 DEF IndInv
<1>2. ASSUME InsertTentative(c), pc[c] = "phase1", pc'[c] \in {"rpc", "threw"},
             pc' = [pc EXCEPT ![c] = pc'[c]],
             UNCHANGED <<node, target, attempt, chain, begun, claimed, adminVars>>
      PROVE  IndInv'
  <2> DEFINE n == node[c]
             new == NewRow(c)
  <2>1. n \in Nodes /\ new \in Row /\ new.key = c /\ new.state = "PENDING"
    BY DEF IndInv, TypeOK, Row, NewRow
  <2>2. /\ row' = [row EXCEPT ![n] = new]
        /\ \A d \in Calls : d # c => pc'[d] = pc[d]
        /\ UNCHANGED <<node, claims, begun>>
    BY <1>2 DEF InsertTentative, IndInv, TypeOK
  <2> HIDE DEF new
  <2>3. row' \in [Nodes -> Row] /\ row'[n] = new
        /\ \A m \in Nodes : m # n => row'[m] = row[m]
    BY <2>1, <2>2 DEF IndInv, TypeOK
  <2>4. TypeOK'
    BY <1>2, <2>3 DEF InsertTentative, IndInv, TypeOK, Running, Ended, adminVars
  <2>5. \A m \in Nodes : row[m].key # c
    BY <1>2, <2>2 DEF IndInv, KeyIsCall
  <2>6. KeyIsCall'
    BY <1>2, <2>1, <2>2, <2>3, <2>5 DEF IndInv, KeyIsCall
  <2>7. claims[c] = 0
    BY <1>2 DEF IndInv, FreshUnclaimed
  <2>8. PendingIsOpen'
    BY <1>2, <2>1, <2>2, <2>3, <2>5, <2>7 DEF IndInv, PendingIsOpen, Owner
  <2>9. FreshUnclaimed' /\ SingleClaim' /\ BegunHasRow'
    BY <1>2, <2>1, <2>2, <2>3 DEF IndInv, FreshUnclaimed, SingleClaim, BegunHasRow
  <2> QED BY <2>4, <2>6, <2>8, <2>9 DEF IndInv
<1>2a. CASE Phase1(c)
  BY <1>2, <1>2a DEF Phase1, Goto, IndInv, TypeOK
<1>3. ASSUME UNCHANGED <<tables, node, target, begun, claimed, adminVars>>,
             chain' \subseteq Calls, attempt' \in [Calls -> 1..COMMIT_RETRY_ATTEMPTS],
             pc[c] \in Running, pc'[c] \in Running \cup {"threw", "crashed"},
             pc[c] = "phase1" => pc'[c] \in {"threw", "crashed"},
             pc[c] # "phase1" => pc'[c] # "phase1",
             pc' = [pc EXCEPT ![c] = pc'[c]]
      PROVE  IndInv'
  <2>1. TypeOK'
    BY <1>3 DEF IndInv, TypeOK, tables, adminVars, Running, Ended
  <2> QED BY <1>3, <2>1, CallStepKeepsInv DEF IndInv
<1>3a. CASE \/ RpcConfirmed(c) \/ RpcFailed(c) \/ Crash(c)
  BY <1>3, <1>3a DEF IndInv, TypeOK, RpcConfirmed, RpcFailed, Crash, Goto, Running
<1>3b. CASE Phase1Refused(c)
  <2>1. pc[c] = "phase1" /\ pc'[c] = "threw" /\ pc' = [pc EXCEPT ![c] = pc'[c]]
        /\ UNCHANGED <<node, target, attempt, chain, begun, claimed, adminVars>>
    BY <1>3b DEF Phase1Refused, Goto, IndInv, TypeOK
  <2>2. CASE UNCHANGED tables
    BY <1>3, <2>1, <2>2 DEF IndInv, TypeOK, Running
  <2> QED BY <1>2, <1>3b, <2>1, <2>2 DEF Phase1Refused
<1>5. ASSUME TableStep(node[c]), UNCHANGED <<node, target, chain, begun, claimed, adminVars>>,
             attempt' \in [Calls -> 1..COMMIT_RETRY_ATTEMPTS],
             pc[c] \in {"commit", "rollback"}, pc' = [pc EXCEPT ![c] = pc'[c]],
             pc'[c] \in {"commit", "mark", "committed", "rolledBack", "threw"}
      PROVE  IndInv'
  <2>1. node[c] \in Nodes
    BY DEF IndInv, TypeOK
  <2>2. pc' \in [Calls -> {"idle"} \cup Running \cup Ended]
        /\ \A d \in Calls : \/ pc'[d] = pc[d]
                            \/ /\ node[d] = node[c]
                               /\ pc[d] \notin {"idle", "phase1"}
                               /\ pc'[d] \notin {"idle", "phase1"}
    BY <1>5 DEF IndInv, TypeOK, Running, Ended
  <2>3. TypeOK'
    BY <1>5, <2>2 DEF IndInv, TypeOK, TableStep, adminVars
  <2>4. KeyIsCall' /\ PendingIsOpen' /\ FreshUnclaimed' /\ SingleClaim' /\ BegunHasRow'
    BY <1>5, <2>1, <2>2, TableStepKeepsInv
  <2> QED BY <2>3, <2>4 DEF IndInv
<1>5a. /\ node[c] \in Nodes /\ target[c] \in NodeStatus
       /\ row[node[c]].marked \in BOOLEAN
  BY DEF IndInv, TypeOK, Row
<1>5b. CASE Commit(c)
  <2>1. TableStep(node[c])
    BY <1>5a, <1>5b, CommitIsTableStep DEF Commit
  <2> QED BY <1>5, <1>5b, <2>1 DEF Commit, Goto, IndInv, TypeOK
<1>4. CASE CommitFails(c)
  <2>1. /\ attempt' \in [Calls -> 1..COMMIT_RETRY_ATTEMPTS]
        /\ pc[c] = "commit" /\ pc'[c] \in {"commit", "mark"}
        /\ pc' = [pc EXCEPT ![c] = pc'[c]]
        /\ UNCHANGED <<node, target, chain, begun, claimed, adminVars>>
    BY <1>4 DEF CommitFails, Goto, IndInv, TypeOK, COMMIT_RETRY_ATTEMPTS
  <2>2. CASE UNCHANGED tables
    BY <1>3, <2>1, <2>2 DEF IndInv, TypeOK, Running
  <2>3. CASE CommitTables(node[c], target[c], row[node[c]].marked)
    <3>1. TableStep(node[c])
      BY <1>5a, <2>3, CommitIsTableStep
    <3> QED BY <1>5, <2>1, <3>1
  <2> QED BY <1>4, <2>2, <2>3 DEF CommitFails
<1>6. CASE MarkCommitFailed(c)
  <2> DEFINE n == node[c]
             new == [row[n] EXCEPT !.marked = @ \/ row[n].state = "PENDING"]
  <2>1. n \in Nodes /\ row[n] \in Row
    BY DEF IndInv, TypeOK
  <2>2. new \in Row /\ new.key = row[n].key /\ new.state = row[n].state
    BY <2>1 DEF Row
  <2>3. row' = [row EXCEPT ![n] = new] \/ row' = row
    BY <1>6 DEF MarkCommitFailed
  <2> HIDE DEF new
  <2>4. /\ row' \in [Nodes -> Row]
        /\ \A m \in Nodes : row'[m].key = row[m].key /\ row'[m].state = row[m].state
    BY <2>1, <2>2, <2>3 DEF IndInv, TypeOK
  <2>5. /\ pc[c] = "mark" /\ pc'[c] = "commitFailed"
        /\ \A d \in Calls : d # c => pc'[d] = pc[d]
        /\ UNCHANGED <<node, claims, begun>>
    BY <1>6 DEF MarkCommitFailed, Goto, IndInv, TypeOK
  <2>6. TypeOK'
    BY <1>6, <2>4 DEF MarkCommitFailed, Goto, IndInv, TypeOK, Ended, adminVars
  <2>7. KeyIsCall'
    BY <2>4, <2>5 DEF IndInv, KeyIsCall
  <2>8. PendingIsOpen'
    BY <2>4, <2>5 DEF IndInv, PendingIsOpen, Owner
  <2>9. FreshUnclaimed' /\ SingleClaim' /\ BegunHasRow'
    BY <2>4, <2>5 DEF IndInv, FreshUnclaimed, SingleClaim, BegunHasRow
  <2> QED BY <2>6, <2>7, <2>8, <2>9 DEF IndInv
<1>7. CASE Rollback(c)
  <2>1. TableStep(node[c])
    BY <1>5a, <1>7, RollbackIsTableStep DEF Rollback
  <2> QED BY <1>5, <1>7, <2>1 DEF Rollback, Goto, IndInv, TypeOK
<1>8. CASE RollbackFails(c)
  <2>1. /\ pc[c] = "rollback" /\ pc'[c] = "threw" /\ pc' = [pc EXCEPT ![c] = pc'[c]]
        /\ UNCHANGED <<node, target, attempt, chain, begun, claimed, adminVars>>
    BY <1>8 DEF RollbackFails, Goto, IndInv, TypeOK
  <2>2. CASE UNCHANGED tables
    BY <1>3, <2>1, <2>2 DEF IndInv, TypeOK, Running
  <2>3. CASE RollbackExecute(node[c], c, target[c])
    <3>1. TableStep(node[c])
      BY <1>5a, <2>3, RollbackIsTableStep
    <3> QED BY <1>5, <2>1, <3>1 DEF IndInv, TypeOK
  <2> QED BY <1>8, <2>2, <2>3 DEF RollbackFails
<1> QED
  BY <1>1, <1>2a, <1>3a, <1>3b, <1>4, <1>5b, <1>6, <1>7, <1>8 DEF CallStep

\* A step of a writer of a dependent table.
DependentStep(n, kind) ==
  BeginDependent(n, kind) \/ \E k \in Calls : WriteDependent(n, kind, k)

\* Expiry and the writers of the dependent tables preserve it.
LEMMA EnvironmentInv ==
  ASSUME IndInv, NEW n \in Nodes,
         Expire(n) \/ \E kind \in Kinds : DependentStep(n, kind)
  PROVE  IndInv'
<1>1. CASE Expire(n)
  <2> DEFINE new == [row[n] EXCEPT !.expired = TRUE]
  <2>1. row[n] \in Row
    BY DEF IndInv, TypeOK
  <2>2. new \in Row /\ new.key = row[n].key /\ new.state = row[n].state
    BY <2>1 DEF Row
  <2>3. row' = [row EXCEPT ![n] = new]
    BY <1>1 DEF Expire
  <2> HIDE DEF new
  <2>4. /\ row' \in [Nodes -> Row]
        /\ \A m \in Nodes : row'[m].key = row[m].key /\ row'[m].state = row[m].state
    BY <2>2, <2>3 DEF IndInv, TypeOK
  <2>5. UNCHANGED <<pc, node, claims, begun>>
    BY <1>1 DEF Expire, callVars
  <2>6. TypeOK'
    BY <1>1, <2>4 DEF Expire, IndInv, TypeOK, callVars, adminVars
  <2>7. KeyIsCall' /\ PendingIsOpen' /\ FreshUnclaimed' /\ SingleClaim' /\ BegunHasRow'
    BY <2>4, <2>5 DEF IndInv, KeyIsCall, PendingIsOpen, FreshUnclaimed, SingleClaim,
                      BegunHasRow
  <2> QED BY <2>6, <2>7 DEF IndInv
<1>2. ASSUME NEW kind \in Kinds, BeginDependent(n, kind) PROVE IndInv'
  <2>1. row[n].key \in Calls
    BY <1>2 DEF BeginDependent, TentativeVisible, IndInv, TypeOK, Row, PendingIsOpen
  <2>2. begun' \in [Nodes -> SUBSET (Kinds \X Calls)]
        /\ \A m \in Nodes : m # n => begun'[m] = begun[m]
    BY <1>2, <2>1 DEF BeginDependent, IndInv, TypeOK
  <2>3. TypeOK'
    BY <1>2, <2>2 DEF BeginDependent, IndInv, TypeOK, tables, callVars, adminVars
  <2>4. KeyIsCall' /\ PendingIsOpen' /\ FreshUnclaimed' /\ SingleClaim'
    BY <1>2 DEF BeginDependent, tables, callVars, IndInv, KeyIsCall, PendingIsOpen,
                FreshUnclaimed, SingleClaim
  <2>5. BegunHasRow'
    BY <1>2, <2>1, <2>2 DEF BeginDependent, tables, IndInv, BegunHasRow
  <2> QED BY <2>3, <2>4, <2>5 DEF IndInv
<1>3. ASSUME NEW kind \in Kinds, NEW k \in Calls, WriteDependent(n, kind, k)
      PROVE  IndInv'
  <2> DEFINE w == IF kind = "reward" THEN k ELSE row[n].key
             x == [kind |-> kind, about |-> k, window |-> w]
  <2>1. begun[n] # {} /\ row[n].key \in Calls
    BY <1>3 DEF WriteDependent, IndInv, BegunHasRow
  <2>2. x \in Dependent
    BY <2>1 DEF Dependent
  <2>3. cascade' = [cascade EXCEPT ![n] = @ \cup {x}]
    BY <1>3 DEF WriteDependent
  <2> HIDE DEF x
  <2>4. cascade' \in [Nodes -> SUBSET Dependent]
    BY <2>2, <2>3 DEF IndInv, TypeOK
  <2>5. begun' \in [Nodes -> SUBSET (Kinds \X Calls)]
        /\ \A m \in Nodes : begun'[m] \subseteq begun[m]
    BY <1>3 DEF WriteDependent, IndInv, TypeOK
  <2>6. TypeOK'
    BY <1>3, <2>4, <2>5 DEF WriteDependent, IndInv, TypeOK, callVars, adminVars
  <2>7. KeyIsCall' /\ PendingIsOpen' /\ FreshUnclaimed' /\ SingleClaim'
    BY <1>3 DEF WriteDependent, callVars, IndInv, KeyIsCall, PendingIsOpen,
                FreshUnclaimed, SingleClaim
  <2>8. BegunHasRow'
    BY <1>3, <2>5 DEF WriteDependent, IndInv, BegunHasRow
  <2> QED BY <2>6, <2>7, <2>8 DEF IndInv
<1> QED BY <1>1, <1>2, <1>3 DEF DependentStep

\* Sweeps preserve it.
LEMMA SweepInv == ASSUME IndInv, NEW w \in Workers, SweepStep(w) PROVE IndInv'
<1>1. CASE SweepSelect(w)
  <2>1. PICK S \in SUBSET Sweepable : claimed' = [claimed EXCEPT ![w] = {ClaimOf(n) : n \in S}]
    BY <1>1 DEF SweepSelect
  <2>2. \A n \in S : n \in Nodes /\ row[n] \in Row /\ row[n].key \in Calls
    BY <2>1 DEF Sweepable, IndInv, TypeOK, PendingIsOpen
  <2>3. \A n \in S : ClaimOf(n) \in Claim
    BY <2>2 DEF ClaimOf, Claim, Row
  <2>4. claimed' \in [Workers -> SUBSET Claim]
    BY <2>1, <2>3 DEF IndInv, TypeOK
  <2>5. UNCHANGED <<tables, callVars, begun, adminVars>>
    BY <1>1 DEF SweepSelect
  <2>6. TypeOK'
    BY <2>4, <2>5 DEF IndInv, TypeOK, tables, callVars, adminVars
  <2> QED
    BY <2>5, <2>6 DEF IndInv, tables, callVars, KeyIsCall, PendingIsOpen,
                      FreshUnclaimed, SingleClaim, BegunHasRow
<1>2. CASE SweepRollback(w)
  <2>1. PICK r \in claimed[w] : /\ RollbackExecute(r.node, r.key, r.target)
                                /\ claimed' = [claimed EXCEPT ![w] = @ \ {r}]
    BY <1>2 DEF SweepRollback
  <2>2. r.node \in Nodes /\ r.key \in Calls /\ r.target \in NodeStatus
    BY DEF IndInv, TypeOK, Claim
  <2>3. TableStep(r.node)
    BY <2>1, <2>2, RollbackIsTableStep
  <2>4. UNCHANGED <<callVars, begun, adminVars>>
    BY <1>2 DEF SweepRollback
  <2>5. TypeOK'
    BY <2>1, <2>3, <2>4 DEF IndInv, TypeOK, TableStep, callVars, adminVars
  <2>6. KeyIsCall' /\ PendingIsOpen' /\ FreshUnclaimed' /\ SingleClaim' /\ BegunHasRow'
    <3>1. /\ begun' = begun
          /\ pc' \in [Calls -> {"idle"} \cup Running \cup Ended] /\ node' = node
          /\ \A d \in Calls : pc'[d] = pc[d]
      BY <2>4 DEF IndInv, TypeOK, callVars
    <3> QED BY <2>2, <2>3, <3>1, TableStepKeepsInv
  <2> QED BY <2>5, <2>6 DEF IndInv
<1>3. CASE SweepAbort(w)
  BY <1>3 DEF SweepAbort, IndInv, TypeOK, tables, callVars, adminVars, KeyIsCall,
              PendingIsOpen, FreshUnclaimed, SingleClaim, BegunHasRow
<1> QED BY <1>1, <1>2, <1>3 DEF SweepStep

\* Administrators preserve it.
LEMMA AdminInv == ASSUME IndInv, NEW a \in Admins, AdminStep(a) PROVE IndInv'
<1>1. ASSUME NEW n \in Nodes, NEW res \in {"commit", "rollback"},
             AdminFetch(a, n, res)
      PROVE  IndInv'
  <2>1. row[n] \in Row /\ row[n].key \in Calls
    BY <1>1 DEF AdminFetch, IndInv, TypeOK, PendingIsOpen
  <2>2. ClaimOf(n) \in Claim
    BY <2>1 DEF ClaimOf, Claim, Row
  <2>3. TypeOK'
    BY <1>1, <2>2 DEF AdminFetch, IndInv, TypeOK, tables, callVars
  <2> QED
    BY <1>1, <2>3 DEF AdminFetch, IndInv, tables, callVars, KeyIsCall,
                      PendingIsOpen, FreshUnclaimed, SingleClaim, BegunHasRow
<1>2. CASE AdminResolve(a)
  <2>1. PICK r \in aread[a] :
          \/ CommitTables(r.node, r.target, FALSE)
          \/ RollbackExecute(r.node, r.key, r.target)
    BY <1>2 DEF AdminResolve
  <2>2. r.node \in Nodes /\ r.key \in Calls /\ r.target \in NodeStatus
    BY DEF IndInv, TypeOK, Claim
  <2>3. TableStep(r.node)
    BY <2>1, <2>2, RollbackIsTableStep, CommitIsTableStep
  <2>4. UNCHANGED <<aread, callVars, begun, claimed>> /\ apc' = [apc EXCEPT ![a] = "done"]
    BY <1>2 DEF AdminResolve
  <2>5. TypeOK'
    BY <2>3, <2>4 DEF IndInv, TypeOK, TableStep, callVars
  <2>6. KeyIsCall' /\ PendingIsOpen' /\ FreshUnclaimed' /\ SingleClaim' /\ BegunHasRow'
    <3>1. /\ begun' = begun
          /\ pc' \in [Calls -> {"idle"} \cup Running \cup Ended] /\ node' = node
          /\ \A d \in Calls : pc'[d] = pc[d]
      BY <2>4 DEF IndInv, TypeOK, callVars
    <3> QED BY <2>2, <2>3, <3>1, TableStepKeepsInv
  <2> QED BY <2>5, <2>6 DEF IndInv
<1>3. CASE AdminAbort(a)
  BY <1>3 DEF AdminAbort, IndInv, TypeOK, tables, callVars, KeyIsCall,
              PendingIsOpen, FreshUnclaimed, SingleClaim, BegunHasRow
<1> QED BY <1>1, <1>2, <1>3 DEF AdminStep

\* The invariant is inductive.
LEMMA NextInv == IndInv /\ [Next]_vars => IndInv'
<1> SUFFICES ASSUME IndInv, [Next]_vars PROVE IndInv'
  OBVIOUS
<1>1. CASE Next
  BY <1>1, CallInv, EnvironmentInv, SweepInv, AdminInv DEF Next, DependentStep
<1>2. CASE UNCHANGED vars
  BY <1>2 DEF vars, IndInv, TypeOK, KeyIsCall, PendingIsOpen, FreshUnclaimed,
              SingleClaim, BegunHasRow
<1> QED BY <1>1, <1>2

\* Every reachable state satisfies the inductive invariant.
LEMMA Invariance == Spec => []IndInv
BY InitInv, NextInv, PTL DEF Spec

\* Whatever races, the tables and the calls keep their types.
THEOREM TypeCorrect == Spec => []TypeOK
<1>1. IndInv => TypeOK
  BY DEF IndInv
<1> QED BY <1>1, Invariance, PTL

\* The compare-and-swap of RollbackHandler.execute(): one tentative row is rolled
\* back at most once, for any numbers of calls, sweeps and administrators.
THEOREM ClaimedOnce == Spec => []SingleClaim
<1>1. IndInv => SingleClaim
  BY DEF IndInv
<1> QED BY <1>1, Invariance, PTL

\* A PENDING row belongs to a call on its node that has not reported an end.
THEOREM PendingOwned == Spec => []PendingHasOwner
<1>1. IndInv => PendingHasOwner
  BY DEF IndInv, PendingIsOpen, KeyIsCall, PendingHasOwner, Owner
<1> QED BY <1>1, Invariance, PTL

-----------------------------------------------------------------------------
(***************************************************************************)
(* What node_status takes.                                                 *)
(***************************************************************************)

\* A call that commits has seen its transaction confirmed.
CommitIsConfirmed == \A c \in Calls : pc[c] = "commit" => c \in chain

\* It is inductive.
LEMMA ConfirmedInv == IndInv /\ CommitIsConfirmed /\ [Next]_vars => CommitIsConfirmed'
<1> SUFFICES ASSUME IndInv, CommitIsConfirmed, [Next]_vars PROVE CommitIsConfirmed'
  OBVIOUS
<1>0. pc \in [Calls -> {"idle"} \cup Running \cup Ended]
  BY DEF IndInv, TypeOK
<1>1. ASSUME UNCHANGED <<pc, chain>> PROVE CommitIsConfirmed'
  BY <1>1 DEF CommitIsConfirmed
<1>2. ASSUME NEW c \in Calls, CallStep(c) PROVE CommitIsConfirmed'
  <2>1. ASSUME NEW label, Goto(c, label), label # "commit", chain \subseteq chain'
        PROVE  CommitIsConfirmed'
    BY <1>0, <2>1 DEF Goto, CommitIsConfirmed
  <2>2. CASE RpcConfirmed(c)
    BY <1>0, <2>2 DEF RpcConfirmed, Goto, CommitIsConfirmed
  <2>3. CASE CommitFails(c)
    BY <1>1, <2>1, <2>3 DEF CommitFails
  <2>4. ASSUME NEW n \in Nodes, NEW t \in NodeStatus, Start(c, n, t)
        PROVE  CommitIsConfirmed'
    BY <2>1, <2>4 DEF Start
  <2>5. CASE RpcFailed(c) \/ Crash(c)
    BY <2>1, <2>5 DEF RpcFailed, Crash
  <2>6. CASE Phase1(c) \/ Phase1Refused(c) \/ Commit(c) \/ MarkCommitFailed(c)
             \/ Rollback(c) \/ RollbackFails(c)
    BY <2>1, <2>6 DEF Phase1, Phase1Refused, Commit, MarkCommitFailed, Rollback,
                      RollbackFails
  <2> QED BY <1>2, <2>2, <2>3, <2>4, <2>5, <2>6 DEF CallStep
<1>3. ASSUME NEW n \in Nodes, Expire(n) \/ \E kind \in Kinds : DependentStep(n, kind)
      PROVE  CommitIsConfirmed'
  BY <1>1, <1>3 DEF Expire, DependentStep, BeginDependent, WriteDependent, callVars
<1>4. ASSUME NEW w \in Workers, SweepStep(w) PROVE CommitIsConfirmed'
  BY <1>1, <1>4 DEF SweepStep, SweepSelect, SweepRollback, SweepAbort, callVars
<1>5. ASSUME NEW a \in Admins, AdminStep(a) PROVE CommitIsConfirmed'
  BY <1>1, <1>5 DEF AdminStep, AdminFetch, AdminResolve, AdminAbort, callVars
<1>6. CASE UNCHANGED vars
  BY <1>1, <1>6 DEF vars
<1> QED BY <1>2, <1>3, <1>4, <1>5, <1>6 DEF Next, DependentStep

\* What a step may do to the committed status of node n.
StatusStep(n) ==
  status'[n] # status[n] =>
    \/ \E c \in chain : node[c] = n /\ target[c] = status'[n]
    \/ \E a \in Admins : apc[a] = "commit" /\ \E r \in aread[a] : r.node = n

\* Only the commit of a confirmed call and a forced commit change it.
LEMMA StatusSteps ==
  ASSUME IndInv, CommitIsConfirmed, Next, NEW n \in Nodes
  PROVE  StatusStep(n)
<1>0. status \in [Nodes -> NodeStatus]
  BY DEF IndInv, TypeOK
<1>1. ASSUME status' = status PROVE StatusStep(n)
  BY <1>1 DEF StatusStep
<1>2. ASSUME NEW m, NEW k, NEW t, RollbackExecute(m, k, t) PROVE status' = status
  BY <1>2 DEF RollbackExecute, tables
<1>3. ASSUME NEW c \in Calls, CallStep(c) PROVE StatusStep(n)
  <2>1. CASE Commit(c)
    <3>1. status' = [status EXCEPT ![node[c]] = target[c]] /\ c \in chain
      BY <2>1 DEF Commit, CommitTables, CommitIsConfirmed
    <3> QED BY <1>0, <3>1 DEF StatusStep
  <2>2. CASE Rollback(c) \/ RollbackFails(c)
    BY <1>1, <1>2, <2>2 DEF Rollback, RollbackFails, tables
  <2>3. CASE CommitFails(c)
    <3>1. CASE UNCHANGED tables
      BY <1>1, <3>1 DEF tables
    <3>2. CASE CommitTables(node[c], target[c], row[node[c]].marked)
      <4>1. status' = [status EXCEPT ![node[c]] = target[c]] /\ c \in chain
        BY <2>3, <3>2 DEF CommitFails, CommitTables, CommitIsConfirmed
      <4> QED BY <1>0, <4>1 DEF StatusStep
    <3> QED BY <2>3, <3>1, <3>2 DEF CommitFails
  <2>4. CASE ~Commit(c) /\ ~Rollback(c) /\ ~RollbackFails(c) /\ ~CommitFails(c)
    <3>1. status' = status
      BY <1>3, <2>4 DEF CallStep, Start, Phase1, Phase1Refused, InsertTentative,
                        RpcConfirmed, RpcFailed, MarkCommitFailed, Crash, tables
    <3> QED BY <1>1, <3>1
  <2> QED BY <2>1, <2>2, <2>3, <2>4
<1>4. ASSUME NEW w \in Workers, SweepStep(w) PROVE StatusStep(n)
  <2>1. status' = status
    BY <1>2, <1>4 DEF SweepStep, SweepSelect, SweepRollback, SweepAbort, tables
  <2> QED BY <1>1, <2>1
<1>5. ASSUME NEW a \in Admins, AdminStep(a) PROVE StatusStep(n)
  <2>1. ASSUME NEW r \in aread[a], apc[a] = "commit", CommitTables(r.node, r.target, FALSE)
        PROVE  StatusStep(n)
    <3>1. status' = [status EXCEPT ![r.node] = r.target]
      BY <2>1 DEF CommitTables
    <3> QED BY <1>0, <2>1, <3>1 DEF StatusStep
  <2>2. CASE AdminResolve(a)
    BY <1>1, <1>2, <2>1, <2>2 DEF AdminResolve
  <2>3. CASE AdminAbort(a) \/ \E m \in Nodes, resolution \in {"commit", "rollback"} :
                                AdminFetch(a, m, resolution)
    BY <1>1, <2>3 DEF AdminAbort, AdminFetch, tables
  <2> QED BY <1>5, <2>2, <2>3 DEF AdminStep
<1>6. ASSUME NEW m \in Nodes, Expire(m) \/ \E kind \in Kinds : DependentStep(m, kind)
      PROVE  StatusStep(n)
  BY <1>1, <1>6 DEF Expire, DependentStep, BeginDependent, WriteDependent, tables
<1> QED BY <1>3, <1>4, <1>5, <1>6 DEF Next, DependentStep

\* Whatever fails, crashes or is swept, node_status takes a new value only if the
\* contract applied a transition of that node to it or an administrator forced it.
THEOREM StatusIsConfirmed == Spec => ConfirmedStatusOnly
<1>1. Init => CommitIsConfirmed
  BY DEF Init, CommitIsConfirmed
<1>2. IndInv /\ CommitIsConfirmed /\ [Next]_vars
        => [\A n \in Nodes : StatusStep(n)]_vars
  BY StatusSteps
<1> QED BY <1>1, <1>2, Invariance, ConfirmedInv, PTL DEF Spec, ConfirmedStatusOnly, StatusStep

=============================================================================
