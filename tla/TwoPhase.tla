------------------------------ MODULE TwoPhase ------------------------------
(***************************************************************************)
(* The two-phase node-status protocol of src/core/state: transition() and  *)
(* resolveTentative() of TwoPhaseController, RollbackHandler.execute() and *)
(* the sweep of TentativeCleanupWorker, running in any number of           *)
(* processes over the tables of src/database/node_status.sql.              *)
(*                                                                         *)
(* One step is what happens between two awaits: one SQL statement or one   *)
(* transaction (both atomic in PostgreSQL), or the answer of the Soroban   *)
(* RPC.  An invocation of transition() is a member of Calls; its           *)
(* idempotency key (a hash of a fresh UUID) is unique, so the call itself  *)
(* stands for the key.  The 30 s TTL is the step Expire.                   *)
(***************************************************************************)
EXTENDS Naturals, FiniteSets

CONSTANTS
  Nodes,        \* node ids that have a row in node_status
  Calls,        \* invocations of transition(); also the idempotency keys
  Workers,      \* concurrent sweeps of TentativeCleanupWorker
  Admins,       \* invocations of resolveTentative()
  NoCall,       \* no key: the node never had a tentative row
  Kinds,        \* dependent tables the environment writes to
  InitialStatuses, \* committed statuses the nodes may start from
  BatchSize,    \* LIMIT of the sweep's SELECT
  Poison,       \* nodes whose rollback transaction fails every time
  TimelyCalls   \* TRUE: a call never runs longer than the TTL of its row

\* The tables the rollback cascades to: reward_tx, node_attestations and
\* reputation_adjustments.
AllKinds == {"reward", "attest", "adjust"}

NodeStatus == {"Provisioned", "Pending", "Active", "Slashed", "Archived"}

ASSUME ConstantsAssumption ==
  /\ Nodes # {}
  /\ NoCall \notin Calls
  /\ Kinds \subseteq AllKinds
  /\ InitialStatuses \subseteq NodeStatus
  /\ BatchSize \in Nat \ {0}
  /\ Poison \subseteq Nodes
  /\ TimelyCalls \in BOOLEAN

VARIABLES
  status,       \* node_status: the committed status of each node
  row,          \* node_status_tentative: the row of each node
  pc,           \* where each call of transition() is, or how it ended
  node,         \* argument nodeId of each call
  target,       \* argument targetStatus of each call
  attempt,      \* attempt counter of the commit loop of each call
  chain,        \* calls whose transaction the contract has applied
  logged,       \* keys recorded in two_phase_rollback_log
  claims,       \* history: how often the row with each key was rolled back
  cascade,      \* rows of the dependent tables, of each node
  begun,        \* <<kind, key>>: dependent rows begun and not yet written
  claimed,      \* rows a sweep has selected and not yet processed
  apc,          \* where each call of resolveTentative() is
  aread         \* the row each call of resolveTentative() has fetched

vars == <<status, row, pc, node, target, attempt, chain, logged, claims,
          cascade, begun, claimed, apc, aread>>
tables == <<status, row, logged, claims, cascade>>
callVars == <<pc, node, target, attempt, chain>>
adminVars == <<apc, aread>>

VALID_TRANSITIONS ==
  [s \in NodeStatus |->
     CASE s = "Provisioned" -> {"Pending"}
       [] s = "Pending"     -> {"Active"}
       [] s = "Active"      -> {"Slashed", "Archived"}
       [] s = "Slashed"     -> {"Archived"}
       [] s = "Archived"    -> {}]

COMMIT_RETRY_ATTEMPTS == 2

\* What a sweep and resolveTentative() remember of a row they have read.
Claim == [node : Nodes, key : Calls, target : NodeStatus, before : SUBSET Calls]

\* A dependent row: the row of the tentative table it is about (the one its writer
\* saw) and the window it is dated in: the row in the table at its created_at.
Dependent == [kind : Kinds, about : Calls, window : Calls]

\* A tentative row.  marked: error_detail is COMMIT_FAILED_ONCHAIN_CONFIRMED;
\* before: the calls past Phase 1 when it was written, which orders the rows by
\* their expires_at.
Row == [state   : {"NONE", "PENDING", "COMMITTED", "ROLLED_BACK"},
        target  : NodeStatus,
        key     : Calls \cup {NoCall},
        marked  : BOOLEAN,
        expired : BOOLEAN,
        before  : SUBSET Calls]

Running == {"phase1", "rpc", "commit", "mark", "rollback"}
Ended == {"committed", "commitFailed", "rolledBack", "threw", "crashed"}

TypeOK ==
  /\ status \in [Nodes -> NodeStatus]
  /\ row \in [Nodes -> Row]
  /\ pc \in [Calls -> {"idle"} \cup Running \cup Ended]
  /\ node \in [Calls -> Nodes]
  /\ target \in [Calls -> NodeStatus]
  /\ attempt \in [Calls -> 1..COMMIT_RETRY_ATTEMPTS]
  /\ chain \subseteq Calls
  /\ logged \subseteq Calls
  /\ claims \in [Calls -> Nat]
  /\ cascade \in [Nodes -> SUBSET Dependent]
  /\ begun \in [Nodes -> SUBSET (Kinds \X Calls)]
  /\ claimed \in [Workers -> SUBSET Claim]
  /\ apc \in [Admins -> {"idle", "commit", "rollback", "done"}]
  /\ aread \in [Admins -> SUBSET Claim]

Init ==
  /\ status \in [Nodes -> InitialStatuses]
  /\ row = [n \in Nodes |-> [state |-> "NONE", target |-> status[n],
                             key |-> NoCall, marked |-> FALSE,
                             expired |-> FALSE, before |-> {}]]
  /\ pc = [c \in Calls |-> "idle"]
  /\ node = [c \in Calls |-> CHOOSE n \in Nodes : TRUE]
  /\ target = [c \in Calls |-> "Provisioned"]
  /\ attempt = [c \in Calls |-> 1]
  /\ chain = {}
  /\ logged = {}
  /\ claims = [c \in Calls |-> 0]
  /\ cascade = [n \in Nodes |-> {}]
  /\ begun = [n \in Nodes |-> {}]
  /\ claimed = [w \in Workers |-> {}]
  /\ apc = [a \in Admins |-> "idle"]
  /\ aread = [a \in Admins |-> {}]

-----------------------------------------------------------------------------
(***************************************************************************)
(* RollbackHandler.execute(n, k, t, reason): one transaction.  It claims   *)
(* whatever row of node n is PENDING, whether or not its key is k; it logs *)
(* k, deletes the reward_tx rows and the attestations of t written since   *)
(* the claimed row was created, and reverts the adjustments tagged k.      *)
(***************************************************************************)
Reverted(n, k, t) ==
  {x \in cascade[n] :
     \/ x.kind = "reward" /\ x.window = row[n].key
     \/ x.kind = "attest" /\ x.window = row[n].key /\ target[x.about] = t
     \/ x.kind = "adjust" /\ x.about = k}

\* Fault: the claim also matches a row that is already ROLLED_BACK.
RollbackExecute_NoCas(n, k, t) ==
  IF row[n].state # "COMMITTED"
  THEN /\ row' = [row EXCEPT ![n].state = "ROLLED_BACK", ![n].marked = FALSE]
       /\ logged' = logged \cup {k}
       /\ claims' = [claims EXCEPT ![row[n].key] = @ + 1]
       /\ cascade' = [cascade EXCEPT ![n] = @ \ Reverted(n, k, t)]
       /\ UNCHANGED status
  ELSE UNCHANGED tables

RollbackExecute(n, k, t) ==
  IF row[n].state = "PENDING"
  THEN /\ row' = [row EXCEPT ![n].state = "ROLLED_BACK",
                             ![n].marked = FALSE]
       /\ logged' = logged \cup {k}
       /\ claims' = [claims EXCEPT ![row[n].key] = @ + 1]
       /\ cascade' = [cascade EXCEPT ![n] = @ \ Reverted(n, k, t)]
       /\ UNCHANGED status
  ELSE UNCHANGED tables

\* Fault: the second UPDATE of the commit transaction is missing.
CommitTables_RowLeftPending(n, t, m) ==
  /\ status' = [status EXCEPT ![n] = t]
  /\ UNCHANGED <<row, logged, claims, cascade>>

\* The transaction of the commit path and of resolveTentative("commit"): both
\* UPDATEs select the row by node_id alone.  m: error_detail is still the mark.
CommitTables(n, t, m) ==
  /\ status' = [status EXCEPT ![n] = t]
  /\ row' = [row EXCEPT ![n].state = "COMMITTED", ![n].marked = m]
  /\ UNCHANGED <<logged, claims, cascade>>

Goto(c, label) == pc' = [pc EXCEPT ![c] = label]

-----------------------------------------------------------------------------
(***************************************************************************)
(* transition(nodeId, targetStatus)                                        *)
(***************************************************************************)

\* fetchCommittedStatus and the check against VALID_TRANSITIONS.
Start(c, n, t) ==
  /\ pc[c] = "idle"
  /\ node' = [node EXCEPT ![c] = n]
  /\ target' = [target EXCEPT ![c] = t]
  /\ Goto(c, IF t \in VALID_TRANSITIONS[status[n]] THEN "phase1" ELSE "threw")
  /\ UNCHANGED <<attempt, chain, tables, begun, claimed, adminVars>>

\* The row Phase 1 writes; its expires_at is later than that of every other row.
NewRow(c) == [state |-> "PENDING", target |-> target[c], key |-> c,
              marked |-> FALSE, expired |-> FALSE,
              before |-> {d \in Calls : pc[d] \notin {"idle", "phase1"}}]

\* The INSERT guarded by WHERE NOT EXISTS (... state = 'PENDING').
InsertTentative(c) ==
  LET n == node[c] IN
  /\ row[n].state # "PENDING"
  /\ row' = [row EXCEPT ![n] = NewRow(c)]
  /\ UNCHANGED <<status, logged, claims, cascade>>

\* Phase 1: the INSERT wrote the row.
Phase1(c) ==
  /\ pc[c] = "phase1"
  /\ InsertTentative(c)
  /\ Goto(c, "rpc")
  /\ UNCHANGED <<node, target, attempt, chain, begun, claimed, adminVars>>

\* rowCount 0 (a PENDING row exists), or the statement fails: throw.  When only
\* its answer is lost, the row is there all the same.
Phase1Refused(c) ==
  /\ pc[c] = "phase1"
  /\ \/ UNCHANGED tables
     \/ InsertTentative(c)
  /\ Goto(c, "threw")
  /\ UNCHANGED <<node, target, attempt, chain, begun, claimed, adminVars>>

\* Phase 2: sendTransaction confirms.
RpcConfirmed(c) ==
  /\ pc[c] = "rpc"
  /\ chain' = chain \cup {c}
  /\ Goto(c, "commit")
  /\ UNCHANGED <<node, target, attempt, tables, begun, claimed, adminVars>>

\* Fault: an RPC exception does not set contractError.
RpcFailed_Ignored(c) ==
  /\ pc[c] = "rpc"
  /\ Goto(c, "commit")
  /\ UNCHANGED <<node, target, attempt, chain, tables, begun, claimed, adminVars>>

\* Phase 2: the contract rejects, or the RPC throws or times out.  After a
\* timeout the transaction may have been applied all the same.
RpcFailed(c) ==
  /\ pc[c] = "rpc"
  /\ \/ UNCHANGED chain
     \/ chain' = chain \cup {c}
  /\ Goto(c, "rollback")
  /\ UNCHANGED <<node, target, attempt, tables, begun, claimed, adminVars>>

\* Commit path: the transaction succeeds.
Commit(c) ==
  /\ pc[c] = "commit"
  /\ CommitTables(node[c], target[c], row[node[c]].marked)
  /\ Goto(c, "committed")
  /\ UNCHANGED <<node, target, attempt, chain, begun, claimed, adminVars>>

\* Fault: one attempt too many.
CommitFails_OffByOne(c) ==
  /\ pc[c] = "commit"
  /\ IF attempt[c] <= COMMIT_RETRY_ATTEMPTS
     THEN attempt' = [attempt EXCEPT ![c] = @ + 1] /\ UNCHANGED pc
     ELSE Goto(c, "mark") /\ UNCHANGED attempt
  /\ UNCHANGED <<node, target, chain, tables, begun, claimed, adminVars>>

\* Commit path: the transaction fails, or is applied and its answer lost; retry,
\* or give up after the last one.
CommitFails(c) ==
  /\ pc[c] = "commit"
  /\ \/ UNCHANGED tables
     \/ CommitTables(node[c], target[c], row[node[c]].marked)
  /\ IF attempt[c] < COMMIT_RETRY_ATTEMPTS
     THEN attempt' = [attempt EXCEPT ![c] = @ + 1] /\ UNCHANGED pc
     ELSE Goto(c, "mark") /\ UNCHANGED attempt
  /\ UNCHANGED <<node, target, chain, begun, claimed, adminVars>>

\* The UPDATE that marks the node's PENDING row, best effort.
MarkCommitFailed(c) ==
  LET n == node[c] IN
  /\ pc[c] = "mark"
  /\ \/ row' = [row EXCEPT ![n].marked = @ \/ row[n].state = "PENDING"]
     \/ UNCHANGED row
  /\ Goto(c, "commitFailed")
  /\ UNCHANGED <<node, target, attempt, chain, status, logged, claims, cascade,
                 begun, claimed, adminVars>>

\* Rollback path: returns rolledBack: true whether or not a row was claimed.
Rollback(c) ==
  /\ pc[c] = "rollback" /\ node[c] \notin Poison
  /\ RollbackExecute(node[c], c, target[c])
  /\ Goto(c, "rolledBack")
  /\ UNCHANGED <<node, target, attempt, chain, begun, claimed, adminVars>>

\* The rollback transaction fails, or is applied and its answer lost:
\* transition() rejects.
RollbackFails(c) ==
  /\ pc[c] = "rollback"
  /\ \/ UNCHANGED tables
     \/ node[c] \notin Poison /\ RollbackExecute(node[c], c, target[c])
  /\ Goto(c, "threw")
  /\ UNCHANGED <<node, target, attempt, chain, begun, claimed, adminVars>>

\* The process of the call dies between two awaits.  A transaction already
\* sent to the RPC may still be applied.
Crash(c) ==
  /\ pc[c] \in Running
  /\ \/ UNCHANGED chain
     \/ pc[c] = "rpc" /\ chain' = chain \cup {c}
  /\ Goto(c, "crashed")
  /\ UNCHANGED <<node, target, attempt, tables, begun, claimed, adminVars>>

-----------------------------------------------------------------------------
(***************************************************************************)
(* Time, and the writers of the dependent tables.                          *)
(***************************************************************************)

\* NOW() passes expires_at of a PENDING row.
Expire(n) ==
  /\ row[n].state = "PENDING" /\ ~row[n].expired
  /\ TimelyCalls => pc[row[n].key] \notin Running
  /\ row' = [row EXCEPT ![n].expired = TRUE]
  /\ UNCHANGED <<status, logged, claims, cascade, callVars, begun, claimed, adminVars>>

\* getNodeStatus(n).tentative: a PENDING row that has not expired.
TentativeVisible(n) == row[n].state = "PENDING" /\ ~row[n].expired

\* The writers of the dependent tables.  RewardDistributor pays whatever the node's
\* status; its rows are dated with the BEGIN of its transaction (DEFAULT NOW()).
\* Nothing in the repository writes the other two tables: their writers see the
\* tentative status through getNodeStatus().
BeginDependent(n, kind) ==
  /\ IF kind = "reward" THEN row[n].key # NoCall ELSE TentativeVisible(n)
  /\ begun' = [begun EXCEPT ![n] = @ \cup {<<kind, row[n].key>>}]
  /\ UNCHANGED <<tables, callVars, claimed, adminVars>>

\* The row appears: an attestation of the status that was seen, dated now, or an
\* adjustment tagged with the key that was seen, or the payment commits.
WriteDependent(n, kind, k) ==
  /\ <<kind, k>> \in begun[n]
  /\ begun' = [begun EXCEPT ![n] = @ \ {<<kind, k>>}]
  /\ cascade' = [cascade EXCEPT ![n] = @ \cup
                   {[kind |-> kind, about |-> k,
                     window |-> IF kind = "reward" THEN k ELSE row[n].key]}]
  /\ UNCHANGED <<status, row, logged, claims, callVars, claimed, adminVars>>

-----------------------------------------------------------------------------
(***************************************************************************)
(* TentativeCleanupWorker.sweep()                                          *)
(***************************************************************************)

\* Fault: the condition on error_detail is inverted.
Sweepable_OnlyMarked == {n \in Nodes : /\ row[n].state = "PENDING"
                                       /\ row[n].expired /\ row[n].marked}

Sweepable == {n \in Nodes : /\ row[n].state = "PENDING"
                            /\ row[n].expired
                            /\ ~row[n].marked}

ClaimOf(n) == [node |-> n, key |-> row[n].key, target |-> row[n].target,
               before |-> row[n].before]

\* The SELECT ... ORDER BY expires_at LIMIT ... FOR UPDATE SKIP LOCKED.  It runs
\* outside a transaction: its row locks are gone when the rows are processed.
SweepSelect(w) ==
  /\ claimed[w] = {}
  /\ \E S \in SUBSET Sweepable :
       /\ S # {}
       /\ Cardinality(S) <= BatchSize
       /\ Cardinality(S) < BatchSize => S = Sweepable
       /\ \A n \in S, m \in Sweepable \ S : row[n].before \subseteq row[m].before
       /\ claimed' = [claimed EXCEPT ![w] = {ClaimOf(n) : n \in S}]
  /\ UNCHANGED <<tables, callVars, begun, adminVars>>

\* One iteration of the loop over the selected rows, the oldest first.
SweepRollback(w) ==
  /\ \E r \in claimed[w] :
       /\ \A q \in claimed[w] : r.before \subseteq q.before
       /\ r.node \notin Poison
       /\ RollbackExecute(r.node, r.key, r.target)
       /\ claimed' = [claimed EXCEPT ![w] = @ \ {r}]
  /\ UNCHANGED <<callVars, begun, adminVars>>

\* execute() rejects, or the process dies: the rest of the batch is dropped.
SweepAbort(w) ==
  /\ claimed[w] # {}
  /\ claimed' = [claimed EXCEPT ![w] = {}]
  /\ UNCHANGED <<tables, callVars, begun, adminVars>>

-----------------------------------------------------------------------------
(***************************************************************************)
(* resolveTentative(nodeId, resolution), POST /internal/state/...          *)
(***************************************************************************)

\* fetchTentativeRow; a missing or resolved row returns no_pending_row.
AdminFetch(a, n, resolution) ==
  /\ apc[a] = "idle"
  /\ row[n].state = "PENDING"
  /\ apc' = [apc EXCEPT ![a] = resolution]
  /\ aread' = [aread EXCEPT ![a] = {ClaimOf(n)}]
  /\ UNCHANGED <<tables, callVars, begun, claimed>>

\* Either transaction; apc says which.
AdminResolve(a) ==
  /\ \E r \in aread[a] :
       \/ apc[a] = "commit" /\ CommitTables(r.node, r.target, FALSE)
       \/ /\ apc[a] = "rollback" /\ r.node \notin Poison
          /\ RollbackExecute(r.node, r.key, r.target)
  /\ apc' = [apc EXCEPT ![a] = "done"]
  /\ UNCHANGED <<aread, callVars, begun, claimed>>

\* The transaction fails, or the process dies.
AdminAbort(a) ==
  /\ apc[a] \in {"commit", "rollback"}
  /\ apc' = [apc EXCEPT ![a] = "done"]
  /\ UNCHANGED <<aread, tables, callVars, begun, claimed>>

-----------------------------------------------------------------------------
CallStep(c) ==
  \/ \E n \in Nodes, t \in NodeStatus : Start(c, n, t)
  \/ Phase1(c) \/ Phase1Refused(c) \/ RpcConfirmed(c)
  \/ RpcFailed(c) \/ Commit(c) \/ CommitFails(c) \/ MarkCommitFailed(c)
  \/ Rollback(c) \/ RollbackFails(c) \/ Crash(c)

SweepStep(w) == SweepSelect(w) \/ SweepRollback(w) \/ SweepAbort(w)

AdminStep(a) ==
  \/ \E n \in Nodes, resolution \in {"commit", "rollback"} :
       AdminFetch(a, n, resolution)
  \/ AdminResolve(a)
  \/ AdminAbort(a)

Next ==
  \/ \E c \in Calls : CallStep(c)
  \/ \E n \in Nodes : Expire(n)
  \/ \E n \in Nodes, kind \in Kinds :
       \/ BeginDependent(n, kind)
       \/ \E k \in Calls : WriteDependent(n, kind, k)
  \/ \E w \in Workers : SweepStep(w)
  \/ \E a \in Admins : AdminStep(a)

Spec == Init /\ [][Next]_vars

(***************************************************************************)
(* Fairness.  Time passes (Expire); a running call takes its next step     *)
(* (awaits settle); the interval timer of a worker fires again and again,  *)
(* its sweep ends, and a rollback transaction does not fail for ever but   *)
(* for the nodes in Poison (strong fairness).                              *)
(* Nothing is assumed of callers and administrators.                       *)
(***************************************************************************)
Fairness ==
  /\ \A n \in Nodes : WF_vars(Expire(n))
  /\ \A c \in Calls : WF_vars(pc[c] \in Running /\ CallStep(c))
  /\ \A w \in Workers : /\ WF_vars(SweepSelect(w))
                        /\ WF_vars(SweepRollback(w) \/ SweepAbort(w))
                        /\ SF_vars(SweepRollback(w))

LiveSpec == Spec /\ Fairness

-----------------------------------------------------------------------------
(***************************************************************************)
(* Properties of every deployment.                                         *)
(***************************************************************************)

\* The compare-and-swap of RollbackHandler.execute() works: however many calls,
\* sweeps and administrators race, one tentative row is rolled back at most once.
SingleClaim == \A c \in Calls : claims[c] <= 1

\* A call that reported committed or rolledBack leaves no PENDING row of its own
\* behind: a PENDING row belongs to a call that runs, crashed, threw or gave up
\* committing, so it is one that the sweep or an administrator must resolve.
PendingHasOwner ==
  \A n \in Nodes : row[n].state = "PENDING" =>
    /\ node[row[n].key] = n
    /\ pc[row[n].key] \in {"rpc", "commit", "mark", "rollback",
                           "commitFailed", "threw", "crashed"}

\* node_status takes a new value only when the contract applied a transition of
\* that node to that value, or an administrator forces the commit.
ConfirmedStatusOnly ==
  [][\A n \in Nodes : status'[n] # status[n] =>
       \/ \E c \in chain : node[c] = n /\ target[c] = status'[n]
       \/ \E a \in Admins : apc[a] = "commit" /\ \E r \in aread[a] : r.node = n]_vars

\* No tentative row stays PENDING for ever, whatever crashes: it is resolved, or
\* marked for an administrator after the commit path gave up.  The one thing that
\* can keep a row from being swept is a row whose own rollback fails every time:
\* the sweep stops at it, and it comes first again in the next one.
PendingIsResolved ==
  <>[](Sweepable \cap Poison = {}) =>
    \A n \in Nodes \ Poison :
      row[n].state = "PENDING" ~> (row[n].state # "PENDING" \/ row[n].marked)

-----------------------------------------------------------------------------
(***************************************************************************)
(* Statements of the repository that the code does not keep.               *)
(***************************************************************************)

\* A row marked COMMIT_FAILED_ONCHAIN_CONFIRMED is left by the cleanup worker to
\* an administrator: no sweep rolls it back.
MarkedRowIsKept ==
  [][\A w \in Workers : \A r \in claimed[w] \ claimed'[w] :
       row[r.node].state = "PENDING" /\ row[r.node].marked =>
         row'[r.node].state # "ROLLED_BACK"]_vars

\* node_status moves only along the directed edges of the state machine.
LegalEdges ==
  [][\A n \in Nodes : status'[n] # status[n] =>
       status'[n] \in VALID_TRANSITIONS[status[n]]]_vars

\* A sweep rolls back the row it selected or, if that row is resolved by then,
\* nothing.
SweepClaimsItsRow ==
  [][\A w \in Workers : \A r \in claimed[w] \ claimed'[w] :
       row'[r.node].state # row[r.node].state => row[r.node].key = r.key]_vars
=============================================================================
