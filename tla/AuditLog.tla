------------------------------ MODULE AuditLog ------------------------------
(***************************************************************************)
(* The audit logger of src/src/audit/audit_logger.ts: entries are inserted *)
(* with retries and a deadline, queued while the database is down, and     *)
(* drained by whichever write or probe finds the database up.              *)
(***************************************************************************)
EXTENDS Naturals, Sequences, FiniteSets, SequencesExt

CONSTANTS
  Entries,         \* audit entries; each is written once
  Invalid,         \* those the table refuses (a source_ip that is no address...)
  Probes,          \* probe callbacks that may overlap: the interval does not wait
  QUEUE_CAPACITY,
  MaxOutages       \* bound: how often the database goes away

ASSUME AuditAssumption ==
  /\ QUEUE_CAPACITY \in Nat \ {0} /\ MaxOutages \in Nat
  /\ IsFiniteSet(Entries) /\ Invalid \subseteq Entries /\ Entries \cap Probes = {}

Writers == Entries \cup Probes
NoEntry == "none"

VARIABLES
  auditRows,     \* config_audit_log
  queue,         \* the bounded FIFO
  dbAvailable,   \* the logger's belief
  database,      \* "up", or "slow": statements miss the deadline, committed or not
  outages,
  errorListener, \* someone listens to 'error' on the event bus
  auditUp,       \* the process has not died of an unheard 'error'
  writer,        \* [pc, entry]: what each write() or probe callback awaits
  queueDropped   \* the counter queue_dropped_total

auditVars == <<auditRows, queue, dbAvailable, database, outages, errorListener, auditUp,
               writer, queueDropped>>

AuditInit ==
  /\ auditRows = {} /\ queue = <<>> /\ dbAvailable = TRUE
  /\ database = "up" /\ outages = 0 /\ auditUp = TRUE
  /\ errorListener \in BOOLEAN
  /\ writer = [w \in Writers |-> [pc |-> "idle", entry |-> NoEntry]]
  /\ queueDropped = 0

AuditTypeOK ==
  /\ auditRows \subseteq Entries
  /\ queue \in BoundedSeq(Entries, QUEUE_CAPACITY)
  /\ {dbAvailable, errorListener, auditUp} \subseteq BOOLEAN
  /\ database \in {"up", "slow"} /\ outages \in 0..MaxOutages
  /\ writer \in [Writers -> [pc : {"idle", "insert", "drain", "done"},
                             entry : Entries \cup {NoEntry}]]
  /\ queueDropped \in 0..Cardinality(Entries)

-----------------------------------------------------------------------------
(* Pieces of the handlers. *)

Ended(w) == [pc |-> IF w \in Entries THEN "done" ELSE "idle", entry |-> NoEntry]

\* A mutant: the eviction is not counted.
_enqueue_Silent(e) ==
  /\ queue' = Append(IF Len(queue) >= QUEUE_CAPACITY THEN Tail(queue) ELSE queue, e)
  /\ queueDropped' = queueDropped

\* _enqueue: at capacity the oldest entry is evicted and counted.
_enqueue(e) ==
  /\ queue' = Append(IF Len(queue) >= QUEUE_CAPACITY THEN Tail(queue) ELSE queue, e)
  /\ queueDropped' = queueDropped + (IF Len(queue) >= QUEUE_CAPACITY THEN 1 ELSE 0)

\* _drainQueue starts, or goes round: the head is read, not taken.
Drain(w, q, available) ==
  [writer EXCEPT ![w] = IF q # <<>> /\ available
                          THEN [pc |-> "drain", entry |-> Head(q)] ELSE Ended(w)]

\* _insertWithRetry.  A statement that misses the deadline may commit all the
\* same; the next try, and every later one, then violates the primary key.  An
\* entry the table refuses fails at every try.
InsertSucceeds(e) ==
  /\ database = "up" /\ e \notin auditRows \cup Invalid
  /\ auditRows' = auditRows \cup {e}
InsertFails(e) ==
  /\ database = "slow" \/ e \in auditRows \cup Invalid
  /\ auditRows' \in {auditRows, auditRows \cup {e}}
  /\ auditRows' # auditRows => database = "slow" /\ e \notin Invalid

-----------------------------------------------------------------------------
(* write *)

write(e) ==
  /\ auditUp /\ writer[e].pc = "idle"
  /\ IF dbAvailable
       THEN /\ writer' = [writer EXCEPT ![e] = [pc |-> "insert", entry |-> e]]
            /\ UNCHANGED <<queue, queueDropped>>
       ELSE /\ writer' = [writer EXCEPT ![e] = Ended(e)]
            /\ _enqueue(e)
  /\ UNCHANGED <<auditRows, dbAvailable, database, outages, errorListener, auditUp>>

writeInserted(e) ==
  /\ auditUp /\ writer[e].pc = "insert"
  /\ InsertSucceeds(e)
  /\ writer' = Drain(e, queue, dbAvailable)
  /\ UNCHANGED <<queue, dbAvailable, database, outages, errorListener, auditUp, queueDropped>>

\* Retries exhausted: queue mode, and an 'error' that somebody must hear.
writeFailed(e) ==
  /\ auditUp /\ writer[e].pc = "insert"
  /\ InsertFails(e)
  /\ dbAvailable' = FALSE
  /\ _enqueue(e)
  /\ auditUp' = errorListener
  /\ writer' = [writer EXCEPT ![e] = Ended(e)]
  /\ UNCHANGED <<database, outages, errorListener>>

-----------------------------------------------------------------------------
(* _drainQueue, inside write() and inside the probe. *)

\* The insert succeeded: shift() removes what is the head by now.
shifted == IF queue = <<>> THEN <<>> ELSE Tail(queue)

drained(w) ==
  /\ auditUp /\ writer[w].pc = "drain"
  /\ \/ /\ InsertSucceeds(writer[w].entry)
        /\ queue' = shifted
        /\ writer' = Drain(w, queue', dbAvailable)
        /\ UNCHANGED dbAvailable
     \/ /\ InsertFails(writer[w].entry)
        /\ dbAvailable' = FALSE
        /\ writer' = [writer EXCEPT ![w] = Ended(w)]
        /\ UNCHANGED queue
  /\ UNCHANGED <<database, outages, errorListener, auditUp, queueDropped>>

\* _startProbe: SELECT 1 answers, the logger leaves queue mode and drains.
probe(p) ==
  /\ auditUp /\ writer[p].pc = "idle" /\ database = "up"
  /\ ~dbAvailable \/ queue # <<>>
  /\ dbAvailable' = TRUE
  /\ writer' = Drain(p, queue, TRUE)
  /\ UNCHANGED <<auditRows, queue, database, outages, errorListener, auditUp, queueDropped>>

DatabaseSlows ==
  /\ database = "up" /\ outages < MaxOutages
  /\ database' = "slow" /\ outages' = outages + 1
  /\ UNCHANGED <<auditRows, queue, dbAvailable, errorListener, auditUp, writer, queueDropped>>

DatabaseRecovers ==
  /\ database = "slow" /\ database' = "up"
  /\ UNCHANGED <<auditRows, queue, dbAvailable, outages, errorListener, auditUp, writer,
                 queueDropped>>

AuditNext ==
  \/ \E e \in Entries : write(e) \/ writeInserted(e) \/ writeFailed(e)
  \/ \E w \in Writers : drained(w)
  \/ \E p \in Probes : probe(p)
  \/ DatabaseSlows \/ DatabaseRecovers

\* Statements end by their deadline, the probe interval fires, outages end.
AuditFairness ==
  /\ \A e \in Entries : WF_auditVars(writeInserted(e) \/ writeFailed(e))
  /\ \A w \in Writers : WF_auditVars(drained(w))
  /\ \A p \in Probes : WF_auditVars(probe(p))
  /\ WF_auditVars(DatabaseRecovers)

AuditSpec == AuditInit /\ [][AuditNext]_auditVars /\ AuditFairness

-----------------------------------------------------------------------------
(* Properties. *)

\* What write() was given and is neither stored nor queued is lost, and the
\* counter of dropped entries accounts for every lost one, even when an
\* eviction overtakes a drain and the drain shifts an entry it never inserted.
LossIsCounted ==
  LET lost == {e \in Entries : writer[e].pc \in {"drain", "done"}}
                \ (auditRows \cup Range(queue))
  IN  auditUp => Cardinality(lost) <= queueDropped

\* Once the database is back the queue is drained, or its head is an entry no try
\* can store: a late commit had stored it, and every further try violates the key,
\* or the table refuses it.
QueueDrainsOrSticks ==
  []<>(~auditUp \/ queue = <<>> \/ Head(queue) \in auditRows \cup Invalid)

\* audit_logger.ts promises: "Queue drained when DB recovers".
QueueDrains == []<>(~auditUp \/ queue = <<>>)
=============================================================================
