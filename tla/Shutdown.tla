------------------------------ MODULE Shutdown ------------------------------
(***************************************************************************)
(* shutdown.js: the handler of SIGTERM and SIGINT.  It closes the server,  *)
(* which waits for the open connections, drains, persists, and exits; a    *)
(* force timer runs from the first signal on.                              *)
(***************************************************************************)
EXTENDS Integers, FiniteSets

CONSTANT Sockets

VARIABLES
  activeConnections,
  refused,         \* sockets that came after the server was closed
  shutdown_,       \* stage of handleShutdown()
  persist,         \* onPersist(): absent, not called, running, done or failed
  exitCode         \* -1 while the process runs

shutdownVars == <<activeConnections, refused, shutdown_, persist, exitCode>>

ShutdownTypeOK ==
  /\ activeConnections \subseteq Sockets /\ refused \subseteq Sockets
  /\ shutdown_ \in {"serving", "closing", "draining", "persisting"}
  /\ persist \in {"absent", "idle", "running", "done", "failed"}
  /\ exitCode \in {-1, 0, 1}

ShutdownInit ==
  /\ activeConnections = {} /\ refused = {} /\ shutdown_ = "serving"
  /\ persist \in {"absent", "idle"} /\ exitCode = -1

-----------------------------------------------------------------------------
Up == exitCode = -1

\* A closed server accepts no connection.
Accept(s) ==
  /\ Up /\ s \notin activeConnections \cup refused
  /\ IF shutdown_ = "serving"
     THEN activeConnections' = activeConnections \cup {s} /\ UNCHANGED refused
     ELSE refused' = refused \cup {s} /\ UNCHANGED activeConnections
  /\ UNCHANGED <<shutdown_, persist, exitCode>>

\* The client, or the end of the answer, closes the socket.
Close(s) ==
  /\ Up /\ s \in activeConnections
  /\ activeConnections' = activeConnections \ {s}
  /\ UNCHANGED <<refused, shutdown_, persist, exitCode>>

\* A second signal finds isShuttingDown set.
handleShutdown ==
  /\ Up /\ shutdown_ = "serving"
  /\ shutdown_' = "closing"
  /\ UNCHANGED <<activeConnections, refused, persist, exitCode>>

\* Fault: the close is not awaited.
serverClosed_NotAwaited ==
  /\ Up /\ shutdown_ = "closing"
  /\ shutdown_' = "draining"
  /\ UNCHANGED <<activeConnections, refused, persist, exitCode>>

\* The callback of server.close() comes when the last connection has ended; no
\* timer of the drain stage runs before that.
serverClosed ==
  /\ Up /\ shutdown_ = "closing" /\ activeConnections = {}
  /\ shutdown_' = "draining"
  /\ UNCHANGED <<activeConnections, refused, persist, exitCode>>

\* The poll finds no connection, or drainTimeout passes; onPersist() is called.
Drained ==
  /\ Up /\ shutdown_ = "draining"
  /\ shutdown_' = "persisting"
  /\ persist' = IF persist = "idle" THEN "running" ELSE persist
  /\ UNCHANGED <<activeConnections, refused, exitCode>>

PersistEnds ==
  /\ Up /\ persist = "running"
  /\ persist' \in {"done", "failed"}
  /\ UNCHANGED <<activeConnections, refused, shutdown_, exitCode>>

\* The outcome of onPersist(), or persistTimeout.
Exit ==
  /\ Up /\ shutdown_ = "persisting"
  /\ \/ persist \in {"absent", "done"} /\ exitCode' = 0
     \/ persist \in {"running", "failed"} /\ exitCode' = 1
  /\ UNCHANGED <<activeConnections, refused, shutdown_, persist>>


ForceTimeout ==
  /\ Up /\ shutdown_ # "serving"
  /\ exitCode' = 1
  /\ UNCHANGED <<activeConnections, refused, shutdown_, persist>>

ShutdownNext ==
  \/ \E s \in Sockets : Accept(s) \/ Close(s)
  \/ handleShutdown \/ serverClosed \/ Drained \/ PersistEnds \/ Exit \/ ForceTimeout

\* Only the timers are certain: a client may keep its connection, onPersist() may hang.
ShutdownFairness == WF_shutdownVars(ForceTimeout)

-----------------------------------------------------------------------------
\* Exit code 0 means that every connection that had been accepted was served to its
\* end and that the state was persisted.
CleanExit == exitCode = 0 => activeConnections = {} /\ persist \in {"absent", "done"}

\* After a signal the process ends, whatever its clients and onPersist() do.
ShutdownEnds == shutdown_ # "serving" ~> exitCode # -1
=============================================================================
