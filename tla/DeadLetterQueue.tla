--------------------------- MODULE DeadLetterQueue ---------------------------
(***************************************************************************)
(* DeadLetterQueueManager and PgDeadLetterRepository of                    *)
(* src/queue/dead_letter_queue.ts: process() calls that give up on a       *)
(* message and leave a row, and operators who retry or purge the row.      *)
(* Nothing claims a row: retry() marks it and goes on.                     *)
(*                                                                         *)
(* A statement that rejects may or may not have been committed.  The       *)
(* backoff between two attempts touches nothing and is not a step.         *)
(***************************************************************************)
EXTENDS Naturals

CONSTANTS
  Messages,          \* one process() call each
  Operators,         \* calls of retry()
  DLQ_MAX_RETRIES

ASSUME DlqAssumption == DLQ_MAX_RETRIES \in Nat

VARIABLES
  row,         \* status of each message's row; none: there is no row
  expired,     \* messages whose row is past expires_at
  proc,        \* each process() call
  operator,    \* each retry() call
  accepted,    \* history: how often the handler of a message returned
  insertLost,  \* history: messages whose INSERT failed
  purged,      \* history: messages whose row was purged
  overlap,     \* history: messages that two retries had in hand at once
  deleteLost   \* history: messages whose DELETE rejected after the handler returned

dlqVars == <<row, expired, proc, operator, accepted, insertLost, purged, overlap, deleteLost>>
dlqHistory == <<insertLost, purged, overlap, deleteLost>>

DlqTypeOK ==
  /\ row \in [Messages -> {"none", "failed", "retrying"}]
  /\ proc \in [Messages -> [pc : {"idle", "handler", "insert", "returned", "threw", "crashed"},
                            retryCount : 0..DLQ_MAX_RETRIES]]
  /\ operator \in [Operators ->
       [pc : {"idle", "get", "mark", "handler", "delete", "fail", "returned", "threw"},
        id : Messages, retryCount : 0..DLQ_MAX_RETRIES]]
  /\ accepted \in [Messages -> Nat]
  /\ {expired, insertLost, purged, overlap, deleteLost} \subseteq SUBSET Messages

DlqInit ==
  /\ row = [m \in Messages |-> "none"]
  /\ proc = [m \in Messages |-> [pc |-> "idle", retryCount |-> 0]]
  /\ operator \in [Operators -> [pc : {"idle"}, id : Messages, retryCount : {0}]]
  /\ accepted = [m \in Messages |-> 0]
  /\ expired = {} /\ insertLost = {} /\ purged = {} /\ overlap = {} /\ deleteLost = {}

-----------------------------------------------------------------------------
ProcessGoto(m, label) == proc' = [proc EXCEPT ![m].pc = label]

process(m) ==
  /\ proc[m].pc = "idle"
  /\ ProcessGoto(m, "handler")
  /\ UNCHANGED <<row, expired, operator, accepted, dlqHistory>>

HandlerReturns(m) ==
  /\ proc[m].pc = "handler"
  /\ ProcessGoto(m, "returned")
  /\ accepted' = [accepted EXCEPT ![m] = @ + 1]
  /\ UNCHANGED <<row, expired, operator, dlqHistory>>

\* The last attempt is followed by the INSERT, every other one by a backoff.
HandlerThrows(m) ==
  /\ proc[m].pc = "handler"
  /\ IF proc[m].retryCount = DLQ_MAX_RETRIES THEN ProcessGoto(m, "insert")
     ELSE proc' = [proc EXCEPT ![m].retryCount = @ + 1]
  /\ UNCHANGED <<row, expired, operator, accepted, dlqHistory>>

\* insert(); process() throws in any case: the handler's error, or the INSERT's.
insert(m) ==
  /\ proc[m].pc = "insert"
  /\ ProcessGoto(m, "threw")
  /\ \/ row' = [row EXCEPT ![m] = "failed"] /\ UNCHANGED insertLost
     \/ UNCHANGED row /\ insertLost' = insertLost \cup {m}
  /\ UNCHANGED <<expired, operator, accepted, purged, overlap, deleteLost>>

-----------------------------------------------------------------------------
OperatorGoto(o, label) == operator' = [operator EXCEPT ![o].pc = label]
InHand(o) == operator[o].pc \in {"mark", "handler", "delete", "fail"}
Update(m, status) ==
  row' = [row EXCEPT ![m] = IF @ = "none" THEN @ ELSE status]

retry(o) ==
  /\ operator[o].pc = "idle"
  /\ row[operator[o].id] # "none"   \* an id the operator has seen in list()
  /\ OperatorGoto(o, "get")
  /\ UNCHANGED <<row, expired, proc, accepted, dlqHistory>>

\* get(): a row that is gone or expired is not found.  The status is not looked at.
get(o) ==
  LET m == operator[o].id IN
  /\ operator[o].pc = "get"
  /\ OperatorGoto(o, IF row[m] # "none" /\ m \notin expired THEN "mark" ELSE "threw")
  /\ overlap' = IF row[m] # "none" /\ m \notin expired
                   /\ \E p \in Operators \ {o} : operator[p].id = m /\ InHand(p)
                THEN overlap \cup {m} ELSE overlap
  /\ UNCHANGED <<row, expired, proc, accepted, insertLost, purged, deleteLost>>

markRetrying(o) ==
  /\ operator[o].pc = "mark"
  /\ \/ Update(operator[o].id, "retrying") /\ OperatorGoto(o, "handler")
     \/ Update(operator[o].id, "retrying") /\ OperatorGoto(o, "threw")
     \/ UNCHANGED row /\ OperatorGoto(o, "threw")
  /\ UNCHANGED <<expired, proc, accepted, dlqHistory>>

delete(o) ==
  /\ operator[o].pc = "delete"
  /\ row' = [row EXCEPT ![operator[o].id] = "none"]
  /\ OperatorGoto(o, "returned")
  /\ UNCHANGED <<expired, proc, accepted, dlqHistory>>

RetryHandlerReturns(o) ==
  /\ operator[o].pc = "handler"
  /\ accepted' = [accepted EXCEPT ![operator[o].id] = @ + 1]
  /\ OperatorGoto(o, "delete")
  /\ UNCHANGED <<row, expired, proc, dlqHistory>>

\* The catch block: another attempt, or markFailed() after the last one.
Caught(o) ==
  IF operator[o].retryCount = DLQ_MAX_RETRIES THEN OperatorGoto(o, "fail")
  ELSE operator' = [operator EXCEPT ![o].pc = "handler", ![o].retryCount = @ + 1]

RetryHandlerThrows(o) ==
  /\ operator[o].pc = "handler"
  /\ Caught(o)
  /\ UNCHANGED <<row, expired, proc, accepted, dlqHistory>>

\* The DELETE is inside the try block: when it rejects, the handler runs again.
deleteRejects(o) ==
  /\ operator[o].pc = "delete"
  /\ \/ UNCHANGED row
     \/ row' = [row EXCEPT ![operator[o].id] = "none"]
  /\ deleteLost' = deleteLost \cup {operator[o].id}
  /\ Caught(o)
  /\ UNCHANGED <<expired, proc, accepted, insertLost, purged, overlap>>

\* Fault: a retry that fails for good deletes the row.
markFailed_Deletes(o) ==
  /\ operator[o].pc = "fail"
  /\ row' = [row EXCEPT ![operator[o].id] = "none"]
  /\ OperatorGoto(o, "threw")
  /\ UNCHANGED <<expired, proc, accepted, dlqHistory>>

\* markFailed(), which may reject as well: retry() throws.
markFailed(o) ==
  /\ operator[o].pc = "fail"
  /\ \/ Update(operator[o].id, "failed")
     \/ UNCHANGED row
  /\ OperatorGoto(o, "threw")
  /\ UNCHANGED <<expired, proc, accepted, dlqHistory>>

\* An operator purges a row, or it expires and purgeExpired() deletes it.
purge(m) ==
  /\ row[m] # "none"
  /\ row' = [row EXCEPT ![m] = "none"]
  /\ purged' = purged \cup {m}
  /\ UNCHANGED <<expired, proc, operator, accepted, insertLost, overlap, deleteLost>>

Expire(m) ==
  /\ row[m] # "none" /\ m \notin expired
  /\ expired' = expired \cup {m}
  /\ UNCHANGED <<row, proc, operator, accepted, dlqHistory>>

purgeExpired ==
  /\ \E m \in expired : row[m] # "none"
  /\ row' = [m \in Messages |-> IF m \in expired THEN "none" ELSE row[m]]
  /\ purged' = purged \cup {m \in expired : row[m] # "none"}
  /\ UNCHANGED <<expired, proc, operator, accepted, insertLost, overlap, deleteLost>>

-----------------------------------------------------------------------------
ProcessStep(m) == HandlerReturns(m) \/ HandlerThrows(m) \/ insert(m)

RetryStep(o) ==
  \/ get(o) \/ markRetrying(o) \/ RetryHandlerReturns(o) \/ RetryHandlerThrows(o)
  \/ delete(o) \/ deleteRejects(o) \/ markFailed(o)

RetentionStep == purgeExpired \/ \E m \in Messages : purge(m) \/ Expire(m)

DlqNext(messages) ==
  \/ \E m \in messages : process(m) \/ ProcessStep(m)
  \/ \E o \in Operators : operator[o].id \in messages /\ (retry(o) \/ RetryStep(o))
  \/ RetentionStep

-----------------------------------------------------------------------------
\* A message that process() gave up on is not silently lost (migration 004): its
\* row stays, whatever retries do to it and however they fail, until it is purged
\* or a retry has delivered it; only a failed INSERT loses the message.
FailureIsKept ==
  \A m \in Messages :
    proc[m].pc = "threw" =>
      row[m] # "none" \/ accepted[m] > 0 \/ m \in insertLost \cup purged

\* A message is handled twice only when two retries overlap, for nothing claims the
\* row, or when the DELETE rejected and the catch block ran the handler again.
HandledOnce ==
  \A m \in Messages : accepted[m] > 1 => m \in overlap \cup deleteLost
=============================================================================
