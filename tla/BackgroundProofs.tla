-------------------------- MODULE BackgroundProofs --------------------------
(***************************************************************************)
(* Proofs about the stores and background workers of MCBackground, each    *)
(* for every value of its constants.                                       *)
(***************************************************************************)
EXTENDS MCBackground, SumProofs, SequenceTheorems

-----------------------------------------------------------------------------
(***************************************************************************)
(* Dead-letter queue                                                       *)
(***************************************************************************)

\* Rows and retries come after process() has thrown.
RowsFollow == \A m \in Messages : row[m] # "none" => proc[m].pc = "threw"
RetriesFollow ==
  \A o \in Operators : operator[o].pc # "idle" => proc[operator[o].id].pc = "threw"

\* Until then the handler has returned at most once, and then no row follows.
ReturnsOnce ==
  \A m \in Messages :
    proc[m].pc # "threw" => accepted[m] = (IF proc[m].pc = "returned" THEN 1 ELSE 0)

\* Whoever deletes a row has had it handled.
DeletesHandled ==
  \A o \in Operators : operator[o].pc = "delete" => accepted[operator[o].id] > 0

\* The excuses of HandledOnce.
Excused == overlap \cup deleteLost

\* Two retries that have one row in hand were noticed.
SoleRetry ==
  \A o, p \in Operators :
    InHand(o) /\ InHand(p) /\ operator[o].id = operator[p].id /\ o # p
      => operator[o].id \in overlap

\* A retry about to call the handler is the first to have it return.
FirstReturn ==
  \A o \in Operators :
    operator[o].pc \in {"mark", "handler"} =>
      accepted[operator[o].id] = 0 \/ operator[o].id \in Excused

\* A row whose message was handled is about to be deleted.
HandledRowGoes ==
  \A m \in Messages :
    row[m] # "none" /\ accepted[m] > 0 /\ m \notin Excused =>
      \E o \in Operators : operator[o].id = m /\ operator[o].pc = "delete"

DlqInv ==
  /\ DlqTypeOK
  /\ RowsFollow /\ RetriesFollow /\ ReturnsOnce /\ DeletesHandled
  /\ SoleRetry /\ FirstReturn /\ HandledRowGoes
  /\ FailureIsKept /\ HandledOnce

OperatorRecord ==
  [pc : {"idle", "get", "mark", "handler", "delete", "fail", "returned", "threw"},
   id : Messages, retryCount : 0..DLQ_MAX_RETRIES]

\* What a step of process() may do to its own record, and a step of retry() to its.
ProcMoves(m, next) ==
  /\ proc' \in [Messages -> [pc : {"idle", "handler", "insert", "returned", "threw", "crashed"},
                             retryCount : 0..DLQ_MAX_RETRIES]]
  /\ proc'[m].pc = next
  /\ \A k \in Messages \ {m} : proc'[k] = proc[k]

OperatorMoves(o, next) ==
  /\ operator' \in [Operators -> OperatorRecord]
  /\ operator'[o].pc = next /\ operator'[o].id = operator[o].id
  /\ \A p \in Operators \ {o} : operator'[p] = operator[p]

\* The fields of the records (DlqTypeOK).
LEMMA DlqTypes ==
  ASSUME DlqTypeOK
  PROVE  /\ \A m \in Messages : /\ proc[m].retryCount \in 0..DLQ_MAX_RETRIES
                                /\ accepted[m] \in Nat
                                /\ row[m] \in {"none", "failed", "retrying"}
         /\ \A o \in Operators : /\ operator[o] \in OperatorRecord
                                 /\ operator[o].id \in Messages
                                 /\ operator[o].retryCount \in 0..DLQ_MAX_RETRIES
BY DEF DlqTypeOK, OperatorRecord

\* ProcessGoto() moves the one process() call.
LEMMA ProcessGotoMoves ==
  ASSUME DlqTypeOK, NEW m \in Messages,
         NEW next \in {"idle", "handler", "insert", "returned", "threw", "crashed"},
         ProcessGoto(m, next)
  PROVE  ProcMoves(m, next)
BY DEF DlqTypeOK, ProcessGoto, ProcMoves

\* OperatorGoto() moves the one retry() call.
LEMMA OperatorGotoMoves ==
  ASSUME DlqTypeOK, NEW o \in Operators,
         NEW next \in {"idle", "get", "mark", "handler", "delete", "fail", "returned", "threw"},
         OperatorGoto(o, next)
  PROVE  OperatorMoves(o, next)
BY DEF DlqTypeOK, OperatorGoto, OperatorMoves, OperatorRecord

\* The catch block of retry() leads to the handler or to markFailed().
LEMMA CaughtMoves ==
  ASSUME DlqTypeOK, NEW o \in Operators, Caught(o)
  PROVE  OperatorMoves(o, "handler") \/ OperatorMoves(o, "fail")
<1>1. CASE operator[o].retryCount = DLQ_MAX_RETRIES
  BY <1>1, OperatorGotoMoves DEF Caught
<1>2. CASE operator[o].retryCount # DLQ_MAX_RETRIES
  <2> DEFINE n == [operator[o] EXCEPT !.pc = "handler", !.retryCount = @ + 1]
  <2>1. operator' = [operator EXCEPT ![o] = n]
    BY <1>2, DlqTypes DEF Caught, DlqTypeOK
  <2>2. operator[o].retryCount + 1 \in 0..DLQ_MAX_RETRIES
    BY <1>2, DlqTypes, DlqAssumption
  <2>3. n \in OperatorRecord /\ n.pc = "handler" /\ n.id = operator[o].id
    BY <2>2, DlqTypes DEF OperatorRecord
  <2> HIDE DEF n
  <2> QED BY <2>1, <2>3 DEF DlqTypeOK, OperatorMoves, OperatorRecord
<1> QED BY <1>1, <1>2

\* A step of process() calls: rows, retries and what they rest on stay as they are
\* for a message whose call has thrown; a call that throws now leaves a row or a
\* failed INSERT, and nothing handled.
LEMMA ProcessInv ==
  ASSUME DlqInv, DlqTypeOK', UNCHANGED <<operator, purged, overlap, deleteLost>>,
         insertLost \subseteq insertLost',
         \A k \in Messages : proc[k].pc = "threw" =>
           proc'[k].pc = "threw" /\ row'[k] = row[k] /\ accepted'[k] = accepted[k],
         \A k \in Messages : proc[k].pc # "threw" =>
           \/ /\ proc'[k].pc # "threw" /\ row'[k] = "none"
              /\ accepted'[k] = (IF proc'[k].pc = "returned" THEN 1 ELSE 0)
           \/ /\ proc'[k].pc = "threw" /\ accepted'[k] = 0
              /\ row'[k] # "none" \/ k \in insertLost'
  PROVE  DlqInv'
<1>1. /\ RowsFollow /\ RetriesFollow /\ ReturnsOnce /\ DeletesHandled
      /\ SoleRetry /\ FirstReturn /\ HandledRowGoes /\ FailureIsKept /\ HandledOnce
  BY DEF DlqInv
<1>2. \A o \in Operators : operator[o].id \in Messages
  BY DlqTypes DEF DlqInv
<1>3. RowsFollow'
  BY <1>1 DEF RowsFollow
<1>4. RetriesFollow'
  BY <1>1, <1>2 DEF RetriesFollow
<1>5. ReturnsOnce'
  BY DEF ReturnsOnce
<1>6. DeletesHandled'
  <2> SUFFICES ASSUME NEW o \in Operators, operator[o].pc = "delete"
               PROVE  accepted'[operator[o].id] > 0
    BY DEF DeletesHandled
  <2>1. proc[operator[o].id].pc = "threw" /\ accepted[operator[o].id] > 0
    BY <1>1 DEF RetriesFollow, DeletesHandled
  <2> QED BY <2>1, <1>2
<1>7. SoleRetry'
  BY <1>1 DEF SoleRetry, InHand
<1>8. FirstReturn'
  <2> SUFFICES ASSUME NEW o \in Operators, operator[o].pc \in {"mark", "handler"}
               PROVE  accepted'[operator[o].id] = 0 \/ operator[o].id \in Excused'
    BY DEF FirstReturn
  <2>1. proc[operator[o].id].pc = "threw"
    BY <1>1 DEF RetriesFollow
  <2>2. accepted[operator[o].id] = 0 \/ operator[o].id \in Excused
    BY <1>1 DEF FirstReturn
  <2> QED BY <2>1, <2>2, <1>2 DEF Excused
<1>9. HandledRowGoes'
  <2> SUFFICES ASSUME NEW m \in Messages, row'[m] # "none", accepted'[m] > 0, m \notin Excused
               PROVE  \E o \in Operators : operator[o].id = m /\ operator[o].pc = "delete"
    BY DEF HandledRowGoes, Excused
  <2>1. proc[m].pc = "threw"
    OBVIOUS
  <2> QED BY <2>1, <1>1 DEF HandledRowGoes
<1>10. FailureIsKept'
  <2> SUFFICES ASSUME NEW m \in Messages, proc'[m].pc = "threw"
               PROVE  row'[m] # "none" \/ accepted'[m] > 0 \/ m \in insertLost' \cup purged
    BY DEF FailureIsKept
  <2>1. CASE proc[m].pc = "threw"
    BY <2>1, <1>1 DEF FailureIsKept
  <2>2. CASE proc[m].pc # "threw"
    BY <2>2
  <2> QED BY <2>1, <2>2
<1>11. HandledOnce'
  <2> SUFFICES ASSUME NEW m \in Messages, accepted'[m] > 1 PROVE m \in Excused
    BY DEF HandledOnce, Excused
  <2>1. proc[m].pc = "threw" /\ accepted'[m] = accepted[m]
    OBVIOUS
  <2> QED BY <2>1, <1>1 DEF HandledOnce, Excused
<1> QED BY <1>3, <1>4, <1>5, <1>6, <1>7, <1>8, <1>9, <1>10, <1>11 DEF DlqInv

\* A step of the retry o.  Its hypotheses are about o and its message alone.
LEMMA RetryInv ==
  ASSUME DlqInv, DlqTypeOK', NEW o \in Operators,
         NEW next \in {"get", "mark", "handler", "delete", "fail", "returned", "threw"},
         NEW m, m = operator[o].id,
         OperatorMoves(o, next), UNCHANGED <<proc, insertLost, purged>>,
         overlap \subseteq overlap', deleteLost \subseteq deleteLost',
         proc[m].pc = "threw",
         \A k \in Messages \ {m} : row'[k] = row[k] /\ accepted'[k] = accepted[k],
         row[m] = "none" => row'[m] = "none",
         row'[m] = "none" /\ row[m] # "none" => accepted[m] > 0,
         accepted'[m] >= accepted[m],
         accepted'[m] # accepted[m] => InHand(o),
         accepted'[m] > 1 => m \in Excused',
         next = "delete" => accepted'[m] > 0,
         next \in {"mark", "handler"} => accepted'[m] = 0 \/ m \in Excused',
         next \in {"mark", "handler", "delete", "fail"} =>
           \/ InHand(o) \/ m \in overlap'
           \/ \A p \in Operators \ {o} : operator[p].id = m => ~InHand(p),
         row'[m] # "none" /\ accepted'[m] > 0 /\ m \notin Excused' =>
           next = "delete" \/ (operator[o].pc # "delete" /\ accepted[m] > 0)
  PROVE  DlqInv'
<1>1. /\ RowsFollow /\ RetriesFollow /\ ReturnsOnce /\ DeletesHandled
      /\ SoleRetry /\ FirstReturn /\ HandledRowGoes /\ FailureIsKept /\ HandledOnce
  BY DEF DlqInv
<1>2. /\ \A p \in Operators : operator[p].id \in Messages
      /\ \A k \in Messages : accepted[k] \in Nat /\ accepted'[k] \in Nat
  BY DlqTypes DEF DlqInv, DlqTypeOK
<1>3. /\ operator'[o].pc = next /\ operator'[o].id = m
      /\ \A p \in Operators \ {o} : operator'[p] = operator[p]
      /\ \A p \in Operators : operator'[p].id = operator[p].id
  BY DEF OperatorMoves
<1>4. Excused \subseteq Excused'
  BY DEF Excused
<1>5. RowsFollow'
  BY <1>1, <1>2 DEF RowsFollow
<1>6. RetriesFollow'
  BY <1>1, <1>3 DEF RetriesFollow
<1>7. ReturnsOnce'
  BY <1>1, <1>2 DEF ReturnsOnce
<1>8. DeletesHandled'
  <2> SUFFICES ASSUME NEW p \in Operators, operator'[p].pc = "delete"
               PROVE  accepted'[operator[p].id] > 0
    BY <1>3 DEF DeletesHandled
  <2>1. CASE p = o
    BY <2>1, <1>3
  <2>2. CASE p # o
    <3>1. accepted[operator[p].id] > 0
      BY <2>2, <1>1, <1>3 DEF DeletesHandled
    <3> QED BY <3>1, <1>2
  <2> QED BY <2>1, <2>2
<1>9. \A p \in Operators \ {o} : InHand(p)' <=> InHand(p)
  BY <1>3 DEF InHand
<1>10. SoleRetry'
  <2> SUFFICES ASSUME NEW p \in Operators, NEW q \in Operators, InHand(p)', InHand(q)',
                      operator[p].id = operator[q].id, p # q
               PROVE  operator[p].id \in overlap'
    BY <1>3 DEF SoleRetry
  <2>1. ASSUME NEW a \in Operators \ {o}, InHand(a), InHand(o)', operator[a].id = m
        PROVE  m \in overlap'
    <3>1. next \in {"mark", "handler", "delete", "fail"}
      BY <2>1, <1>3 DEF InHand
    <3>2. CASE InHand(o)
      BY <3>2, <2>1, <1>1 DEF SoleRetry
    <3> QED BY <3>1, <3>2, <2>1
  <2>2. CASE p = o
    BY <2>2, <2>1, <1>9
  <2>3. CASE q = o
    BY <2>3, <2>1, <1>9
  <2>4. CASE p # o /\ q # o
    BY <2>4, <1>1, <1>9 DEF SoleRetry
  <2> QED BY <2>2, <2>3, <2>4
<1>11. FirstReturn'
  <2> SUFFICES ASSUME NEW p \in Operators, operator'[p].pc \in {"mark", "handler"}
               PROVE  accepted'[operator[p].id] = 0 \/ operator[p].id \in Excused'
    BY <1>3 DEF FirstReturn
  <2>1. CASE p = o
    BY <2>1, <1>3
  <2>2. CASE p # o
    <3>1. InHand(p) /\ (accepted[operator[p].id] = 0 \/ operator[p].id \in Excused)
      BY <2>2, <1>1, <1>3 DEF FirstReturn, InHand
    <3>2. CASE operator[p].id # m \/ accepted'[m] = accepted[m]
      BY <3>1, <3>2, <1>2, <1>4
    <3>3. CASE operator[p].id = m /\ accepted'[m] # accepted[m]
      <4>1. InHand(o)
        BY <3>3
      <4>2. m \in overlap
        BY <4>1, <3>1, <3>3, <2>2, <1>1 DEF SoleRetry
      <4> QED BY <4>2, <3>3 DEF Excused
    <3> QED BY <3>2, <3>3
  <2> QED BY <2>1, <2>2
<1>12. HandledRowGoes'
  <2> SUFFICES ASSUME NEW k \in Messages, row'[k] # "none", accepted'[k] > 0, k \notin Excused'
               PROVE  \E p \in Operators : operator'[p].id = k /\ operator'[p].pc = "delete"
    BY DEF HandledRowGoes
  <2>1. CASE k = m /\ next = "delete"
    BY <2>1, <1>3
  <2>2. CASE k # m \/ next # "delete"
    <3>1. row[k] # "none" /\ accepted[k] > 0
      BY <2>2, <1>2
    <3>2. k \notin Excused
      BY <1>4
    <3>3. PICK p \in Operators : operator[p].id = k /\ operator[p].pc = "delete"
      BY <3>1, <3>2, <1>1 DEF HandledRowGoes
    <3>4. p # o
      BY <2>2, <3>3
    <3> QED BY <3>3, <3>4, <1>3
  <2> QED BY <2>1, <2>2
<1>13. FailureIsKept'
  <2> SUFFICES ASSUME NEW k \in Messages, proc[k].pc = "threw"
               PROVE  row'[k] # "none" \/ accepted'[k] > 0 \/ k \in insertLost \cup purged
    BY DEF FailureIsKept
  <2>1. row[k] # "none" \/ accepted[k] > 0 \/ k \in insertLost \cup purged
    BY <1>1 DEF FailureIsKept
  <2> QED BY <2>1, <1>2
<1>14. HandledOnce'
  <2> SUFFICES ASSUME NEW k \in Messages, accepted'[k] > 1 PROVE k \in Excused'
    BY DEF HandledOnce, Excused
  <2>1. CASE k = m
    BY <2>1
  <2>2. CASE k # m
    BY <2>2, <1>1, <1>4 DEF HandledOnce, Excused
  <2> QED BY <2>1, <2>2
<1> QED BY <1>5, <1>6, <1>7, <1>8, <1>10, <1>11, <1>12, <1>13, <1>14 DEF DlqInv

\* Every step of a process() call, of the queue alone or under the sequencer.
LEMMA ProcessStepInv ==
  ASSUME DlqInv, NEW m \in Messages, process(m) \/ ProcessStep(m)
  PROVE  DlqInv'
<1>1. DlqTypeOK /\ RowsFollow /\ ReturnsOnce
  BY DEF DlqInv
<1>2. \A k \in Messages : /\ proc[k].pc # "threw" => row[k] = "none"
                          /\ accepted[k] \in Nat
  BY <1>1, DlqTypes DEF RowsFollow
<1>3. \A k \in Messages :
        proc[k].pc # "threw" => accepted[k] = (IF proc[k].pc = "returned" THEN 1 ELSE 0)
  BY <1>1 DEF ReturnsOnce
<1>4. ASSUME NEW next \in {"handler", "insert"}, ProcMoves(m, next),
             proc[m].pc \in {"idle", "handler"},
             UNCHANGED <<row, expired, operator, accepted, dlqHistory>>
      PROVE  DlqInv'
  <2>1. DlqTypeOK'
    BY <1>1, <1>4 DEF DlqTypeOK, ProcMoves, dlqHistory
  <2>2. \A k \in Messages : k # m => proc'[k] = proc[k]
    BY <1>4 DEF ProcMoves
  <2>3. proc'[m].pc = next
    BY <1>4 DEF ProcMoves
  <2> QED BY <1>2, <1>3, <1>4, <2>1, <2>2, <2>3, ProcessInv DEF dlqHistory
<1>5. CASE process(m)
  <2>1. ProcMoves(m, "handler")
    BY <1>1, <1>5, ProcessGotoMoves DEF process
  <2> QED BY <2>1, <1>4, <1>5 DEF process
<1>6. CASE HandlerThrows(m)
  <2>1. CASE proc[m].retryCount = DLQ_MAX_RETRIES
    <3>1. ProcMoves(m, "insert")
      BY <1>1, <1>6, <2>1, ProcessGotoMoves DEF HandlerThrows
    <3> QED BY <3>1, <1>4, <1>6 DEF HandlerThrows
  <2>2. CASE proc[m].retryCount # DLQ_MAX_RETRIES
    <3>1. proc[m].retryCount + 1 \in 0..DLQ_MAX_RETRIES
      BY <1>1, <2>2, DlqTypes, DlqAssumption
    <3>2. proc' = [proc EXCEPT ![m].retryCount = proc[m].retryCount + 1]
      BY <1>6, <2>2 DEF HandlerThrows
    <3>3. proc[m].pc = "handler"
      BY <1>6 DEF HandlerThrows
    <3>4. ProcMoves(m, "handler")
      BY <1>1, <3>1, <3>2, <3>3 DEF DlqTypeOK, ProcMoves
    <3> QED BY <3>3, <3>4, <1>4, <1>6 DEF HandlerThrows
  <2> QED BY <2>1, <2>2
<1>7. CASE HandlerReturns(m)
  <2>1. ProcMoves(m, "returned") /\ proc[m].pc = "handler"
    BY <1>1, <1>7, ProcessGotoMoves DEF HandlerReturns
  <2>2. /\ \A k \in Messages : k # m => proc'[k] = proc[k]
        /\ proc'[m].pc = "returned"
    BY <2>1 DEF ProcMoves
  <2>3. /\ accepted' \in [Messages -> Nat]
        /\ \A k \in Messages : k # m => accepted'[k] = accepted[k]
        /\ accepted'[m] = 1
    BY <1>1, <1>3, <1>7, <2>1 DEF HandlerReturns, DlqTypeOK
  <2>4. UNCHANGED <<row, expired, operator, insertLost, purged, overlap, deleteLost>>
    BY <1>7 DEF HandlerReturns, dlqHistory
  <2>5. DlqTypeOK'
    BY <1>1, <2>1, <2>3, <2>4 DEF DlqTypeOK, ProcMoves
  <2> QED BY <1>2, <1>3, <2>1, <2>2, <2>3, <2>4, <2>5, ProcessInv
<1>8. CASE insert(m)
  <2>1. ProcMoves(m, "threw") /\ proc[m].pc = "insert"
    BY <1>1, <1>8, ProcessGotoMoves DEF insert
  <2>2. /\ \A k \in Messages : k # m => proc'[k] = proc[k]
        /\ proc'[m].pc = "threw"
    BY <2>1 DEF ProcMoves
  <2>3. UNCHANGED <<expired, operator, accepted, purged, overlap, deleteLost>>
    BY <1>8 DEF insert
  <2>4. /\ row' \in [Messages -> {"none", "failed", "retrying"}]
        /\ \A k \in Messages : k # m => row'[k] = row[k]
        /\ row'[m] # "none" \/ m \in insertLost'
        /\ insertLost \subseteq insertLost' /\ insertLost' \subseteq Messages
    BY <1>1, <1>8 DEF insert, DlqTypeOK
  <2>5. DlqTypeOK'
    BY <1>1, <2>1, <2>3, <2>4 DEF DlqTypeOK, ProcMoves
  <2> QED BY <1>2, <1>3, <2>1, <2>2, <2>3, <2>4, <2>5, ProcessInv
<1> QED BY <1>5, <1>6, <1>7, <1>8 DEF ProcessStep

\* A crash of the sequencer's process abandons the calls under way.
LEMMA CrashInv == ASSUME DlqInv, Crash PROVE DlqInv'
<1>1. DlqTypeOK /\ RowsFollow /\ ReturnsOnce
  BY DEF DlqInv
<1>2. UNCHANGED <<row, expired, operator, accepted, insertLost, purged, overlap, deleteLost>>
  BY DEF Crash, dlqHistory
<1>3. \A k \in Messages :
        /\ proc[k].pc \notin {"handler", "insert"} => proc'[k] = proc[k]
        /\ proc[k].pc \in {"handler", "insert"} => proc'[k].pc = "crashed"
  BY <1>1 DEF Crash, DlqTypeOK
<1>4. DlqTypeOK'
  BY <1>1, <1>2 DEF Crash, DlqTypeOK
<1>5. \A k \in Messages : proc[k].pc # "threw" => row[k] = "none"
  BY <1>1 DEF RowsFollow
<1>6. \A k \in Messages :
        proc[k].pc # "threw" => accepted[k] = (IF proc[k].pc = "returned" THEN 1 ELSE 0)
  BY <1>1 DEF ReturnsOnce
<1> QED BY <1>2, <1>3, <1>4, <1>5, <1>6, ProcessInv

\* Rows that expire or are purged.
LEMMA RetentionInv == ASSUME DlqInv, RetentionStep PROVE DlqInv'
<1>1. UNCHANGED <<proc, operator, accepted, insertLost, overlap, deleteLost>>
  BY DEF RetentionStep, purgeExpired, purge, Expire, dlqHistory
<1>2. DlqTypeOK'
  BY DEF DlqInv, DlqTypeOK, RetentionStep, purgeExpired, purge, Expire, dlqHistory
<1>3. /\ \A k \in Messages : row'[k] = row[k] \/ (row'[k] = "none" /\ k \in purged')
      /\ purged \subseteq purged'
  BY DEF DlqInv, DlqTypeOK, RetentionStep, purgeExpired, purge, Expire, dlqHistory
<1>4. RowsFollow'
  BY <1>1, <1>3 DEF DlqInv, RowsFollow
<1>5. RetriesFollow' /\ ReturnsOnce' /\ DeletesHandled' /\ SoleRetry' /\ FirstReturn'
  BY <1>1 DEF DlqInv, RetriesFollow, ReturnsOnce, DeletesHandled, SoleRetry, FirstReturn,
              InHand, Excused
<1>6. HandledRowGoes'
  BY <1>1, <1>3 DEF DlqInv, HandledRowGoes, Excused
<1>7. FailureIsKept' /\ HandledOnce'
  BY <1>1, <1>3 DEF DlqInv, FailureIsKept, HandledOnce
<1> QED BY <1>2, <1>4, <1>5, <1>6, <1>7 DEF DlqInv

\* Every step of a retry() call.
LEMMA RetryStepInv ==
  ASSUME DlqInv, NEW o \in Operators, retry(o) \/ RetryStep(o)
  PROVE  DlqInv'
<1> DEFINE m == operator[o].id
<1>1. /\ DlqTypeOK /\ RowsFollow /\ RetriesFollow /\ DeletesHandled
      /\ SoleRetry /\ FirstReturn /\ HandledRowGoes /\ HandledOnce
  BY DEF DlqInv
<1>2. m \in Messages /\ \A k \in Messages : accepted[k] \in Nat
  BY <1>1, DlqTypes
<1>3. proc[m].pc = "threw"
  <2>1. CASE retry(o)
    BY <2>1, <1>1, <1>2 DEF retry, RowsFollow
  <2>2. CASE operator[o].pc # "idle"
    BY <2>2, <1>1 DEF RetriesFollow
  <2> QED BY <2>1, <2>2 DEF RetryStep, get, markRetrying, RetryHandlerReturns,
                            RetryHandlerThrows, delete, deleteRejects, markFailed
<1>4. /\ operator[o].pc = "delete" => accepted[m] > 0
      /\ operator[o].pc \in {"mark", "handler"} => accepted[m] = 0 \/ m \in Excused
      /\ accepted[m] > 1 => m \in Excused
  BY <1>1, <1>2 DEF DeletesHandled, FirstReturn, HandledOnce, Excused
<1>5. operator[o].pc \in {"mark", "handler", "delete", "fail"} <=> InHand(o)
  BY DEF InHand
<1> HIDE DEF m
<1>6. \A next \in {"get", "mark", "handler", "delete", "fail", "returned", "threw"} :
        OperatorGoto(o, next) => OperatorMoves(o, next)
  BY <1>1, OperatorGotoMoves
<1>7. CASE retry(o)
  <2>1. OperatorMoves(o, "get") /\ operator[o].pc = "idle"
    BY <1>6, <1>7 DEF retry
  <2>2. UNCHANGED <<row, expired, proc, accepted, insertLost, purged, overlap, deleteLost>>
    BY <1>7 DEF retry, dlqHistory
  <2>3. DlqTypeOK'
    BY <1>1, <2>1, <2>2 DEF DlqTypeOK, OperatorMoves, OperatorRecord
  <2> QED BY <1>2, <1>3, <1>4, <2>1, <2>2, <2>3, RetryInv DEF m, Excused
<1>8. CASE get(o)
  <2>1. UNCHANGED <<row, expired, proc, accepted, insertLost, purged, deleteLost>>
        /\ operator[o].pc = "get"
    BY <1>8 DEF get
  <2>2. overlap \subseteq overlap' /\ overlap' \subseteq Messages
    BY <1>1, <1>2, <1>8 DEF get, DlqTypeOK, m
  <2>3. CASE row[m] # "none" /\ m \notin expired
    <3>1. OperatorMoves(o, "mark")
      BY <1>6, <1>8, <2>3 DEF get, m
    <3>2. m \in overlap' \/ \A p \in Operators \ {o} : operator[p].id = m => ~InHand(p)
      BY <1>8, <2>3 DEF get, m
    <3>3. accepted[m] = 0 \/ m \in Excused'
      <4> SUFFICES ASSUME accepted[m] # 0, m \notin Excused PROVE m \in overlap'
        BY <2>1, <2>2 DEF Excused
      <4>1. PICK p \in Operators : operator[p].id = m /\ operator[p].pc = "delete"
        BY <1>1, <1>2, <2>3 DEF HandledRowGoes
      <4>2. p # o /\ InHand(p)
        BY <4>1, <2>1 DEF InHand
      <4> QED BY <4>1, <4>2, <3>2
    <3>4. DlqTypeOK'
      BY <1>1, <2>1, <2>2, <3>1 DEF DlqTypeOK, OperatorMoves, OperatorRecord
    <3> QED BY <1>2, <1>3, <1>4, <2>1, <2>2, <3>1, <3>2, <3>3, <3>4, RetryInv DEF m, Excused
  <2>4. CASE ~(row[m] # "none" /\ m \notin expired)
    <3>1. OperatorMoves(o, "threw")
      BY <1>6, <1>8, <2>4 DEF get, m
    <3>2. DlqTypeOK'
      BY <1>1, <2>1, <2>2, <3>1 DEF DlqTypeOK, OperatorMoves, OperatorRecord
    <3> QED BY <1>2, <1>3, <1>4, <2>1, <2>2, <3>1, <3>2, RetryInv DEF m, Excused
  <2> QED BY <2>3, <2>4
<1>9. ASSUME NEW next \in {"handler", "fail", "threw"}, OperatorMoves(o, next),
             operator[o].pc \in {"mark", "handler", "fail"},
             next = "handler" => operator[o].pc \in {"mark", "handler"},
             UNCHANGED <<expired, proc, accepted, insertLost, purged, overlap, deleteLost>>,
             row' \in [Messages -> {"none", "failed", "retrying"}],
             \A k \in Messages : row'[k] = "none" <=> row[k] = "none",
             \A k \in Messages \ {m} : row'[k] = row[k]
      PROVE  DlqInv'
  <2>1. DlqTypeOK'
    BY <1>1, <1>9 DEF DlqTypeOK, OperatorMoves, OperatorRecord
  <2>2. Excused' = Excused
    BY <1>9 DEF Excused
  <2>3. InHand(o)
    BY <1>9, <1>5
  <2> QED BY <1>2, <1>3, <1>4, <1>9, <2>1, <2>2, <2>3, RetryInv DEF m
<1>10. ASSUME NEW new \in {"failed", "retrying"}, Update(m, new) \/ UNCHANGED row
       PROVE  /\ row' \in [Messages -> {"none", "failed", "retrying"}]
              /\ \A k \in Messages : row'[k] = "none" <=> row[k] = "none"
              /\ \A k \in Messages \ {m} : row'[k] = row[k]
  BY <1>1, <1>2, <1>10 DEF Update, DlqTypeOK
<1>11. CASE markRetrying(o)
  <2>1. OperatorMoves(o, "handler") \/ OperatorMoves(o, "threw")
    BY <1>6, <1>11 DEF markRetrying
  <2>2. UNCHANGED <<expired, proc, accepted, insertLost, purged, overlap, deleteLost>>
        /\ operator[o].pc = "mark" /\ (Update(m, "retrying") \/ UNCHANGED row)
    BY <1>11 DEF markRetrying, dlqHistory, m
  <2> QED BY <1>9, <1>10, <2>1, <2>2
<1>12. CASE RetryHandlerThrows(o)
  <2>1. OperatorMoves(o, "handler") \/ OperatorMoves(o, "fail")
    BY <1>1, <1>12, CaughtMoves DEF RetryHandlerThrows
  <2>2. UNCHANGED <<row, expired, proc, accepted, insertLost, purged, overlap, deleteLost>>
        /\ operator[o].pc = "handler"
    BY <1>12 DEF RetryHandlerThrows, dlqHistory
  <2> QED BY <1>9, <1>10, <2>1, <2>2
<1>13. CASE markFailed(o)
  <2>1. OperatorMoves(o, "threw")
    BY <1>6, <1>13 DEF markFailed
  <2>2. UNCHANGED <<expired, proc, accepted, insertLost, purged, overlap, deleteLost>>
        /\ operator[o].pc = "fail" /\ (Update(m, "failed") \/ UNCHANGED row)
    BY <1>13 DEF markFailed, dlqHistory, m
  <2> QED BY <1>9, <1>10, <2>1, <2>2
<1>14. CASE RetryHandlerReturns(o)
  <2>1. OperatorMoves(o, "delete") /\ operator[o].pc = "handler"
    BY <1>6, <1>14 DEF RetryHandlerReturns
  <2>2. UNCHANGED <<row, expired, proc, insertLost, purged, overlap, deleteLost>>
    BY <1>14 DEF RetryHandlerReturns, dlqHistory
  <2>3. /\ accepted' \in [Messages -> Nat]
        /\ \A k \in Messages \ {m} : accepted'[k] = accepted[k]
        /\ accepted'[m] = accepted[m] + 1
    BY <1>1, <1>2, <1>14 DEF RetryHandlerReturns, DlqTypeOK, m
  <2>4. DlqTypeOK'
    BY <1>1, <2>1, <2>2, <2>3 DEF DlqTypeOK, OperatorMoves, OperatorRecord
  <2>5. Excused' = Excused /\ InHand(o)
    BY <1>5, <2>1, <2>2 DEF Excused
  <2>6. accepted'[m] > 1 => m \in Excused'
    BY <1>2, <1>4, <2>1, <2>3, <2>5
  <2> QED BY <1>2, <1>3, <2>1, <2>2, <2>3, <2>4, <2>5, <2>6, RetryInv DEF m
<1>15. CASE delete(o)
  <2>1. OperatorMoves(o, "returned") /\ operator[o].pc = "delete"
    BY <1>6, <1>15 DEF delete
  <2>2. UNCHANGED <<expired, proc, accepted, insertLost, purged, overlap, deleteLost>>
    BY <1>15 DEF delete, dlqHistory
  <2>3. /\ row' \in [Messages -> {"none", "failed", "retrying"}]
        /\ \A k \in Messages \ {m} : row'[k] = row[k]
        /\ row'[m] = "none"
    BY <1>1, <1>2, <1>15 DEF delete, DlqTypeOK, m
  <2>4. DlqTypeOK'
    BY <1>1, <2>1, <2>2, <2>3 DEF DlqTypeOK, OperatorMoves, OperatorRecord
  <2> QED BY <1>2, <1>3, <1>4, <2>1, <2>2, <2>3, <2>4, RetryInv DEF m, Excused
<1>16. CASE deleteRejects(o)
  <2>1. PICK next \in {"handler", "fail"} : OperatorMoves(o, next)
    BY <1>1, <1>16, CaughtMoves DEF deleteRejects
  <2>2. UNCHANGED <<expired, proc, accepted, insertLost, purged, overlap>>
        /\ operator[o].pc = "delete"
    BY <1>16 DEF deleteRejects
  <2>3. /\ row' \in [Messages -> {"none", "failed", "retrying"}]
        /\ \A k \in Messages \ {m} : row'[k] = row[k]
        /\ row'[m] = "none" \/ row'[m] = row[m]
        /\ deleteLost' = deleteLost \cup {m}
    BY <1>1, <1>2, <1>16 DEF deleteRejects, DlqTypeOK, m
  <2>4. DlqTypeOK'
    BY <1>1, <1>2, <2>1, <2>2, <2>3 DEF DlqTypeOK, OperatorMoves, OperatorRecord
  <2>5. m \in Excused' /\ InHand(o)
    BY <1>5, <2>2, <2>3 DEF Excused
  <2> QED BY <1>2, <1>3, <1>4, <2>1, <2>2, <2>3, <2>4, <2>5, RetryInv DEF m
<1> QED BY <1>7, <1>8, <1>11, <1>12, <1>13, <1>14, <1>15, <1>16 DEF RetryStep

\* The queue's invariant, which the sequencer's requests keep as well.
LEMMA DlqInvariance == Spec => []DlqInv
<1>1. Init => DlqInv
  <2> SUFFICES ASSUME DlqInit PROVE DlqInv
    BY DEF Init
  <2>1. /\ row = [m \in Messages |-> "none"] /\ accepted = [m \in Messages |-> 0]
        /\ proc = [m \in Messages |-> [pc |-> "idle", retryCount |-> 0]]
        /\ \A o \in Operators : operator[o].pc = "idle"
    BY DEF DlqInit
  <2>2. DlqTypeOK
    <3>1. 0 \in 0..DLQ_MAX_RETRIES
      BY DlqAssumption
    <3> QED BY <3>1 DEF DlqInit, DlqTypeOK
  <2> QED BY <2>1, <2>2 DEF DlqInv, RowsFollow, RetriesFollow, ReturnsOnce, DeletesHandled,
                            SoleRetry, FirstReturn, HandledRowGoes, InHand, FailureIsKept,
                            HandledOnce
<1>2. DlqInv /\ [Next]_vars => DlqInv'
  <2> SUFFICES ASSUME DlqInv, [Next]_vars PROVE DlqInv'
    OBVIOUS
  <2>1. CASE UNCHANGED dlqVars
    BY <2>1 DEF dlqVars, DlqInv, DlqTypeOK, RowsFollow, RetriesFollow, ReturnsOnce,
                DeletesHandled, SoleRetry, FirstReturn, HandledRowGoes, InHand, Excused,
                FailureIsKept, HandledOnce
  <2>2. CASE DlqNext({1, 2} \cap Messages)
    BY <2>2, ProcessStepInv, RetryStepInv, RetentionInv DEF DlqNext
  <2>3. CASE SequencerNext
    <3>1. CASE Restart
      BY <3>1, <2>1 DEF Restart
    <3>4. ASSUME NEW m \in Messages, ReservationThrows(m) \/ resubmitEntry(m)
          PROVE  UNCHANGED dlqVars
      BY <3>4 DEF ReservationThrows, resubmitEntry
    <3>2. CASE Crash
      BY <3>2, CrashInv
    <3>3. ASSUME NEW m \in Messages, onSlashingRequest(m) \/ RequestStep(m)
          PROVE  process(m) \/ ProcessStep(m)
      BY <3>3 DEF onSlashingRequest, RequestStep, Confirmed, Submitting, Failed, ProcessStep
    <3> QED BY <2>1, <2>3, <3>1, <3>2, <3>3, <3>4, ProcessStepInv DEF SequencerNext
  <2> QED BY <2>1, <2>2, <2>3 DEF Next, vars, stores
<1> QED BY <1>1, <1>2, PTL DEF Spec

\* No failed message is lost and none is handled twice but for the two races the
\* property names, whether the queue runs alone, with operators who retry, purge and
\* overlap, or under the sequencer, whose process may crash.
THEOREM DeadLettersAreSafe == Spec => []DeadLetterSafe
<1>1. DlqInv => DeadLetterSafe
  BY DEF DlqInv, DeadLetterSafe
<1> QED BY <1>1, DlqInvariance, PTL

-----------------------------------------------------------------------------
(***************************************************************************)
(* Nonce sequencer                                                         *)
(***************************************************************************)

\* The requests that await their submission.
Flying == {m \in Messages : InFlight(m)}

\* A request that was submitted or has an entry has its nonce, and one that has not
\* settled is pending.
NoncesGiven == \A m \in Messages : proc[m].pc # "idle" => nonce[m] # NoNonce
LoggedHaveNonces ==
  /\ \A m \in Range(buffer) : nonce[m] # NoNonce
  /\ \A e \in wal : nonce[e.by] # NoNonce
PendingUntilSettled ==
  \A m \in Messages : proc[m].pc \notin {"returned", "threw"} => status[m] = "pending"

\* The water mark and the requests in flight fit below the head.
CountedBelowHead ==
  /\ waterMarkFile <= waterMark /\ waterMark + Cardinality(Flying) <= headPointer
  /\ \A m \in Flying : nonce[m] < headPointer

DistinctNonces == \A k, m \in Flying : k # m => nonce[k] # nonce[m]

\* Requests fly while the process is up, and are interrupted while it is down.
LifeOfRequests == IF up THEN interrupted = {} ELSE Flying = {}

SeqInv ==
  /\ SequencerTypeOK /\ LifeOfRequests
  /\ NoncesGiven /\ LoggedHaveNonces /\ PendingUntilSettled
  /\ CountedBelowHead /\ DistinctNonces /\ WalCoversInFlight

\* What a sequence holds after a concatenation, and after an Append.
LEMMA RangeOfBoth ==
  ASSUME NEW S, NEW s \in Seq(S), NEW t \in Seq(S)
  PROVE  s \o t \in Seq(S) /\ Range(s \o t) = Range(s) \cup Range(t)
<1>1. /\ s \o t \in Seq(S) /\ Len(s \o t) = Len(s) + Len(t)
      /\ \A i \in 1..Len(s) : (s \o t)[i] = s[i]
      /\ \A j \in 1..Len(t) : (s \o t)[Len(s) + j] = t[j]
  OBVIOUS
<1>2. DOMAIN s = 1..Len(s) /\ DOMAIN t = 1..Len(t) /\ DOMAIN (s \o t) = 1..(Len(s) + Len(t))
      /\ Len(s) \in Nat /\ Len(t) \in Nat
  BY <1>1
<1>3. ASSUME NEW i \in 1..Len(s) PROVE s[i] \in Range(s \o t)
  <2>1. i \in DOMAIN (s \o t)
    BY <1>2
  <2> QED BY <1>1, <2>1 DEF Range
<1>4. ASSUME NEW j \in 1..Len(t) PROVE t[j] \in Range(s \o t)
  <2>1. Len(s) + j \in DOMAIN (s \o t)
    BY <1>2
  <2> QED BY <1>1, <2>1 DEF Range
<1>5. ASSUME NEW i \in 1..(Len(s) + Len(t)) PROVE (s \o t)[i] \in Range(s) \cup Range(t)
  <2>1. CASE i <= Len(s)
    <3>1. i \in 1..Len(s)
      BY <2>1
    <3> QED BY <3>1, <1>1, <1>2 DEF Range
  <2>2. CASE i > Len(s)
    <3>1. i - Len(s) \in 1..Len(t) /\ i = Len(s) + (i - Len(s))
      BY <2>2, <1>2
    <3> QED BY <3>1, <1>1, <1>2 DEF Range
  <2> QED BY <2>1, <2>2, <1>2
<1> QED BY <1>1, <1>2, <1>3, <1>4, <1>5 DEF Range

\* What a sequence holds after Append.
LEMMA RangeAppended ==
  ASSUME NEW S, NEW s \in Seq(S), NEW e \in S
  PROVE  Append(s, e) \in Seq(S) /\ Range(Append(s, e)) = Range(s) \cup {e}
<1>1. /\ Append(s, e) \in Seq(S) /\ Len(Append(s, e)) = Len(s) + 1
      /\ \A i \in 1..Len(s) : Append(s, e)[i] = s[i]
      /\ Append(s, e)[Len(s) + 1] = e
  OBVIOUS
<1>2. DOMAIN s = 1..Len(s) /\ DOMAIN Append(s, e) = 1..(Len(s) + 1) /\ Len(s) \in Nat
  BY <1>1
<1>3. DOMAIN Append(s, e) = DOMAIN s \cup {Len(s) + 1}
  BY <1>2
<1> QED BY <1>1, <1>2, <1>3 DEF Range

\* The requests in flight are finitely many, and their number follows them.
LEMMA FlyingCounts ==
  /\ IsFiniteSet(Flying) /\ Cardinality(Flying) \in Nat
  /\ \A m \in Messages \ Flying : Cardinality(Flying \cup {m}) = Cardinality(Flying) + 1
  /\ \A m \in Flying : Cardinality(Flying \ {m}) = Cardinality(Flying) - 1
<1>1. IsFiniteSet(Messages) /\ Flying \subseteq Messages
  BY SequencerAssumption DEF Flying
<1>2. IsFiniteSet(Flying)
  BY <1>1, FS_Subset
<1> QED BY <1>2, FS_CardinalityType, FS_AddElement, FS_RemoveElement

\* The types that the proofs below use one by one.
LEMMA SequencerTypes ==
  ASSUME SequencerTypeOK
  PROVE  /\ {headPointer, waterMark, walFlushCounter, waterMarkFile} \subseteq Nat
         /\ buffer \in Seq(Messages) /\ Range(buffer) \subseteq Messages
         /\ \A m \in Messages : nonce[m] \in Nat \cup {NoNonce} /\ status[m] \in Statuses
         /\ \A e \in wal : e.by \in Messages
BY DEF SequencerTypeOK, Range

\* A request leaves the flight: confirmed, or failed.  Unless a write was cut short,
\* what is left of the file keeps the pending entries above the persisted mark.
LEMMA LeavesFlight ==
  ASSUME SeqInv, DlqTypeOK, SequencerTypeOK', NEW m \in Messages,
         NEW next \in {"returned", "threw"}, ProcMoves(m, next),
         proc[m].pc \in {"handler", "insert"}, up,
         UNCHANGED <<up, nonce, headPointer, buffer, interrupted>>,
         \A k \in Messages \ {m} : status'[k] = status[k],
         waterMark <= waterMark', waterMark' <= waterMark + 1,
         waterMarkFile' <= waterMark', wal' \subseteq wal,
         walState' = "whole" =>
           /\ walState = "whole" /\ waterMarkFile <= waterMarkFile'
           /\ \A e \in wal : e.status = "pending" /\ nonce[e.by] > waterMarkFile' => e \in wal'
  PROVE  SeqInv'
<1>1. /\ SequencerTypeOK /\ NoncesGiven /\ LoggedHaveNonces /\ PendingUntilSettled
      /\ CountedBelowHead /\ DistinctNonces /\ WalCoversInFlight /\ LifeOfRequests
  BY DEF SeqInv
<1>2. /\ proc'[m].pc = next /\ \A k \in Messages : k # m => proc'[k] = proc[k]
  BY DEF ProcMoves
<1>3. Flying' = Flying \ {m} /\ m \in Flying
  BY <1>1, <1>2 DEF Flying, InFlight, NoncesGiven
<1>4. NoncesGiven' /\ LoggedHaveNonces' /\ PendingUntilSettled' /\ LifeOfRequests'
  BY <1>1, <1>2 DEF NoncesGiven, LoggedHaveNonces, PendingUntilSettled, LifeOfRequests
<1>5. CountedBelowHead'
  <2>1. Cardinality(Flying') = Cardinality(Flying) - 1 /\ Cardinality(Flying) \in Nat
    BY <1>3, FlyingCounts
  <2>2. {headPointer, waterMark, waterMark'} \subseteq Nat
    BY <1>1 DEF SequencerTypeOK
  <2>3. waterMark' + Cardinality(Flying') <= headPointer'
    BY <1>1, <2>1, <2>2 DEF CountedBelowHead
  <2> QED BY <1>1, <1>3, <2>3 DEF CountedBelowHead
<1>6. DistinctNonces'
  BY <1>1, <1>3 DEF DistinctNonces
<1>7. WalCoversInFlight'
  <2> SUFFICES ASSUME NEW k \in Messages, walState' = "whole", InFlight(k)',
                      k \notin Range(buffer), nonce[k] > waterMarkFile'
               PROVE  [by |-> k, status |-> "pending"] \in wal'
    BY <1>1 DEF WalCoversInFlight, LifeOfRequests
  <2>1. InFlight(k)
    BY <1>3 DEF Flying
  <2>2. nonce[k] > waterMarkFile
    <3>1. nonce[k] \in Nat /\ {waterMarkFile, waterMarkFile'} \subseteq Nat
      BY <1>1, <2>1, SequencerTypes DEF InFlight, SequencerTypeOK
    <3> QED BY <3>1
  <2>3. [by |-> k, status |-> "pending"] \in wal
    BY <1>1, <2>1, <2>2 DEF WalCoversInFlight
  <2> QED BY <2>3
<1> QED BY <1>4, <1>5, <1>6, <1>7 DEF SeqInv

\* A flush writes an entry for each request, as it is now, and no other.
LEMMA LinesOf ==
  ASSUME SequencerTypeOK, NEW requests \in Seq(Messages)
  PROVE  /\ Lines(requests) \subseteq [by : Messages, status : Statuses]
         /\ \A e \in Lines(requests) : e.by \in Range(requests)
         /\ \A k \in Range(requests) :
              status[k] = "pending" => [by |-> k, status |-> "pending"] \in Lines(requests)
<1>1. Range(requests) \subseteq Messages
  BY DEF Range
<1> QED BY <1>1, SequencerTypes DEF Lines

\* A request takes the head as its nonce.  It is submitted (proc moves on) or not; its
\* entry and those of the buffer stay in the buffer or are written to the file.
LEMMA Reserved ==
  ASSUME SeqInv, DlqTypeOK, NEW m \in Messages, reserveNonce(m),
         buffer' \in Seq(Messages), Range(buffer') \subseteq Range(buffer) \cup {m},
         walOpen' \in BOOLEAN, walState' \in {walState, "unreadable"},
         NEW lines \in SUBSET [by : Messages, status : Statuses], wal' = wal \cup lines,
         \A e \in lines : e.by \in Range(buffer) \cup {m},
         proc[m].pc = "idle", proc'[m].pc \in {"idle", "handler"},
         \A k \in Messages : k # m => proc'[k] = proc[k],
         \A k \in Range(buffer) \cup (IF proc'[m].pc = "idle" THEN {} ELSE {m}) :
           \/ k \in Range(buffer')
           \/ status[k] = "pending" => [by |-> k, status |-> "pending"] \in lines
  PROVE  SeqInv'
<1>1. /\ SequencerTypeOK /\ NoncesGiven /\ LoggedHaveNonces /\ PendingUntilSettled
      /\ CountedBelowHead /\ DistinctNonces /\ WalCoversInFlight /\ LifeOfRequests
  BY DEF SeqInv
<1>2. /\ up /\ nonce[m] = NoNonce /\ nonce' = [nonce EXCEPT ![m] = headPointer]
      /\ headPointer' = headPointer + 1 /\ walFlushCounter' = walFlushCounter + 1
      /\ UNCHANGED <<up, waterMark, status, waterMarkFile, resent, interrupted, crashes>>
  BY DEF reserveNonce
<1>3. Range(buffer) \subseteq Messages /\ \A e \in wal : e.by \in Messages
  BY <1>1, SequencerTypes
<1>4. /\ nonce'[m] = headPointer /\ \A k \in Messages : k # m => nonce'[k] = nonce[k]
      /\ headPointer \in Nat /\ headPointer # NoNonce
  BY <1>1, <1>2, SequencerAssumption DEF SequencerTypeOK
<1>5. /\ m \notin Flying
      /\ Flying' = IF proc'[m].pc = "idle" THEN Flying ELSE Flying \cup {m}
  BY <1>2, <1>4 DEF Flying, InFlight
<1>6. SequencerTypeOK'
  <2>1. nonce' \in [Messages -> Nat \cup {NoNonce}]
    BY <1>1, <1>2, <1>4 DEF SequencerTypeOK
  <2>2. headPointer' \in Nat /\ walFlushCounter' \in Nat
    BY <1>1, <1>2 DEF SequencerTypeOK
  <2>3. wal' \subseteq [by : Messages, status : Statuses]
    BY <1>1 DEF SequencerTypeOK
  <2>4. walState' \in {"whole", "cut", "unreadable"}
    BY <1>1 DEF SequencerTypeOK
  <2> QED BY <1>1, <1>2, <2>1, <2>2, <2>3, <2>4 DEF SequencerTypeOK
<1>7. NoncesGiven' /\ PendingUntilSettled' /\ LifeOfRequests'
  BY <1>1, <1>2, <1>4 DEF NoncesGiven, PendingUntilSettled, LifeOfRequests
<1>8. LoggedHaveNonces'
  <2>1. \A k \in Messages : k = m \/ nonce[k] # NoNonce => nonce'[k] # NoNonce
    BY <1>4
  <2>2. ASSUME NEW k \in Range(buffer') PROVE nonce'[k] # NoNonce
    BY <2>1, <2>2, <1>1, <1>3 DEF LoggedHaveNonces
  <2>3. ASSUME NEW e \in wal' PROVE nonce'[e.by] # NoNonce
    BY <2>1, <2>3, <1>1, <1>3 DEF LoggedHaveNonces
  <2> QED BY <2>2, <2>3 DEF LoggedHaveNonces
<1>9. \A k \in Flying : k \in Messages /\ nonce[k] \in Nat /\ nonce[k] < headPointer
  BY <1>1, SequencerTypes DEF CountedBelowHead, Flying, InFlight
<1>10. CountedBelowHead'
  <2>1. /\ Cardinality(Flying') <= Cardinality(Flying) + 1
        /\ Cardinality(Flying) \in Nat /\ Cardinality(Flying') \in Nat
    BY <1>5, FlyingCounts
  <2>2. {headPointer, waterMark, waterMarkFile} \subseteq Nat
    BY <1>1 DEF SequencerTypeOK
  <2>3. waterMarkFile <= waterMark /\ waterMark + Cardinality(Flying) <= headPointer
    BY <1>1 DEF CountedBelowHead
  <2>4. waterMark' + Cardinality(Flying') <= headPointer' /\ waterMarkFile' <= waterMark'
    BY <1>2, <2>1, <2>2, <2>3
  <2>5. ASSUME NEW k \in Flying' PROVE nonce'[k] < headPointer'
    <3>1. CASE k = m
      BY <3>1, <1>2, <1>4
    <3>2. CASE k # m
      <4>1. k \in Flying
        BY <3>2, <2>5, <1>5
      <4> QED BY <3>2, <4>1, <1>2, <1>4, <1>9
    <3> QED BY <3>1, <3>2
  <2> QED BY <2>4, <2>5 DEF CountedBelowHead
<1>11. DistinctNonces'
  <2>1. \A k \in Flying : k \in Messages /\ k # m /\ nonce[k] # headPointer
    BY <1>4, <1>5, <1>9
  <2> QED BY <2>1, <1>1, <1>4, <1>5 DEF DistinctNonces
<1>12. WalCoversInFlight'
  <2> SUFFICES ASSUME NEW k \in Messages, walState' = "whole", InFlight(k)',
                      k \notin Range(buffer'), nonce'[k] > waterMarkFile
               PROVE  [by |-> k, status |-> "pending"] \in wal'
    BY <1>1, <1>2 DEF WalCoversInFlight, LifeOfRequests
  <2>1. status[k] = "pending" /\ walState = "whole"
    BY <1>2, <1>7 DEF PendingUntilSettled, InFlight
  <2>2. CASE k = m \/ k \in Range(buffer)
    BY <2>1, <2>2 DEF InFlight
  <2>3. CASE k # m /\ k \notin Range(buffer)
    <3>1. InFlight(k) /\ nonce'[k] = nonce[k]
      BY <2>3, <1>4 DEF InFlight
    <3>2. [by |-> k, status |-> "pending"] \in wal
      BY <3>1, <2>1, <2>3, <1>1 DEF WalCoversInFlight
    <3> QED BY <3>2
  <2> QED BY <2>2, <2>3
<1> QED BY <1>6, <1>7, <1>8, <1>10, <1>11, <1>12 DEF SeqInv

\* The batches that a reservation may flush.
LEMMA Batches ==
  ASSUME SequencerTypeOK, NEW m \in Messages
  PROVE  /\ Flushed \in Seq(Messages) /\ Filled(m) \in Seq(Messages) /\ <<>> \in Seq(Messages)
         /\ Range(<<>>) = {} /\ Range(Flushed) \subseteq Range(buffer)
         /\ Range(Filled(m)) \subseteq Range(buffer) \cup {m}
         /\ Range(buffer) \cup {m} \subseteq Range(Flushed) \cup Range(Filled(m))
<1>1. buffer \in Seq(Messages) /\ <<>> \in Seq(Messages) /\ Range(<<>>) = {}
  BY DEF SequencerTypeOK, Range
<1>2. CASE FlushDue
  <2>1. Flushed = buffer /\ Filled(m) = Append(<<>>, m)
    BY <1>2 DEF Flushed, Filled
  <2>2. Filled(m) \in Seq(Messages) /\ Range(Filled(m)) = Range(<<>>) \cup {m}
    <3> DEFINE none == <<>>
    <3>1. none \in Seq(Messages)
      BY <1>1
    <3> HIDE DEF none
    <3>2. Append(none, m) \in Seq(Messages) /\ Range(Append(none, m)) = Range(none) \cup {m}
      BY <3>1, RangeAppended
    <3> QED BY <3>2, <2>1 DEF none
  <2> QED BY <2>1, <2>2, <1>1
<1>3. CASE ~FlushDue
  <2>1. Flushed = <<>> /\ Filled(m) = Append(buffer, m)
    BY <1>3 DEF Flushed, Filled
  <2>2. Filled(m) \in Seq(Messages) /\ Range(Filled(m)) = Range(buffer) \cup {m}
    BY <2>1, <1>1, RangeAppended
  <2> QED BY <2>1, <2>2, <1>1
<1> QED BY <1>2, <1>3

\* A request arrives and is submitted.
LEMMA ArrivalInv ==
  ASSUME SeqInv, DlqTypeOK, NEW m \in Messages, onSlashingRequest(m)
  PROVE  SeqInv'
<1> DEFINE second == IF Full(m) THEN Filled(m) ELSE <<>>
           requests == Flushed \o second
<1>1. SequencerTypeOK
  BY DEF SeqInv
<1>2. /\ reserveNonce(m) /\ process(m) /\ Flush(requests)
      /\ buffer' = IF Full(m) THEN <<>> ELSE Filled(m)
  BY DEF onSlashingRequest
<1>3. /\ Flushed \in Seq(Messages) /\ Filled(m) \in Seq(Messages) /\ <<>> \in Seq(Messages)
      /\ Range(<<>>) = {} /\ Range(Flushed) \subseteq Range(buffer)
      /\ Range(Filled(m)) \subseteq Range(buffer) \cup {m}
      /\ Range(buffer) \cup {m} \subseteq Range(Flushed) \cup Range(Filled(m))
  BY <1>1, Batches
<1>4. second \in Seq(Messages) /\ buffer' \in Seq(Messages)
  BY <1>2, <1>3
<1>5. requests \in Seq(Messages) /\ Range(requests) = Range(Flushed) \cup Range(second)
  <2> HIDE DEF second
  <2> QED BY <1>3, <1>4, RangeOfBoth
<1>6. /\ Range(requests) \subseteq Range(buffer) \cup {m}
      /\ Range(buffer') \subseteq Range(buffer) \cup {m}
      /\ Range(buffer) \cup {m} \subseteq Range(requests) \cup Range(buffer')
  BY <1>2, <1>3, <1>5
<1> HIDE DEF requests, second
<1>7. /\ wal' = wal \cup Lines(requests) /\ walOpen' \in BOOLEAN
      /\ walState' \in {walState, "unreadable"}
  BY <1>2 DEF Flush
<1>8. /\ Lines(requests) \subseteq [by : Messages, status : Statuses]
      /\ \A e \in Lines(requests) : e.by \in Range(requests)
      /\ \A k \in Range(requests) :
           status[k] = "pending" => [by |-> k, status |-> "pending"] \in Lines(requests)
  BY <1>1, <1>5, LinesOf
<1>9. /\ proc[m].pc = "idle" /\ proc'[m].pc = "handler"
      /\ \A k \in Messages : k # m => proc'[k] = proc[k]
  BY <1>2 DEF process, ProcessGoto, DlqTypeOK
<1>10. /\ \A e \in Lines(requests) : e.by \in Range(buffer) \cup {m}
       /\ \A k \in Range(buffer) \cup {m} :
            \/ k \in Range(buffer')
            \/ status[k] = "pending" => [by |-> k, status |-> "pending"] \in Lines(requests)
  BY <1>6, <1>8
<1> QED BY <1>2, <1>4, <1>6, <1>7, <1>8, <1>9, <1>10, Reserved

\* A request arrives and is refused, for a flush throws: what the buffer held stays
\* in it, or was written by the first flush.
LEMMA RefusalInv ==
  ASSUME SeqInv, DlqTypeOK, NEW m \in Messages, ReservationThrows(m)
  PROVE  SeqInv'
<1>1. SequencerTypeOK /\ NoncesGiven
  BY DEF SeqInv
<1>2. /\ reserveNonce(m) /\ proc' = proc /\ proc[m].pc = "idle"
  BY <1>1 DEF ReservationThrows, reserveNonce, dlqVars, NoncesGiven
<1>3. /\ Flushed \in Seq(Messages) /\ Filled(m) \in Seq(Messages)
      /\ Range(Flushed) \subseteq Range(buffer)
      /\ Range(Filled(m)) \subseteq Range(buffer) \cup {m}
      /\ Range(buffer) \cup {m} \subseteq Range(Flushed) \cup Range(Filled(m))
  BY <1>1, Batches
<1>4. buffer \in Seq(Messages)
  BY <1>1 DEF SequencerTypeOK
<1>5. CASE FlushFails(Flushed, 0) /\ buffer' = buffer
  <2>1. PICK k \in 0..Len(Flushed) :
          /\ wal' = wal \cup Lines(SubSeq(Flushed, 1, k))
          /\ walOpen' \in (IF k = 0 THEN {walOpen} ELSE BOOLEAN)
          /\ walState' \in {walState, "unreadable"}
    BY <1>5 DEF FlushFails
  <2> DEFINE requests == SubSeq(Flushed, 1, k)
  <2>2. requests \in Seq(Messages) /\ Range(requests) \subseteq Range(Flushed)
    BY <1>3 DEF Range
  <2> HIDE DEF requests
  <2>3. walOpen' \in BOOLEAN
    BY <1>1, <2>1 DEF SequencerTypeOK
  <2>4. /\ Lines(requests) \subseteq [by : Messages, status : Statuses]
        /\ \A e \in Lines(requests) : e.by \in Range(buffer) \cup {m}
    BY <1>1, <1>3, <2>2, LinesOf
  <2>5. wal' = wal \cup Lines(requests)
    BY <2>1 DEF requests
  <2> QED BY <1>2, <1>4, <1>5, <2>1, <2>3, <2>4, <2>5, Reserved
<1>6. CASE FlushFails(Flushed \o Filled(m), Len(Flushed)) /\ buffer' = Filled(m)
  <2>1. PICK k \in Len(Flushed)..Len(Flushed \o Filled(m)) :
          /\ wal' = wal \cup Lines(SubSeq(Flushed \o Filled(m), 1, k))
          /\ walOpen' \in (IF k = 0 THEN {walOpen} ELSE BOOLEAN)
          /\ walState' \in {walState, "unreadable"}
    BY <1>6 DEF FlushFails
  <2> DEFINE all == Flushed \o Filled(m)
             requests == SubSeq(all, 1, k)
  <2>2. all \in Seq(Messages) /\ Range(all) = Range(Flushed) \cup Range(Filled(m))
    BY <1>3, RangeOfBoth
  <2>3. \A i \in 1..Len(Flushed) : all[i] = Flushed[i]
    BY <1>3
  <2>9. Len(all) \in Nat /\ k \in 0..Len(all) /\ Len(Flushed) \in Nat /\ Len(Flushed) <= k
    BY <2>1, <2>2, <1>3
  <2> HIDE DEF all
  <2>10. requests \in Seq(Messages) /\ Len(requests) = k
         /\ \A i \in 1..k : requests[i] = all[i]
    BY <2>2, <2>9
  <2>4. requests \in Seq(Messages) /\ Range(requests) \subseteq Range(all)
        /\ Range(Flushed) \subseteq Range(requests)
    <3>1. DOMAIN requests = 1..k /\ DOMAIN all = 1..Len(all) /\ DOMAIN Flushed = 1..Len(Flushed)
      BY <2>2, <2>10, <1>3
    <3>2. 1..k \subseteq 1..Len(all) /\ 1..Len(Flushed) \subseteq 1..k
      BY <2>9
    <3> HIDE DEF requests
    <3> QED BY <3>1, <3>2, <2>3, <2>10 DEF Range
  <2> HIDE DEF requests
  <2>5. walOpen' \in BOOLEAN
    BY <1>1, <2>1 DEF SequencerTypeOK
  <2>6. /\ Lines(requests) \subseteq [by : Messages, status : Statuses]
        /\ \A e \in Lines(requests) : e.by \in Range(requests)
        /\ \A j \in Range(requests) :
             status[j] = "pending" => [by |-> j, status |-> "pending"] \in Lines(requests)
    BY <1>1, <2>4, LinesOf
  <2>7. wal' = wal \cup Lines(requests)
    BY <2>1 DEF requests, all
  <2>8. /\ \A e \in Lines(requests) : e.by \in Range(buffer) \cup {m}
        /\ \A j \in Range(buffer) :
             \/ j \in Range(buffer')
             \/ status[j] = "pending" => [by |-> j, status |-> "pending"] \in Lines(requests)
    BY <1>3, <1>6, <2>2, <2>4, <2>6
  <2> QED BY <1>2, <1>3, <1>6, <2>1, <2>5, <2>6, <2>7, <2>8, Reserved
<1> QED BY <1>5, <1>6 DEF ReservationThrows

\* The confirmation of a request, with the water mark and the purge.
LEMMA ConfirmedInv ==
  ASSUME SeqInv, DlqTypeOK, NEW m \in Messages, Confirmed(m)
  PROVE  SeqInv'
<1>1. SequencerTypeOK /\ CountedBelowHead
  BY DEF SeqInv
<1>2. /\ up /\ HandlerReturns(m) /\ status' = [status EXCEPT ![m] = "confirmed"]
      /\ waterMark' = waterMark + 1
      /\ UNCHANGED <<up, headPointer, walFlushCounter, nonce, buffer, resent, interrupted, crashes>>
  BY DEF Confirmed, advanceWaterMark
<1>3. /\ {waterMark, waterMarkFile, waterMark'} \subseteq Nat
      /\ waterMarkFile <= waterMark
  BY <1>1, <1>2 DEF SequencerTypeOK, CountedBelowHead
<1>4. ProcMoves(m, "returned") /\ proc[m].pc = "handler"
  BY <1>2, ProcessGotoMoves DEF HandlerReturns
<1>5. \/ UNCHANGED <<wal, walOpen, walState, waterMarkFile>>
      \/ /\ waterMarkFile' = waterMark' /\ walState' = walState
         /\ \/ UNCHANGED <<wal, walOpen>>
            \/ wal' = purgeConfirmed(waterMark') /\ walOpen' \in BOOLEAN
      \/ /\ waterMarkFile' = 0 /\ UNCHANGED <<wal, walOpen>>
         /\ walState' = IF walState = "whole" THEN "cut" ELSE walState
      \/ /\ waterMarkFile' = waterMark' /\ wal' \in SUBSET purgeConfirmed(waterMark')
         /\ walOpen' \in BOOLEAN /\ walState' \in {"cut", "unreadable"}
  BY DEF Confirmed, advanceWaterMark, MarkAndPurge, MarkThrows, PurgeThrows, walFile
<1>6. /\ waterMarkFile' \in Nat /\ waterMarkFile' <= waterMark' /\ waterMark <= waterMark'
  BY <1>2, <1>3, <1>5
<1>7. /\ wal' \subseteq wal /\ walOpen' \in BOOLEAN
      /\ walState' \in {"whole", "cut", "unreadable"}
  BY <1>1, <1>5 DEF purgeConfirmed, SequencerTypeOK
<1>8. ASSUME walState' = "whole"
      PROVE  /\ walState = "whole" /\ waterMarkFile <= waterMarkFile'
             /\ \A e \in wal : e.status = "pending" /\ nonce[e.by] > waterMarkFile' => e \in wal'
  <2>1. /\ walState = "whole"
        /\ \/ UNCHANGED <<wal, waterMarkFile>>
           \/ waterMarkFile' = waterMark' /\ (wal' = wal \/ wal' = purgeConfirmed(waterMark'))
    BY <1>5, <1>8
  <2> QED BY <2>1, <1>2, <1>3 DEF purgeConfirmed
<1>9. SequencerTypeOK'
  <2>1. status' \in [Messages -> Statuses]
    BY <1>1, <1>2 DEF SequencerTypeOK, Statuses
  <2>2. wal' \subseteq [by : Messages, status : Statuses]
    BY <1>1, <1>7 DEF SequencerTypeOK
  <2> QED BY <2>1, <2>2, <1>1, <1>2, <1>3, <1>6, <1>7 DEF SequencerTypeOK
<1>10. \A k \in Messages \ {m} : status'[k] = status[k]
  BY <1>1, <1>2 DEF SequencerTypeOK
<1>11. waterMark' <= waterMark + 1
  BY <1>2, <1>3
<1> QED BY <1>2, <1>4, <1>6, <1>7, <1>8, <1>9, <1>10, <1>11, LeavesFlight

\* A step of the sequencer keeps its invariant.
LEMMA SequencerStep ==
  ASSUME SeqInv, DlqTypeOK, SequencerNext
  PROVE  SeqInv'
<1>1. SequencerTypeOK /\ CountedBelowHead
  BY DEF SeqInv
<1>2. ASSUME NEW m \in Messages, Submitting(m)
      PROVE  SeqInv'
  <2>1. /\ UNCHANGED sequencerVars /\ proc[m].pc = "handler"
        /\ proc'[m].pc \in {"handler", "insert"}
        /\ \A k \in Messages : k # m => proc'[k] = proc[k]
    BY <1>2 DEF Submitting, HandlerThrows, ProcessGoto, DlqTypeOK
  <2>2. \A k \in Messages : InFlight(k)' <=> InFlight(k)
    BY <2>1 DEF InFlight, sequencerVars
  <2>3. Flying' = Flying
    BY <2>2 DEF Flying
  <2>4. SequencerTypeOK'
    BY <1>1, <2>1 DEF SequencerTypeOK, sequencerVars, walFile
  <2>5. NoncesGiven' /\ LoggedHaveNonces' /\ PendingUntilSettled'
    BY <2>1 DEF SeqInv, NoncesGiven, LoggedHaveNonces, PendingUntilSettled, sequencerVars,
                walFile
  <2>6. CountedBelowHead' /\ DistinctNonces' /\ LifeOfRequests'
    BY <2>1, <2>3 DEF SeqInv, CountedBelowHead, DistinctNonces, LifeOfRequests, sequencerVars, walFile
  <2>7. WalCoversInFlight'
    BY <2>1, <2>2 DEF SeqInv, WalCoversInFlight, sequencerVars, walFile
  <2> QED BY <2>4, <2>5, <2>6, <2>7 DEF SeqInv
<1>3. ASSUME NEW m \in Messages, Failed(m)
      PROVE  SeqInv'
  <2>1. /\ up /\ insert(m) /\ status' = [status EXCEPT ![m] = "failed"]
        /\ UNCHANGED <<up, headPointer, waterMark, walFlushCounter, nonce, buffer, resent,
                        interrupted, crashes, wal, walOpen, walState, waterMarkFile>>
    BY <1>3 DEF Failed, walFile
  <2>2. ProcMoves(m, "threw") /\ proc[m].pc = "insert"
    BY <2>1, ProcessGotoMoves DEF insert
  <2>3. SequencerTypeOK'
    <3>1. status' \in [Messages -> Statuses]
      BY <1>1, <2>1 DEF SequencerTypeOK, Statuses
    <3> QED BY <3>1, <1>1, <2>1 DEF SequencerTypeOK
  <2>4. \A k \in Messages \ {m} : status'[k] = status[k]
    BY <1>1, <2>1 DEF SequencerTypeOK
  <2>5. waterMark \in Nat /\ waterMarkFile \in Nat /\ waterMarkFile <= waterMark
    BY <1>1 DEF SequencerTypeOK, CountedBelowHead
  <2>6. waterMark <= waterMark' /\ waterMark' <= waterMark + 1
        /\ waterMarkFile <= waterMarkFile' /\ waterMarkFile' <= waterMark'
    BY <2>1, <2>5
  <2> QED BY <2>1, <2>2, <2>3, <2>4, <2>6, LeavesFlight
<1>4. CASE Crash
  <2>1. /\ UNCHANGED <<headPointer, waterMark, walFlushCounter, nonce, status, wal, walOpen,
                        walState, waterMarkFile>>
        /\ buffer' = <<>> /\ up' = FALSE /\ resent' = {}
        /\ interrupted' = {m \in Messages : InFlight(m)} \ Range(buffer)
    BY <1>4 DEF Crash, walFile
  <2>2. \A k \in Messages :
          /\ proc[k].pc \notin {"handler", "insert"} => proc'[k] = proc[k]
          /\ proc[k].pc \in {"handler", "insert"} => proc'[k].pc = "crashed"
    BY <1>4 DEF Crash, DlqTypeOK
  <2>3. Flying' = {} /\ \A k \in Messages : ~InFlight(k)'
    BY <2>2 DEF Flying, InFlight
  <2>4. SequencerTypeOK'
    <3>1. crashes' \in 0..MaxCrashes
      BY <1>1, <1>4, SequencerAssumption DEF Crash, SequencerTypeOK
    <3>2. up' \in BOOLEAN
      BY <2>1
    <3>3. buffer' \in Seq(Messages) /\ {resent', interrupted'} \subseteq SUBSET Messages
      BY <2>1
    <3> QED BY <3>1, <3>2, <3>3, <1>1, <2>1 DEF SequencerTypeOK
  <2>5. NoncesGiven' /\ LoggedHaveNonces' /\ PendingUntilSettled' /\ LifeOfRequests'
    BY <2>1, <2>2, <2>3 DEF SeqInv, NoncesGiven, LoggedHaveNonces, PendingUntilSettled, Range,
                            LifeOfRequests
  <2>6. CountedBelowHead'
    <3>1. Cardinality(Flying') = 0 /\ Cardinality(Flying) \in Nat
      BY <2>3, FS_EmptySet, FlyingCounts
    <3>2. {headPointer, waterMark} \subseteq Nat
      BY <1>1 DEF SequencerTypeOK
    <3>3. waterMark' + Cardinality(Flying') <= headPointer'
      BY <1>1, <2>1, <3>1, <3>2 DEF CountedBelowHead
    <3> QED BY <1>1, <2>1, <2>3, <3>3 DEF CountedBelowHead
  <2>7. DistinctNonces'
    BY <2>3 DEF DistinctNonces
  <2>8. WalCoversInFlight'
    BY <2>1, <2>3 DEF SeqInv, WalCoversInFlight
  <2> QED BY <2>4, <2>5, <2>6, <2>7, <2>8 DEF SeqInv
<1>5. CASE Restart
  <2>1. /\ UNCHANGED <<nonce, status, buffer, wal, walOpen, waterMarkFile, crashes, proc>>
        /\ ~up /\ up' = TRUE /\ walFlushCounter' = 0 /\ walState' = "whole" /\ interrupted' = {}
        /\ waterMark' = waterMarkFile /\ headPointer' = waterMarkFile
        /\ resent' = {e.by : e \in {l \in wal : l.status = "pending"}}
    BY <1>5 DEF Restart, dlqVars
  <2>2. Flying = {} /\ Flying' = {}
    BY <2>1 DEF SeqInv, LifeOfRequests, Flying, InFlight
  <2>3. SequencerTypeOK'
    <3>1. resent' \subseteq Messages
      BY <1>1, <2>1, SequencerTypes
    <3>2. up' \in BOOLEAN /\ walState' \in {"whole", "cut", "unreadable"}
      BY <2>1
    <3> QED BY <1>1, <2>1, <3>1, <3>2 DEF SequencerTypeOK
  <2>4. NoncesGiven' /\ LoggedHaveNonces' /\ PendingUntilSettled' /\ LifeOfRequests'
    BY <2>1 DEF SeqInv, NoncesGiven, LoggedHaveNonces, PendingUntilSettled, LifeOfRequests
  <2>5. CountedBelowHead'
    <3>1. Cardinality(Flying') = 0
      BY <2>2, FS_EmptySet
    <3>2. waterMarkFile \in Nat
      BY <1>1 DEF SequencerTypeOK
    <3> QED BY <2>1, <2>2, <3>1, <3>2 DEF CountedBelowHead
  <2>6. DistinctNonces' /\ WalCoversInFlight'
    BY <2>1, <2>2 DEF DistinctNonces, WalCoversInFlight, Flying
  <2> QED BY <2>3, <2>4, <2>5, <2>6 DEF SeqInv
<1>6. ASSUME NEW m \in Messages, resubmitEntry(m)
      PROVE  SeqInv'
  <2>1. /\ resent' = resent \ {m}
        /\ UNCHANGED <<proc, up, headPointer, waterMark, walFlushCounter, nonce, status, buffer,
                       wal, walOpen, walState, waterMarkFile, interrupted, crashes>>
    BY <1>6 DEF resubmitEntry, walFile, dlqVars
  <2>2. SequencerTypeOK'
    BY <1>1, <2>1 DEF SequencerTypeOK
  <2>3. Flying' = Flying /\ \A k \in Messages : InFlight(k)' <=> InFlight(k)
    BY <2>1 DEF Flying, InFlight
  <2> QED BY <2>1, <2>2, <2>3 DEF SeqInv, NoncesGiven, LoggedHaveNonces, PendingUntilSettled,
              LifeOfRequests, CountedBelowHead, DistinctNonces, WalCoversInFlight
<1> QED BY <1>2, <1>3, <1>4, <1>5, <1>6, ArrivalInv, RefusalInv, ConfirmedInv
        DEF SequencerNext, RequestStep

\* However reservations, flushes and purges that may fail half-way, confirmations,
\* crashes and restarts are interleaved: as long as no line was glued and no write of
\* the mark or of a purge was cut short, a flushed entry of a request in flight, or
\* interrupted by a crash, is pending in the file above the persisted mark; the mark
\* never overtakes the reservations; and no two requests of one life of the process
\* await their submission with one nonce.
THEOREM SequencerIsSafe == Spec => []SequencerSafe
<1> DEFINE Safe == Moves({"sequencer"}) => SeqInv
<1>1. Init => Safe
  <2> SUFFICES ASSUME DlqInit, SequencerInit PROVE SeqInv
    BY DEF Init
  <2>1. \A m \in Messages : proc[m].pc = "idle"
    BY DEF DlqInit
  <2>2. Flying = {} /\ \A m \in Messages : ~InFlight(m)
    BY <2>1 DEF Flying, InFlight
  <2>3. Cardinality(Flying) = 0
    BY <2>2, FS_EmptySet
  <2>4. SequencerTypeOK
    <3>1. up \in BOOLEAN /\ walOpen \in BOOLEAN /\ walState \in {"whole", "cut", "unreadable"}
      BY DEF SequencerInit
    <3>2. crashes \in 0..MaxCrashes /\ buffer \in Seq(Messages)
      BY SequencerAssumption DEF SequencerInit
    <3> QED BY <3>1, <3>2 DEF SequencerInit, SequencerTypeOK, Statuses
  <2>5. NoncesGiven /\ LoggedHaveNonces /\ PendingUntilSettled
    BY <2>1 DEF SequencerInit, NoncesGiven, LoggedHaveNonces, PendingUntilSettled, Range
  <2>6. CountedBelowHead
    BY <2>2, <2>3 DEF SequencerInit, CountedBelowHead
  <2>7. DistinctNonces /\ WalCoversInFlight /\ LifeOfRequests
    BY <2>2 DEF SequencerInit, DistinctNonces, WalCoversInFlight, LifeOfRequests
  <2> QED BY <2>2, <2>4, <2>5, <2>6, <2>7 DEF SeqInv
<1>2. DlqInv /\ Safe /\ [Next]_vars => Safe'
  <2> SUFFICES ASSUME DlqInv, SeqInv, focus = "sequencer", [Next]_vars PROVE SeqInv'
    BY DEF Moves, Next, vars
  <2>1. CASE SequencerNext
    BY <2>1, SequencerStep DEF DlqInv
  <2>2. CASE UNCHANGED vars
    <3>1. UNCHANGED <<proc, up, headPointer, waterMark, walFlushCounter, nonce, status, buffer,
                      wal, walOpen, walState, waterMarkFile, resent, interrupted, crashes>>
      BY <2>2 DEF vars, stores, dlqVars, sequencerVars, walFile
    <3> QED BY <3>1 DEF SeqInv, SequencerTypeOK, Flying, InFlight, NoncesGiven,
                        LoggedHaveNonces, PendingUntilSettled, CountedBelowHead, LifeOfRequests,
                        DistinctNonces, WalCoversInFlight
  <2> QED BY <2>1, <2>2 DEF Next
<1>3. Safe => SequencerSafe
  <2> SUFFICES ASSUME SeqInv PROVE SequencerTypeOK /\ WalCoversInFlight /\ NonceOrder
    BY DEF SequencerSafe
  <2>1. SequencerTypeOK /\ WalCoversInFlight /\ CountedBelowHead /\ DistinctNonces
    BY DEF SeqInv
  <2>2. {waterMark, headPointer, Cardinality(Flying)} \subseteq Nat
    BY <2>1, FlyingCounts DEF SequencerTypeOK
  <2>3. waterMarkFile <= waterMark /\ waterMark <= headPointer
    BY <2>1, <2>2 DEF CountedBelowHead
  <2> QED BY <2>1, <2>3 DEF NonceOrder, DistinctNonces, Flying
<1> QED BY <1>1, <1>2, <1>3, DlqInvariance, PTL DEF Spec

-----------------------------------------------------------------------------
(***************************************************************************)
(* Migrations                                                              *)
(***************************************************************************)
Migrating(c) == Running(c) /\ migrator[c].op = "migrate"
RollingBackFiles(c) == Running(c) /\ migrator[c].op = "rollback"

\* A running call has files to run, and is one of the two kinds.
CallsHaveFiles ==
  \A c \in Migrators : Running(c) => migrator[c].todo # {} /\ migrator[c].op # "none"

\* Of the versions that a migrate() still has files of, the others are in the schema.
RestIsPresent ==
  \A c \in Migrators : Migrating(c) =>
    \A f \in migrator[c].todo, g \in Files :
      versionOf[g] = versionOf[f] => g \in migrator[c].todo \/ (g < f /\ g \in schema)

\* A rollback() runs the last file of a version.
RollsLastBack ==
  \A c \in Migrators : RollingBackFiles(c) =>
    \A f \in migrator[c].todo, g \in Files : versionOf[g] = versionOf[f] => g <= f

\* Calls of both kinds were noticed.
OneKind ==
  ~crossed => \A c, d \in Migrators : Running(c) /\ Running(d) => migrator[c].op = migrator[d].op

\* What is below the files of a migrate() is applied or comes first.
BelowIsApplied ==
  ~crossed => \A c \in Migrators : Migrating(c) =>
    \A f \in migrator[c].todo, g \in Files :
      versionOf[g] < versionOf[f] => versionOf[g] \in applied \/ g \in migrator[c].todo

\* What is above the files of a rollback() is not applied or comes first.
AboveIsRolledBack ==
  ~crossed => \A c \in Migrators : RollingBackFiles(c) =>
    \A f \in migrator[c].todo, g \in Files :
      versionOf[f] < versionOf[g] /\ versionOf[g] \in applied =>
        LastOf(versionOf[g]) \in migrator[c].todo

MigrationInv ==
  /\ MigrationTypeOK /\ CallsHaveFiles
  /\ RestIsPresent /\ RollsLastBack /\ AppliedIsPresent
  /\ OneKind /\ BelowIsApplied /\ AboveIsRolledBack /\ NoGap

\* The files are the numbers up to the last, and their versions do not fall.
LEMMA FilesAreOrdered ==
  /\ Cardinality(Files) \in Nat /\ Files = 1..Cardinality(Files) /\ Files \subseteq Nat
  /\ \A f \in Files : versionOf[f] \in Nat
  /\ \A f, g \in Files : f <= g => versionOf[f] <= versionOf[g]
BY MigrationAssumption, FS_CardinalityType

\* Some files have a first one.
LEMMA FirstFile ==
  ASSUME NEW T, T # {}, T \subseteq Nat
  PROVE  \E f \in T : \A g \in T : f <= g
<1>1. PICK f \in T : \A g \in T : ~(<<g, f>> \in OpToRel(<, Nat))
  BY NatLessThanWellFounded, WFMin
<1>2. ASSUME NEW g \in T PROVE f <= g
  <2>1. CASE g < f
    BY <2>1, <1>1 DEF OpToRel
  <2> QED BY <2>1
<1> QED BY <1>2

\* And a last one.
LEMMA LastFile ==
  ASSUME NEW T, T # {}, T \subseteq Files
  PROVE  \E f \in T : \A g \in T : g <= f
<1> DEFINE n == Cardinality(Files)
           U == {n - f : f \in T}
<1>1. n \in Nat /\ \A f \in T : f \in Nat /\ f <= n
  BY FilesAreOrdered
<1> HIDE DEF n
<1>2. U # {} /\ U \subseteq Nat
  BY <1>1
<1>3. PICK u \in U : \A w \in U : u <= w
  BY <1>2, FirstFile
<1>4. PICK f \in T : u = n - f
  OBVIOUS
<1>5. ASSUME NEW g \in T PROVE g <= f
  <2>1. n - f <= n - g
    BY <1>3, <1>4
  <2> QED BY <2>1, <1>1
<1> QED BY <1>5

\* The file that a running call runs next.
LEMMA NextFileIs ==
  ASSUME MigrationTypeOK, CallsHaveFiles, NEW c \in Migrators, Running(c)
  PROVE  /\ NextFile(c) \in migrator[c].todo /\ NextFile(c) \in Files
         /\ migrator[c].todo \subseteq Files
         /\ migrator[c].op = "migrate" => \A g \in migrator[c].todo : NextFile(c) <= g
         /\ migrator[c].op = "rollback" => \A g \in migrator[c].todo : g <= NextFile(c)
<1> DEFINE T == migrator[c].todo
<1>1. T # {} /\ T \subseteq Files /\ T \subseteq Nat
  BY FilesAreOrdered DEF CallsHaveFiles, MigrationTypeOK
<1> HIDE DEF T
<1>2. loadMigrations(T) \in T /\ \A g \in T : loadMigrations(T) <= g
  BY <1>1, FirstFile DEF loadMigrations
<1>3. RollbackOrder(T) \in T /\ \A g \in T : g <= RollbackOrder(T)
  BY <1>1, LastFile DEF RollbackOrder
<1> QED BY <1>1, <1>2, <1>3 DEF NextFile, T

\* The last file of a version.
LEMMA LastOfVersion ==
  ASSUME NEW f \in Files
  PROVE  /\ LastOf(versionOf[f]) \in Files /\ versionOf[LastOf(versionOf[f])] = versionOf[f]
         /\ \A g \in Files : versionOf[g] = versionOf[f] => g <= LastOf(versionOf[f])
<1> DEFINE T == {g \in Files : versionOf[g] = versionOf[f]}
<1>1. PICK l \in T : \A g \in T : g <= l
  BY LastFile
<1>2. \E l1 \in Files : versionOf[l1] = versionOf[f] /\ \A g \in Files : versionOf[g] = versionOf[f] => g <= l1
  BY <1>1
<1> QED BY <1>2 DEF LastOf

\* A call starts.
LEMMA StartCallInv ==
  ASSUME MigrationInv, NEW c \in Migrators,
         NEW op \in {"migrate", "rollback"}, NEW todo \in SUBSET Files, StartCall(c, op, todo),
         op = "migrate" => \A f \in todo, g \in Files :
           /\ versionOf[g] = versionOf[f] => g \in todo
           /\ versionOf[g] < versionOf[f] => versionOf[g] \in applied \/ g \in todo,
         op = "rollback" => \A f \in todo, g \in Files :
           /\ versionOf[g] = versionOf[f] => g <= f
           /\ versionOf[f] < versionOf[g] /\ versionOf[g] \in applied => LastOf(versionOf[g]) \in todo
  PROVE  MigrationInv'
<1>1. /\ MigrationTypeOK /\ CallsHaveFiles /\ RestIsPresent /\ RollsLastBack /\ AppliedIsPresent
      /\ OneKind /\ BelowIsApplied /\ AboveIsRolledBack /\ NoGap
  BY DEF MigrationInv
<1> DEFINE r == [op |-> op, pc |-> IF todo = {} THEN "done" ELSE "begin", todo |-> todo]
<1>2. /\ migrator[c].pc = "idle" /\ migrator' = [migrator EXCEPT ![c] = r]
      /\ crossed' = (crossed \/ \E d \in Migrators : Running(d) /\ migrator[d].op # op)
      /\ UNCHANGED <<schema, applied, split>>
  BY DEF StartCall
<1>3. /\ migrator'[c] = r /\ \A d \in Migrators : d # c => migrator'[d] = migrator[d]
      /\ r.op = op /\ r.todo = todo /\ (r.pc = "begin" => todo # {}) /\ r.pc \in {"begin", "done"}
  BY <1>1, <1>2 DEF MigrationTypeOK
<1>4. MigrationTypeOK'
  <2>1. migrator' \in [Migrators ->
          [op : {"none", "migrate", "rollback"},
           pc : {"idle", "begin", "commit", "skip", "done", "threw"},
           todo : SUBSET Files]]
    BY <1>1, <1>2 DEF MigrationTypeOK
  <2>2. crossed' \in BOOLEAN
    BY <1>1, <1>2 DEF MigrationTypeOK
  <2> QED BY <1>1, <1>2, <2>1, <2>2 DEF MigrationTypeOK
<1> HIDE DEF r
<1>5. /\ ~Running(c)
      /\ \A d \in Migrators : d # c => (Running(d)' <=> Running(d))
      /\ \A d \in Migrators : d # c => (Migrating(d)' <=> Migrating(d))
      /\ \A d \in Migrators : d # c => (RollingBackFiles(d)' <=> RollingBackFiles(d))
      /\ Migrating(c)' => op = "migrate"
      /\ RollingBackFiles(c)' => op = "rollback"
  BY <1>2, <1>3 DEF Running, Migrating, RollingBackFiles
<1>6. CallsHaveFiles'
  BY <1>1, <1>3, <1>5 DEF CallsHaveFiles, Running
<1>7. RestIsPresent'
  <2> SUFFICES ASSUME NEW d \in Migrators, Migrating(d)', NEW f \in migrator'[d].todo, NEW g \in Files,
                      versionOf[g] = versionOf[f]
               PROVE  g \in migrator'[d].todo \/ (g < f /\ g \in schema')
    BY DEF RestIsPresent
  <2>1. CASE d = c
    BY <2>1, <1>3, <1>5
  <2>2. CASE d # c
    BY <2>2, <1>1, <1>2, <1>3, <1>5 DEF RestIsPresent
  <2> QED BY <2>1, <2>2
<1>8. RollsLastBack'
  <2> SUFFICES ASSUME NEW d \in Migrators, RollingBackFiles(d)', NEW f \in migrator'[d].todo,
                      NEW g \in Files, versionOf[g] = versionOf[f]
               PROVE  g <= f
    BY DEF RollsLastBack
  <2>1. CASE d = c
    BY <2>1, <1>3, <1>5
  <2>2. CASE d # c
    BY <2>2, <1>1, <1>3, <1>5 DEF RollsLastBack
  <2> QED BY <2>1, <2>2
<1>9. AppliedIsPresent'
  <2> SUFFICES ASSUME NEW f \in Files, versionOf[f] \in applied, f \notin schema,
                      versionOf[f] \notin split
               PROVE  \E d \in Migrators : Migrating(d)' /\ f \in migrator'[d].todo
    BY <1>2 DEF AppliedIsPresent, Migrating
  <2>1. PICK d \in Migrators : Migrating(d) /\ f \in migrator[d].todo
    BY <1>1 DEF AppliedIsPresent, Migrating
  <2>2. d # c
    BY <2>1, <1>5 DEF Migrating
  <2> QED BY <2>1, <2>2, <1>3, <1>5
<1>10. ~crossed' => ~crossed /\ \A d \in Migrators : Running(d) => migrator[d].op = op
  BY <1>2
<1>11. OneKind'
  <2> SUFFICES ASSUME ~crossed', NEW d \in Migrators, Running(d)' PROVE migrator'[d].op = op
    BY DEF OneKind
  <2> QED BY <1>3, <1>5, <1>10
<1>12. BelowIsApplied'
  <2> SUFFICES ASSUME ~crossed', NEW d \in Migrators, Migrating(d)', NEW f \in migrator'[d].todo,
                      NEW g \in Files, versionOf[g] < versionOf[f]
               PROVE  versionOf[g] \in applied \/ g \in migrator'[d].todo
    BY <1>2 DEF BelowIsApplied
  <2>1. CASE d = c
    BY <2>1, <1>3, <1>5
  <2>2. CASE d # c
    BY <2>2, <1>1, <1>3, <1>5, <1>10 DEF BelowIsApplied
  <2> QED BY <2>1, <2>2
<1>13. AboveIsRolledBack'
  <2> SUFFICES ASSUME ~crossed', NEW d \in Migrators, RollingBackFiles(d)', NEW f \in migrator'[d].todo,
                      NEW g \in Files, versionOf[f] < versionOf[g], versionOf[g] \in applied
               PROVE  LastOf(versionOf[g]) \in migrator'[d].todo
    BY <1>2 DEF AboveIsRolledBack
  <2>1. CASE d = c
    BY <2>1, <1>3, <1>5
  <2>2. CASE d # c
    BY <2>2, <1>1, <1>3, <1>5, <1>10 DEF AboveIsRolledBack
  <2> QED BY <2>1, <2>2
<1>14. NoGap'
  BY <1>1, <1>2, <1>10 DEF NoGap
<1> QED BY <1>4, <1>6, <1>7, <1>8, <1>9, <1>11, <1>12, <1>13, <1>14 DEF MigrationInv

\* The files that a migrate() or a rollback() starts with.
LEMMA StartInv ==
  ASSUME MigrationInv, NEW c \in Migrators, NEW target,
         migrate(c, target) \/ rollback(c, target),
         target \in {0} \cup {versionOf[f] : f \in Files}
  PROVE  MigrationInv'
<1>1. target \in Nat /\ \A f \in Files : versionOf[f] \in Nat
  BY FilesAreOrdered
<1>2. applied \subseteq {versionOf[f] : f \in Files}
  BY DEF MigrationInv, MigrationTypeOK
<1>3. CASE migrate(c, target)
  <2> DEFINE todo == {f \in Files : versionOf[f] \notin applied /\ versionOf[f] <= target}
  <2>1. StartCall(c, "migrate", todo) /\ todo \in SUBSET Files
    BY <1>3 DEF migrate
  <2>2. \A f \in todo, g \in Files :
          /\ versionOf[g] = versionOf[f] => g \in todo
          /\ versionOf[g] < versionOf[f] => versionOf[g] \in applied \/ g \in todo
    BY <1>1
  <2> HIDE DEF todo
  <2> QED BY <2>1, <2>2, StartCallInv
<1>4. CASE rollback(c, target)
  <2> DEFINE todo == {LastOf(v) : v \in {w \in applied : w > target}}
  <2>1. \A f \in todo : \E h \in Files : /\ f = LastOf(versionOf[h]) /\ versionOf[h] > target
    BY <1>2
  <2>2. \A f \in todo : /\ f \in Files /\ versionOf[f] > target
                        /\ \A g \in Files : versionOf[g] = versionOf[f] => g <= f
    BY <2>1, LastOfVersion
  <2>3. StartCall(c, "rollback", todo) /\ todo \in SUBSET Files
    BY <1>4, <2>2 DEF rollback
  <2>4. \A f \in todo, g \in Files :
          versionOf[f] < versionOf[g] /\ versionOf[g] \in applied => LastOf(versionOf[g]) \in todo
    BY <1>1, <2>2
  <2> HIDE DEF todo
  <2> QED BY <2>2, <2>3, <2>4, StartCallInv
<1> QED BY <1>3, <1>4

\* A step of a call that runs no file to its end: BEGIN, or a failure, which leaves
\* what the call had to run to split.
LEMMA StopsOrBegins ==
  ASSUME MigrationInv, NEW c \in Migrators, RunFile(c) \/ MigrationFails(c)
  PROVE  MigrationInv'
<1>1. /\ MigrationTypeOK /\ CallsHaveFiles /\ RestIsPresent /\ RollsLastBack /\ AppliedIsPresent
      /\ OneKind /\ BelowIsApplied /\ AboveIsRolledBack /\ NoGap
  BY DEF MigrationInv
<1>2. /\ Running(c) /\ UNCHANGED <<schema, applied, crossed>> /\ split \subseteq split'
      /\ \E next \in {"commit", "skip", "threw"} : migrator' = [migrator EXCEPT ![c].pc = next]
  BY DEF RunFile, MigrationFails, Running, MigratorGoto
<1>3. /\ migrator'[c].pc \in {"commit", "skip", "threw"}
      /\ \A d \in Migrators : migrator'[d].op = migrator[d].op /\ migrator'[d].todo = migrator[d].todo
      /\ \A d \in Migrators : d # c => migrator'[d] = migrator[d]
  BY <1>1, <1>2 DEF MigrationTypeOK
<1>4. \A d \in Migrators : /\ Running(d)' => Running(d)
                           /\ Migrating(d)' => Migrating(d)
                           /\ RollingBackFiles(d)' => RollingBackFiles(d)
  BY <1>2, <1>3 DEF Running, Migrating, RollingBackFiles
<1>5. MigrationTypeOK'
  <2>1. migrator' \in [Migrators ->
          [op : {"none", "migrate", "rollback"},
           pc : {"idle", "begin", "commit", "skip", "done", "threw"},
           todo : SUBSET Files]]
    BY <1>1, <1>2 DEF MigrationTypeOK
  <2>2. split' \subseteq applied \cup {versionOf[f] : f \in Files}
    BY <1>1 DEF RunFile, MigrationFails, MigrationTypeOK
  <2> QED BY <1>1, <1>2, <2>1, <2>2 DEF MigrationTypeOK
<1>6. CallsHaveFiles'
  BY <1>1, <1>3, <1>4 DEF CallsHaveFiles
<1>7. RestIsPresent' /\ RollsLastBack'
  BY <1>1, <1>2, <1>3, <1>4 DEF RestIsPresent, RollsLastBack
<1>8. AppliedIsPresent'
  <2> SUFFICES ASSUME NEW f \in Files, versionOf[f] \in applied, f \notin schema,
                      versionOf[f] \notin split'
               PROVE  \E d \in Migrators : Migrating(d)' /\ f \in migrator'[d].todo
    BY <1>2 DEF AppliedIsPresent, Migrating
  <2>1. PICK d \in Migrators : Migrating(d) /\ f \in migrator[d].todo
    BY <1>1, <1>2 DEF AppliedIsPresent, Migrating
  <2>2. CASE d # c
    BY <2>1, <2>2, <1>3 DEF Migrating, Running
  <2>3. CASE d = c /\ MigrationFails(c)
    BY <2>1, <2>3 DEF MigrationFails
  <2>4. CASE d = c /\ RunFile(c)
    <3>1. migrator'[c].pc \in {"commit", "skip"}
      BY <2>4, <1>1 DEF RunFile, MigratorGoto, MigrationTypeOK
    <3> QED BY <2>1, <2>4, <3>1, <1>3 DEF Migrating, Running
  <2> QED BY <2>2, <2>3, <2>4
<1>9. OneKind' /\ BelowIsApplied' /\ AboveIsRolledBack' /\ NoGap'
  <2>1. OneKind'
    BY <1>1, <1>2, <1>3, <1>4 DEF OneKind
  <2>2. BelowIsApplied'
    BY <1>1, <1>2, <1>3, <1>4 DEF BelowIsApplied
  <2>3. AboveIsRolledBack'
    BY <1>1, <1>2, <1>3, <1>4 DEF AboveIsRolledBack
  <2>4. NoGap'
    BY <1>1, <1>2 DEF NoGap
  <2> QED BY <2>1, <2>2, <2>3, <2>4
<1> QED BY <1>5, <1>6, <1>7, <1>8, <1>9 DEF MigrationInv

\* The call has run its next file and goes on with the rest.
LEMMA RestEffect ==
  ASSUME MigrationTypeOK, NEW c \in Migrators, Rest(c)
  PROVE  /\ migrator' \in [Migrators ->
              [op : {"none", "migrate", "rollback"},
               pc : {"idle", "begin", "commit", "skip", "done", "threw"},
               todo : SUBSET Files]]
         /\ migrator'[c].todo = migrator[c].todo \ {NextFile(c)}
         /\ \A d \in Migrators : migrator'[d].op = migrator[d].op
         /\ \A d \in Migrators : d # c => migrator'[d] = migrator[d]
         /\ Running(c)' <=> migrator'[c].todo # {}
<1> DEFINE rest == migrator[c].todo \ {NextFile(c)}
           next == IF rest = {} THEN "done" ELSE "begin"
<1>1. migrator' = [migrator EXCEPT ![c].todo = rest, ![c].pc = next]
  BY DEF Rest
<1>2. rest \in SUBSET Files /\ next \in {"done", "begin"} /\ (next = "begin" <=> rest # {})
  BY DEF MigrationTypeOK
<1> HIDE DEF rest, next
<1>3. migrator'[c].todo = rest /\ migrator'[c].pc = next /\ migrator'[c].op = migrator[c].op
  BY <1>1 DEF MigrationTypeOK
<1>4. \A d \in Migrators : d # c => migrator'[d] = migrator[d]
  BY <1>1 DEF MigrationTypeOK
<1>5. Running(c)' <=> rest # {}
  BY <1>2, <1>3 DEF Running
<1>6. migrator' \in [Migrators ->
        [op : {"none", "migrate", "rollback"},
         pc : {"idle", "begin", "commit", "skip", "done", "threw"},
         todo : SUBSET Files]]
  BY <1>1, <1>2 DEF MigrationTypeOK
<1> QED BY <1>3, <1>4, <1>5, <1>6 DEF rest

\* COMMIT of a file of migrate().
LEMMA AppliesFile ==
  ASSUME MigrationInv, NEW c \in Migrators, applyMigration(c)
  PROVE  MigrationInv'
<1> DEFINE h == NextFile(c)
<1>1. /\ MigrationTypeOK /\ CallsHaveFiles /\ RestIsPresent /\ RollsLastBack /\ AppliedIsPresent
      /\ OneKind /\ BelowIsApplied /\ AboveIsRolledBack /\ NoGap
  BY DEF MigrationInv
<1>2. /\ Migrating(c) /\ schema' = schema \cup {h} /\ applied' = applied \cup {versionOf[h]}
      /\ Rest(c) /\ UNCHANGED <<crossed, split>>
  BY DEF applyMigration, Migrating, Running
<1>3. /\ h \in migrator[c].todo /\ h \in Files /\ migrator[c].todo \subseteq Files
      /\ \A g \in migrator[c].todo : h <= g
  BY <1>1, <1>2, NextFileIs DEF Migrating
<1>4. /\ migrator'[c].todo = migrator[c].todo \ {h}
      /\ \A d \in Migrators : migrator'[d].op = migrator[d].op
      /\ \A d \in Migrators : d # c => migrator'[d] = migrator[d]
      /\ Running(c)' <=> migrator'[c].todo # {}
  BY <1>1, <1>2, RestEffect
<1>5. MigrationTypeOK'
  <2>1. migrator' \in [Migrators ->
          [op : {"none", "migrate", "rollback"},
           pc : {"idle", "begin", "commit", "skip", "done", "threw"},
           todo : SUBSET Files]]
    BY <1>1, <1>2, RestEffect
  <2>2. applied' \subseteq {versionOf[f] : f \in Files}
    BY <1>1, <1>2, <1>3 DEF MigrationTypeOK
  <2>3. schema' \subseteq Files /\ split' \subseteq applied' \cup {versionOf[f] : f \in Files}
    BY <1>1, <1>2, <1>3 DEF MigrationTypeOK
  <2> QED BY <1>1, <1>2, <2>1, <2>2, <2>3 DEF MigrationTypeOK
<1> HIDE DEF h
<1>6. \A d \in Migrators : /\ Running(d)' => Running(d)
                           /\ Migrating(d)' => Migrating(d)
                           /\ RollingBackFiles(d)' => RollingBackFiles(d) /\ d # c
                           /\ migrator'[d].todo \subseteq migrator[d].todo
                           /\ d # c => (Migrating(d)' <=> Migrating(d))
  BY <1>2, <1>4 DEF Running, Migrating, RollingBackFiles
<1>7. CallsHaveFiles'
  BY <1>1, <1>4, <1>6 DEF CallsHaveFiles, Running
<1>8. RestIsPresent'
  <2> SUFFICES ASSUME NEW d \in Migrators, Migrating(d)', NEW f \in migrator'[d].todo, NEW g \in Files,
                      versionOf[g] = versionOf[f]
               PROVE  g \in migrator'[d].todo \/ (g < f /\ g \in schema')
    BY DEF RestIsPresent
  <2>1. g \in migrator[d].todo \/ (g < f /\ g \in schema)
    BY <1>1, <1>6 DEF RestIsPresent
  <2>2. CASE d = c /\ g = h
    <3>1. f \in migrator[c].todo /\ f # h /\ f \in Files
      BY <2>2, <1>3, <1>4
    <3>2. h <= f /\ f \in Nat /\ h \in Nat
      BY <3>1, <1>3, FilesAreOrdered
    <3> QED BY <2>2, <3>1, <3>2, <1>2
  <2>3. CASE ~(d = c /\ g = h)
    BY <2>1, <2>3, <1>2, <1>4
  <2> QED BY <2>2, <2>3
<1>9. RollsLastBack'
  BY <1>1, <1>6 DEF RollsLastBack
<1>10. AppliedIsPresent'
  <2> SUFFICES ASSUME NEW f \in Files, versionOf[f] \in applied', f \notin schema',
                      versionOf[f] \notin split
               PROVE  \E d \in Migrators : Migrating(d)' /\ f \in migrator'[d].todo
    BY <1>2 DEF AppliedIsPresent, Migrating
  <2>0. f # h /\ f \notin schema
    BY <1>2
  <2>1. PICK d \in Migrators : Migrating(d) /\ f \in migrator[d].todo
    <3>1. CASE versionOf[f] \in applied
      BY <2>0, <3>1, <1>1 DEF AppliedIsPresent, Migrating
    <3>2. CASE versionOf[f] = versionOf[h]
      BY <2>0, <3>2, <1>1, <1>2, <1>3 DEF RestIsPresent
    <3> QED BY <3>1, <3>2, <1>2
  <2>2. f \in migrator'[d].todo
    BY <2>0, <2>1, <1>4
  <2>3. Migrating(d)'
    BY <2>1, <2>2, <1>2, <1>4, <1>6 DEF Migrating
  <2> QED BY <2>2, <2>3
<1>11. OneKind'
  BY <1>1, <1>2, <1>4, <1>6 DEF OneKind
<1>12. BelowIsApplied'
  <2> SUFFICES ASSUME ~crossed, NEW d \in Migrators, Migrating(d)', NEW f \in migrator'[d].todo,
                      NEW g \in Files, versionOf[g] < versionOf[f]
               PROVE  versionOf[g] \in applied' \/ g \in migrator'[d].todo
    BY <1>2 DEF BelowIsApplied
  <2>1. versionOf[g] \in applied \/ g \in migrator[d].todo
    BY <1>1, <1>6 DEF BelowIsApplied
  <2> QED BY <2>1, <1>2, <1>4
<1>13. AboveIsRolledBack'
  <2> SUFFICES ASSUME ~crossed, NEW d \in Migrators, RollingBackFiles(d)' PROVE FALSE
    BY <1>2 DEF AboveIsRolledBack
  <2> QED BY <1>1, <1>2, <1>6 DEF OneKind, RollingBackFiles, Migrating
<1>14. NoGap'
  <2> SUFFICES ASSUME ~crossed, NEW f \in Files, NEW g \in Files, versionOf[g] \in applied',
                      versionOf[f] < versionOf[g]
               PROVE  versionOf[f] \in applied'
    BY <1>2 DEF NoGap
  <2>1. CASE versionOf[g] \in applied
    BY <2>1, <1>1, <1>2 DEF NoGap
  <2>2. CASE versionOf[g] = versionOf[h]
    <3>1. versionOf[f] \in applied \/ f \in migrator[c].todo
      BY <2>2, <1>1, <1>2, <1>3 DEF BelowIsApplied
    <3>2. f \notin migrator[c].todo
      <4> SUFFICES ASSUME f \in migrator[c].todo PROVE FALSE
        OBVIOUS
      <4>1. h <= f
        BY <1>3
      <4>2. versionOf[h] <= versionOf[f] /\ versionOf[h] \in Nat /\ versionOf[f] \in Nat
        BY <4>1, <1>3, FilesAreOrdered
      <4> QED BY <4>2, <2>2
    <3> QED BY <3>1, <3>2, <1>2
  <2> QED BY <2>1, <2>2, <1>2
<1> QED BY <1>5, <1>7, <1>8, <1>9, <1>10, <1>11, <1>12, <1>13, <1>14 DEF MigrationInv

\* COMMIT of a file of rollback().
LEMMA RollsFileBack ==
  ASSUME MigrationInv, NEW c \in Migrators, rollbackMigration(c)
  PROVE  MigrationInv'
<1> DEFINE h == NextFile(c)
<1>1. /\ MigrationTypeOK /\ CallsHaveFiles /\ RestIsPresent /\ RollsLastBack /\ AppliedIsPresent
      /\ OneKind /\ BelowIsApplied /\ AboveIsRolledBack /\ NoGap
  BY DEF MigrationInv
<1>2. /\ RollingBackFiles(c) /\ schema \ {h} \subseteq schema' /\ schema' \subseteq schema
      /\ applied' = applied \ {versionOf[h]}
      /\ Rest(c) /\ UNCHANGED <<crossed, split>>
  BY DEF rollbackMigration, RollingBackFiles, Running
<1>3. /\ h \in migrator[c].todo /\ h \in Files /\ migrator[c].todo \subseteq Files
      /\ \A g \in migrator[c].todo : g <= h
  BY <1>1, <1>2, NextFileIs DEF RollingBackFiles
<1>4. /\ migrator'[c].todo = migrator[c].todo \ {h}
      /\ \A d \in Migrators : migrator'[d].op = migrator[d].op
      /\ \A d \in Migrators : d # c => migrator'[d] = migrator[d]
      /\ Running(c)' <=> migrator'[c].todo # {}
  BY <1>1, <1>2, RestEffect
<1>5. MigrationTypeOK'
  <2>1. migrator' \in [Migrators ->
          [op : {"none", "migrate", "rollback"},
           pc : {"idle", "begin", "commit", "skip", "done", "threw"},
           todo : SUBSET Files]]
    BY <1>1, <1>2, RestEffect
  <2>2. schema' \subseteq Files /\ applied' \subseteq {versionOf[f] : f \in Files}
        /\ split' \subseteq applied' \cup {versionOf[f] : f \in Files}
    BY <1>1, <1>2 DEF MigrationTypeOK
  <2> QED BY <1>1, <1>2, <2>1, <2>2 DEF MigrationTypeOK
<1> HIDE DEF h
<1>6. \A d \in Migrators : /\ Running(d)' => Running(d)
                           /\ (Migrating(d)' <=> Migrating(d)) /\ (Migrating(d) => d # c)
                           /\ RollingBackFiles(d)' => RollingBackFiles(d)
                           /\ migrator'[d].todo \subseteq migrator[d].todo
  BY <1>2, <1>4 DEF Running, Migrating, RollingBackFiles
<1>7. \A g \in Files : versionOf[g] = versionOf[h] => g <= h
  BY <1>1, <1>2, <1>3 DEF RollsLastBack
<1>8. CallsHaveFiles'
  BY <1>1, <1>4, <1>6 DEF CallsHaveFiles, Running
<1>9. RestIsPresent'
  <2> SUFFICES ASSUME NEW d \in Migrators, Migrating(d)', NEW f \in migrator'[d].todo, NEW g \in Files,
                      versionOf[g] = versionOf[f]
               PROVE  g \in migrator'[d].todo \/ (g < f /\ g \in schema')
    BY DEF RestIsPresent
  <2>1. migrator'[d] = migrator[d] /\ Migrating(d)
    BY <1>4, <1>6
  <2>2. g \in migrator[d].todo \/ (g < f /\ g \in schema)
    BY <2>1, <1>1 DEF RestIsPresent
  <2>3. CASE g < f /\ g = h
    <3>1. f \in Files /\ f <= h
      BY <2>1, <2>3, <1>1, <1>7 DEF MigrationTypeOK
    <3>2. f \in Nat /\ g \in Nat
      BY <3>1, FilesAreOrdered
    <3> QED BY <2>3, <3>1, <3>2
  <2> QED BY <2>1, <2>2, <2>3, <1>2
<1>10. RollsLastBack'
  BY <1>1, <1>6 DEF RollsLastBack
<1>11. AppliedIsPresent'
  <2> SUFFICES ASSUME NEW f \in Files, versionOf[f] \in applied', f \notin schema',
                      versionOf[f] \notin split
               PROVE  \E d \in Migrators : Migrating(d)' /\ f \in migrator'[d].todo
    BY <1>2 DEF AppliedIsPresent, Migrating
  <2>1. versionOf[f] \in applied /\ f # h /\ f \notin schema
    BY <1>2
  <2>2. PICK d \in Migrators : Migrating(d) /\ f \in migrator[d].todo
    BY <2>1, <1>1 DEF AppliedIsPresent, Migrating
  <2> QED BY <2>2, <1>4, <1>6
<1>12. OneKind'
  BY <1>1, <1>2, <1>4, <1>6 DEF OneKind
<1>13. BelowIsApplied'
  <2> SUFFICES ASSUME ~crossed, NEW d \in Migrators, Migrating(d)' PROVE FALSE
    BY <1>2 DEF BelowIsApplied
  <2> QED BY <1>1, <1>2, <1>6 DEF OneKind, RollingBackFiles, Migrating
<1>14. AboveIsRolledBack'
  <2> SUFFICES ASSUME ~crossed, NEW d \in Migrators, RollingBackFiles(d)', NEW f \in migrator'[d].todo,
                      NEW g \in Files, versionOf[f] < versionOf[g], versionOf[g] \in applied'
               PROVE  LastOf(versionOf[g]) \in migrator'[d].todo
    BY <1>2 DEF AboveIsRolledBack
  <2>1. versionOf[g] \in applied /\ versionOf[g] # versionOf[h]
    BY <1>2
  <2>2. LastOf(versionOf[g]) \in migrator[d].todo
    BY <2>1, <1>1, <1>6 DEF AboveIsRolledBack
  <2>3. LastOf(versionOf[g]) # h
    BY <2>1, LastOfVersion
  <2> QED BY <2>2, <2>3, <1>4
<1>15. NoGap'
  <2> SUFFICES ASSUME ~crossed, NEW f \in Files, NEW g \in Files, versionOf[g] \in applied',
                      versionOf[f] < versionOf[g]
               PROVE  versionOf[f] \in applied'
    BY <1>2 DEF NoGap
  <2>1. versionOf[g] \in applied /\ versionOf[f] \in applied
    BY <1>1, <1>2 DEF NoGap
  <2>2. CASE versionOf[f] = versionOf[h]
    <3> DEFINE l == LastOf(versionOf[g])
    <3>1. l \in migrator[c].todo
      BY <2>1, <2>2, <1>1, <1>2, <1>3 DEF AboveIsRolledBack
    <3>2. l <= h /\ l \in Files /\ versionOf[l] = versionOf[g]
      BY <3>1, <1>3, LastOfVersion
    <3> HIDE DEF l
    <3>3. versionOf[g] <= versionOf[h] /\ versionOf[g] \in Nat /\ versionOf[f] \in Nat
      BY <3>2, <1>3, FilesAreOrdered
    <3> QED BY <2>2, <3>3
  <2> QED BY <2>1, <2>2, <1>2
<1> QED BY <1>5, <1>8, <1>9, <1>10, <1>11, <1>12, <1>13, <1>14, <1>15 DEF MigrationInv

\* However calls of migrate() and rollback() overlap and fail, the table claims no
\* file that the schema lacks but for a version that was split, and versions have
\* no gap unless the two kinds of call ran at once.
THEOREM SchemaIsSafe == Spec => []SchemaSafe
<1>1. Init => MigrationInv
  <2> SUFFICES ASSUME MigrationInit PROVE MigrationInv
    BY DEF Init
  <2>1. \A c \in Migrators : ~Running(c)
    BY DEF MigrationInit, Running
  <2>2. MigrationTypeOK
    BY DEF MigrationInit, MigrationTypeOK
  <2>3. AppliedIsPresent /\ NoGap
    BY DEF MigrationInit, AppliedIsPresent, NoGap
  <2> QED BY <2>1, <2>2, <2>3 DEF MigrationInv, CallsHaveFiles, RestIsPresent, RollsLastBack,
                                  OneKind, BelowIsApplied, AboveIsRolledBack, Migrating,
                                  RollingBackFiles
<1>2. MigrationInv /\ [Next]_vars => MigrationInv'
  <2> SUFFICES ASSUME MigrationInv, [Next]_vars PROVE MigrationInv'
    OBVIOUS
  <2>1. CASE UNCHANGED migrationVars
    BY <2>1 DEF migrationVars, MigrationInv, MigrationTypeOK, CallsHaveFiles, RestIsPresent,
                RollsLastBack, AppliedIsPresent, OneKind, BelowIsApplied, AboveIsRolledBack, NoGap,
                Migrating, RollingBackFiles, Running
  <2>2. CASE MigrationNext
    BY <2>2, StartInv, StopsOrBegins, AppliesFile, RollsFileBack DEF MigrationNext, MigratorStep
  <2> QED BY <2>1, <2>2 DEF Next, vars, stores
<1>3. MigrationInv => SchemaSafe
  BY DEF MigrationInv, SchemaSafe
<1> QED BY <1>1, <1>2, <1>3, PTL DEF Spec

-----------------------------------------------------------------------------
(***************************************************************************)
(* Rewards                                                                 *)
(***************************************************************************)

RewardRecord ==
  [pc : {"idle", "lock", "read", "insert", "update", "caught", "commit", "ended"},
   amount : Nat, paid : Nat, subtracted : Nat, began : Nat,
   status : {"none", "distributed", "skipped", "requeued", "threw"}]

\* What a call has written agrees with where it is; only the holder of the lock has
\* an amount, which is still pending.
CallCoherent(c) ==
  /\ rewardCall[c].pc \in {"idle", "lock", "read", "insert"} =>
       rewardCall[c].paid = 0 /\ rewardCall[c].subtracted = 0
  /\ rewardCall[c].pc = "update" =>
       rewardCall[c].paid = rewardCall[c].amount /\ rewardCall[c].subtracted = 0
  /\ rewardCall[c].pc = "commit" => rewardCall[c].paid = rewardCall[c].subtracted
  /\ rewardCall[c].pc = "commit" /\ rewardCall[c].subtracted # 0 =>
       rewardLock = c /\ rewardCall[c].subtracted <= pendingAmount
  /\ rewardCall[c].pc \in {"read", "insert", "update"} => rewardLock = c
  /\ rewardCall[c].pc \in {"insert", "update"} => rewardCall[c].amount <= pendingAmount

RewardInv ==
  /\ RewardTypeOK /\ RewardConserved /\ windowTx <= rewardTx
  /\ \A c \in RewardCalls : CallCoherent(c)

\* computeAllocations() gives nodes with a positive amount their share of the pool.
THEOREM AllocationsFit ==
  ASSUME NEW S, IsFiniteSet(S), NEW amounts \in [S -> Nat], NEW pool \in Nat,
         NEW alloc, alloc = computeAllocations(amounts, pool)
  PROVE  /\ DOMAIN alloc \subseteq S /\ \A n \in DOMAIN alloc : alloc[n] \in Nat
         /\ \A n \in DOMAIN alloc : alloc[n] <= pool
         /\ FoldFunction(+, 0, alloc) <= pool
         /\ DOMAIN alloc # {} => pool < FoldFunction(+, 0, alloc) + Cardinality(S)
<1> DEFINE nodes == {n \in S : amounts[n] > 0}
           a == [n \in nodes |-> amounts[n]]
           share == [n \in nodes |-> (pool * a[n]) \div Total(a)]
           Q == {n \in nodes : share[n] > 0}
<1>1. alloc = IF Total(a) = 0 THEN <<>> ELSE [n \in Q |-> share[n]]
  <2>1. DOMAIN amounts = S
    OBVIOUS
  <2>2. [n \in nodes |-> (pool * amounts[n]) \div FoldFunction(+, 0, a)] = share
    BY DEF Total
  <2> QED BY <2>1, <2>2 DEF computeAllocations, Total
<1>2. nodes \subseteq S /\ IsFiniteSet(nodes) /\ a \in [nodes -> Nat \ {0}]
  BY FS_Subset
<1>3. Cardinality(nodes) \in Nat /\ Cardinality(S) \in Nat /\ Cardinality(nodes) <= Cardinality(S)
  BY <1>2, FS_Subset, FS_CardinalityType
<1> HIDE DEF a
<1>4. CASE nodes = {}
  <2>1. a = [n \in {} |-> amounts[n]] /\ DOMAIN a = {}
    BY <1>4 DEF a
  <2>2. Total(a) = 0
    <3>1. PartialSum(a)[{}] = 0
      BY <1>2, <1>4, PartialSumStep
    <3> QED BY <2>1, <3>1, TotalIsPartialSum
  <2>3. alloc = <<>>
    BY <1>1, <2>2
  <2>4. <<>> \in [{} -> Int] /\ DOMAIN alloc = {} /\ IsFiniteSet({})
    BY <2>3, FS_EmptySet
  <2>5. Total(<<>>) = 0
    <3>1. PartialSum(<<>>)[{}] = 0
      BY <2>4, PartialSumStep
    <3>2. Total(<<>>) = PartialSum(<<>>)[DOMAIN <<>>]
      BY TotalIsPartialSum
    <3>3. DOMAIN <<>> = {}
      BY <2>3, <2>4
    <3> QED BY <3>1, <3>2, <3>3
  <2>6. Total(alloc) <= pool
    BY <2>3, <2>5
  <2>7. DOMAIN alloc \subseteq S /\ \A n \in DOMAIN alloc : alloc[n] \in Nat /\ alloc[n] <= pool
    BY <2>4
  <2>8. FoldFunction(+, 0, alloc) <= pool
    BY <2>6 DEF Total
  <2> HIDE DEF nodes, share, Q
  <2> QED BY <2>4, <2>7, <2>8
<1>5. CASE nodes # {}
  <2> HIDE DEF nodes
  <2>1. /\ Total(a) \in Nat \ {0} /\ share \in [nodes -> Nat]
        /\ Total(share) <= pool /\ pool < Total(share) + Cardinality(nodes)
    BY <1>2, <1>5, SharesFit
  <2> HIDE DEF share
  <2>2. alloc = [n \in Q |-> share[n]]
    BY <1>1, <2>1
  <2>3. Total(alloc) = Total(share)
    BY <1>2, <2>1, <2>2, TotalOfPositive
  <2>4. DOMAIN alloc = Q /\ \A n \in Q : alloc[n] = share[n] /\ n \in nodes
    BY <2>2
  <2>5. Total(share) \in Nat /\ \A n \in nodes : Total(share) >= share[n]
    <3>1. share \in [nodes -> Int] /\ \A n \in nodes : share[n] >= 0
      BY <2>1
    <3> QED BY <3>1, <1>2, TotalCovers
  <2>6. \A n \in nodes : share[n] \in Nat /\ share[n] <= pool
    BY <2>1, <2>5
  <2>7. pool < Total(share) + Cardinality(S)
    BY <1>3, <2>1, <2>5
  <2>8. FoldFunction(+, 0, alloc) = Total(share)
    BY <2>3 DEF Total
  <2> QED BY <1>2, <2>1, <2>4, <2>6, <2>7, <2>8
<1> QED BY <1>4, <1>5

\* The types that the proofs below use one by one.
LEMMA RewardTypes ==
  ASSUME RewardTypeOK
  PROVE  /\ pendingAmount \in Nat /\ rewardTx \in Nat /\ earned \in Nat
         /\ windowTx \in Nat /\ windows \in Nat /\ reclaimed \in Nat
         /\ \A c \in RewardCalls :
              /\ rewardCall[c] \in RewardRecord
              /\ rewardCall[c].amount \in Nat /\ rewardCall[c].paid \in Nat
              /\ rewardCall[c].subtracted \in Nat
BY DEF RewardTypeOK, RewardRecord

\* A step of the call c: no other call is disturbed that has the lock.
LEMMA RewardCallMoves ==
  ASSUME RewardInv, NEW c \in RewardCalls,
         NEW r \in RewardRecord, rewardCall' = [rewardCall EXCEPT ![c] = r],
         rewardLock' \in RewardCalls \cup {NoRewardCall}, retryQueue' \subseteq RewardCalls,
         pendingAmount' \in Nat, rewardTx' \in Nat, earned' = earned,
         rewardTx' + pendingAmount' = rewardTx + pendingAmount,
         windowTx' \in Nat, windowTx' <= rewardTx', UNCHANGED windowVars,
         \A d \in RewardCalls \ {c} :
           rewardLock = d => rewardLock' = d /\ pendingAmount' = pendingAmount,
         CallCoherent(c)'
  PROVE  RewardInv'
<1>1. /\ RewardTypeOK /\ RewardConserved /\ \A d \in RewardCalls : CallCoherent(d)
      /\ pendingAmount \in Nat /\ rewardTx \in Nat /\ reclaimed \in Nat
  BY RewardTypes DEF RewardInv
<1>2. RewardTypeOK'
  BY <1>1 DEF RewardTypeOK, RewardRecord, windowVars
<1>3. RewardConserved'
  BY <1>1 DEF RewardConserved, windowVars
<1>4. ASSUME NEW d \in RewardCalls \ {c} PROVE CallCoherent(d)'
  <2>1. rewardCall'[d] = rewardCall[d]
    BY <1>1 DEF RewardTypeOK
  <2>2. CASE rewardLock = d
    BY <1>1, <2>1, <2>2 DEF CallCoherent
  <2>3. CASE rewardLock # d
    BY <1>1, <2>1, <2>3 DEF CallCoherent
  <2> QED BY <2>2, <2>3
<1> QED BY <1>2, <1>3, <1>4 DEF RewardInv

\* Every step of a call.
LEMMA RewardCallInv ==
  ASSUME RewardInv, NEW c \in RewardCalls, runCycle(c) \/ drainRetryQueue(c) \/ RewardStep(c)
  PROVE  RewardInv'
<1>1. /\ RewardTypeOK /\ RewardConserved /\ CallCoherent(c)
      /\ rewardCall[c] \in RewardRecord
      /\ windowTx \in Nat /\ windows \in Nat /\ windowTx <= rewardTx
      /\ pendingAmount \in Nat /\ rewardTx \in Nat
      /\ rewardCall[c].amount \in Nat /\ rewardCall[c].paid \in Nat
      /\ rewardCall[c].subtracted \in Nat
      /\ rewardLock \in RewardCalls \cup {NoRewardCall} /\ retryQueue \subseteq RewardCalls
  BY RewardTypes DEF RewardInv, RewardTypeOK
<1>2. NoRewardCall \notin RewardCalls
  BY RewardAssumption
<1>3. ReleaseLock(c) =>
        /\ rewardLock' \in RewardCalls \cup {NoRewardCall}
        /\ \A d \in RewardCalls \ {c} : rewardLock = d => rewardLock' = d
  BY <1>1, <1>2 DEF ReleaseLock
<1>4. \A r : rewardCall' = [rewardCall EXCEPT ![c] = r] => rewardCall'[c] = r
  BY <1>1 DEF RewardTypeOK
<1>5. CASE runCycle(c)
  <2> DEFINE r == [rewardCall[c] EXCEPT !.pc = "lock", !.began = windows]
  <2>1. /\ rewardCall' = [rewardCall EXCEPT ![c] = r] /\ rewardCall[c].pc = "idle"
        /\ UNCHANGED <<pendingAmount, rewardTx, rewardLock, retryQueue, earned, windowTx, windowVars>>
    BY <1>5 DEF runCycle, RewardAt, RewardGoto
  <2>2. /\ r \in RewardRecord /\ r.pc = "lock"
        /\ r.paid = rewardCall[c].paid /\ r.subtracted = rewardCall[c].subtracted
    BY <1>1 DEF RewardRecord
  <2> HIDE DEF r
  <2>3. CallCoherent(c)'
    BY <1>1, <1>4, <2>1, <2>2 DEF CallCoherent
  <2> QED BY <1>1, <2>1, <2>2, <2>3, RewardCallMoves
<1>6. CASE acquireRewardNodeLock(c)
  <2> DEFINE r == [rewardCall[c] EXCEPT !.pc = "read"]
  <2>1. /\ rewardCall' = [rewardCall EXCEPT ![c] = r] /\ rewardCall[c].pc = "lock"
        /\ rewardLock = NoRewardCall /\ rewardLock' = c
        /\ UNCHANGED <<pendingAmount, rewardTx, retryQueue, earned, windowTx, windowVars>>
    BY <1>6 DEF acquireRewardNodeLock, RewardAt, RewardGoto
  <2>2. /\ r \in RewardRecord /\ r.pc = "read"
        /\ r.paid = rewardCall[c].paid /\ r.subtracted = rewardCall[c].subtracted
    BY <1>1 DEF RewardRecord
  <2> HIDE DEF r
  <2>3. CallCoherent(c)'
    BY <1>1, <1>4, <2>1, <2>2 DEF CallCoherent
  <2> QED BY <1>1, <1>2, <2>1, <2>2, <2>3, RewardCallMoves
<1>7. CASE readPending(c)
  <2> DEFINE alloc == computeAllocations([n \in {c} |-> pendingAmount], pendingAmount)
             skip == [rewardCall[c] EXCEPT !.pc = "commit", !.status = "skipped"]
             take == [rewardCall[c] EXCEPT !.pc = "insert", !.amount = alloc[c]]
  <2>1. /\ rewardCall[c].pc = "read"
        /\ UNCHANGED <<pendingAmount, rewardTx, rewardLock, retryQueue, earned, windowTx, windowVars>>
        /\ rewardCall' = IF DOMAIN alloc = {} THEN [rewardCall EXCEPT ![c] = skip]
                                              ELSE [rewardCall EXCEPT ![c] = take]
    BY <1>7 DEF readPending, RewardAt
  <2>2. DOMAIN alloc \subseteq {c} /\ \A n \in DOMAIN alloc : alloc[n] \in Nat /\ alloc[n] <= pendingAmount
    <3>1. [n \in {c} |-> pendingAmount] \in [{c} -> Nat] /\ IsFiniteSet({c})
      BY <1>1, FS_Singleton
    <3> QED BY <1>1, <3>1, AllocationsFit
  <2> HIDE DEF alloc
  <2>3. CASE DOMAIN alloc = {}
    <3>1. /\ skip \in RewardRecord /\ skip.pc = "commit"
          /\ skip.paid = rewardCall[c].paid /\ skip.subtracted = rewardCall[c].subtracted
      BY <1>1 DEF RewardRecord
    <3> HIDE DEF skip
    <3>2. CallCoherent(c)'
      BY <1>1, <1>4, <2>1, <2>3, <3>1 DEF CallCoherent
    <3> QED BY <1>1, <2>1, <2>3, <3>1, <3>2, RewardCallMoves
  <2>4. CASE DOMAIN alloc # {}
    <3>1. alloc[c] \in Nat /\ alloc[c] <= pendingAmount
      BY <2>2, <2>4
    <3>2. /\ take \in RewardRecord /\ take.pc = "insert" /\ take.amount = alloc[c]
          /\ take.paid = rewardCall[c].paid /\ take.subtracted = rewardCall[c].subtracted
      BY <1>1, <3>1 DEF RewardRecord
    <3> HIDE DEF take
    <3>3. CallCoherent(c)'
      BY <1>1, <1>4, <2>1, <2>4, <3>1, <3>2 DEF CallCoherent
    <3> QED BY <1>1, <2>1, <2>4, <3>2, <3>3, RewardCallMoves
  <2> QED BY <2>3, <2>4
<1>8. CASE insertRewardTx(c)
  <2> DEFINE r == [rewardCall[c] EXCEPT !.pc = "update", !.paid = rewardCall[c].amount]
  <2>1. /\ rewardCall' = [rewardCall EXCEPT ![c] = r] /\ rewardCall[c].pc = "insert"
        /\ UNCHANGED <<pendingAmount, rewardTx, rewardLock, retryQueue, earned, windowTx, windowVars>>
    BY <1>8 DEF insertRewardTx, RewardAt
  <2>2. /\ r \in RewardRecord /\ r.pc = "update" /\ r.paid = rewardCall[c].amount
        /\ r.amount = rewardCall[c].amount /\ r.subtracted = rewardCall[c].subtracted
    BY <1>1 DEF RewardRecord
  <2> HIDE DEF r
  <2>3. CallCoherent(c)'
    BY <1>1, <1>4, <2>1, <2>2 DEF CallCoherent
  <2> QED BY <1>1, <2>1, <2>2, <2>3, RewardCallMoves
<1>9. CASE subtractPending(c)
  <2> DEFINE r == [rewardCall[c] EXCEPT !.pc = "commit", !.status = "distributed",
                                        !.subtracted = rewardCall[c].amount]
  <2>1. /\ rewardCall' = [rewardCall EXCEPT ![c] = r] /\ rewardCall[c].pc = "update"
        /\ UNCHANGED <<pendingAmount, rewardTx, rewardLock, retryQueue, earned, windowTx, windowVars>>
    BY <1>9 DEF subtractPending, RewardAt
  <2>2. /\ r \in RewardRecord /\ r.pc = "commit" /\ r.paid = rewardCall[c].paid
        /\ r.subtracted = rewardCall[c].amount
    BY <1>1 DEF RewardRecord
  <2> HIDE DEF r
  <2>3. CallCoherent(c)'
    BY <1>1, <1>4, <2>1, <2>2 DEF CallCoherent
  <2> QED BY <1>1, <2>1, <2>2, <2>3, RewardCallMoves
<1>10. CASE StatementFails(c)
  <2>1. PICK outcome \in {"requeued", "threw"} :
          rewardCall' = [rewardCall EXCEPT ![c].pc = "caught", ![c].status = outcome]
    BY <1>10 DEF StatementFails
  <2> DEFINE r == [rewardCall[c] EXCEPT !.pc = "caught", !.status = outcome]
  <2>2. /\ rewardCall' = [rewardCall EXCEPT ![c] = r]
        /\ UNCHANGED <<pendingAmount, rewardTx, rewardLock, retryQueue, earned, windowTx, windowVars>>
    BY <1>10, <2>1 DEF StatementFails
  <2>3. r \in RewardRecord /\ r.pc = "caught"
    BY <1>1 DEF RewardRecord
  <2> HIDE DEF r
  <2>4. CallCoherent(c)'
    BY <1>4, <2>2, <2>3 DEF CallCoherent
  <2> QED BY <1>1, <2>2, <2>3, <2>4, RewardCallMoves
<1>11. CASE RewardCaught(c)
  <2> DEFINE next == IF rewardCall[c].status = "requeued" THEN "commit" ELSE "ended"
             r == [rewardCall[c] EXCEPT !.pc = next, !.paid = 0, !.subtracted = 0]
  <2>1. /\ rewardCall' = [rewardCall EXCEPT ![c] = r] /\ ReleaseLock(c)
        /\ UNCHANGED <<pendingAmount, rewardTx, earned, windowTx, windowVars>> /\ retryQueue' \subseteq RewardCalls
    BY <1>1, <1>11 DEF RewardCaught, RewardAt
  <2>2. next \in {"commit", "ended"}
    OBVIOUS
  <2> HIDE DEF next
  <2>3. r \in RewardRecord /\ r.pc = next /\ r.paid = 0 /\ r.subtracted = 0
    BY <1>1, <2>2 DEF RewardRecord
  <2> HIDE DEF r
  <2>4. CallCoherent(c)'
    BY <1>4, <2>1, <2>2, <2>3 DEF CallCoherent
  <2> QED BY <1>1, <1>3, <2>1, <2>3, <2>4, RewardCallMoves
<1>12. CASE Commit(c)
  <2>1. PICK answer \in {rewardCall[c].status, "threw"} :
          rewardCall' = [rewardCall EXCEPT ![c].pc = "ended", ![c].status = answer]
    BY <1>12 DEF Commit
  <2> DEFINE r == [rewardCall[c] EXCEPT !.pc = "ended", !.status = answer]
             paid == rewardCall[c].paid
             subtracted == rewardCall[c].subtracted
  <2>2. /\ rewardCall' = [rewardCall EXCEPT ![c] = r] /\ rewardCall[c].pc = "commit"
        /\ rewardTx' = rewardTx + paid /\ pendingAmount' = pendingAmount - subtracted
        /\ ReleaseLock(c) /\ UNCHANGED <<retryQueue, earned, windowVars>>
        /\ windowTx' \in {windowTx, windowTx + paid}
    BY <1>12, <2>1 DEF Commit, RewardAt
  <2>3. r \in RewardRecord /\ r.pc = "ended"
    BY <1>1 DEF RewardRecord
  <2> HIDE DEF r
  <2>4. CallCoherent(c)'
    BY <1>4, <2>2, <2>3 DEF CallCoherent
  <2>5. /\ paid = subtracted /\ (subtracted # 0 => rewardLock = c /\ subtracted <= pendingAmount)
        /\ paid \in Nat /\ subtracted \in Nat
    BY <1>1, <2>2 DEF CallCoherent
  <2> HIDE DEF paid, subtracted
  <2>6. /\ rewardTx' \in Nat /\ pendingAmount' \in Nat
        /\ rewardTx' + pendingAmount' = rewardTx + pendingAmount
        /\ windowTx' \in Nat /\ windowTx' <= rewardTx'
        /\ rewardLock # c => pendingAmount' = pendingAmount
    BY <1>1, <2>2, <2>5
  <2> QED BY <1>1, <1>3, <2>2, <2>3, <2>4, <2>6, RewardCallMoves
<1>13. CASE ConnectionLost(c)
  <2> DEFINE r == [NoReward EXCEPT !.pc = "ended", !.status = "threw"]
  <2>1. /\ rewardCall' = [rewardCall EXCEPT ![c] = r] /\ ReleaseLock(c)
        /\ UNCHANGED <<pendingAmount, rewardTx, retryQueue, earned, windowTx, windowVars>>
    BY <1>13 DEF ConnectionLost
  <2>2. r \in RewardRecord /\ r.pc = "ended"
    BY DEF RewardRecord, NoReward
  <2> HIDE DEF r
  <2>3. CallCoherent(c)'
    BY <1>4, <2>1, <2>2 DEF CallCoherent
  <2> QED BY <1>1, <1>3, <2>1, <2>2, <2>3, RewardCallMoves
<1>14. CASE drainRetryQueue(c)
  <2>1. /\ rewardCall' = [rewardCall EXCEPT ![c] = NoReward]
        /\ UNCHANGED <<pendingAmount, rewardTx, rewardLock, earned, windowTx, windowVars>>
        /\ retryQueue' \subseteq RewardCalls
    BY <1>1, <1>14 DEF drainRetryQueue
  <2>2. /\ NoReward \in RewardRecord /\ NoReward.pc = "idle"
        /\ NoReward.paid = 0 /\ NoReward.subtracted = 0
    BY DEF RewardRecord, NoReward
  <2>3. CallCoherent(c)'
    BY <1>4, <2>1, <2>2 DEF CallCoherent
  <2> QED BY <1>1, <2>1, <2>2, <2>3, RewardCallMoves
<1> QED BY <1>5, <1>6, <1>7, <1>8, <1>9, <1>10, <1>11, <1>12, <1>13, <1>14 DEF RewardStep

\* Whatever calls for the node overlap, wait, time out, fail, are requeued or lose
\* their connection, and however many transitions of the node are rolled back, what
\* is paid, pending and deleted by rollbacks is what was earned; and the shares of a
\* cycle fit into the pool, however many nodes it has.
THEOREM RewardsAreSafe == Spec => []RewardSafe
<1>1. Init => RewardInv
  <2> SUFFICES ASSUME RewardInit PROVE RewardInv
    BY DEF Init
  <2>1. /\ NoReward.pc = "idle" /\ NoReward.paid = 0 /\ NoReward.subtracted = 0
        /\ NoReward \in RewardRecord
    BY DEF NoReward, RewardRecord
  <2>2. /\ {pendingAmount, rewardTx, earned, windowTx, windows, reclaimed} \subseteq Nat
        /\ RewardConserved /\ windowTx <= rewardTx
    BY RewardAssumption DEF RewardInit, RewardConserved
  <2>2a. tentative \in BOOLEAN
    BY Zenon DEF RewardInit
  <2>2b. RewardTypeOK
    BY <2>1, <2>2, <2>2a DEF RewardInit, RewardTypeOK, RewardRecord
  <2>3. \A c \in RewardCalls : rewardCall[c] = NoReward
    BY DEF RewardInit
  <2>4. \A c \in RewardCalls : CallCoherent(c)
    BY <2>1, <2>3 DEF CallCoherent
  <2> QED BY <2>2, <2>2b, <2>4 DEF RewardInv
<1>2. RewardInv /\ [Next]_vars => RewardInv'
  <2> SUFFICES ASSUME RewardInv, [Next]_vars PROVE RewardInv'
    OBVIOUS
  <2>1. CASE UNCHANGED rewardVars
    BY <2>1 DEF rewardVars, windowVars, RewardInv, RewardTypeOK, RewardConserved, CallCoherent
  <2>2. CASE Earn
    <3>1. /\ pendingAmount \in Nat /\ rewardTx \in Nat /\ earned \in Nat /\ Earned \in Nat
          /\ RewardTypeOK /\ RewardConserved /\ \A c \in RewardCalls : CallCoherent(c)
          /\ windowTx <= rewardTx /\ reclaimed \in Nat
      BY RewardTypes, RewardAssumption DEF RewardInv
    <3>2. /\ pendingAmount' = pendingAmount + Earned /\ earned' = earned + Earned
          /\ UNCHANGED <<rewardTx, rewardLock, rewardCall, retryQueue, windowTx, windowVars>>
      BY <2>2 DEF Earn
    <3>3. pendingAmount' \in Nat /\ earned' \in Nat /\ \A n \in Nat : n <= pendingAmount => n <= pendingAmount'
      BY <3>1, <3>2
    <3>4. RewardTypeOK'
      BY <3>1, <3>2, <3>3 DEF RewardTypeOK, windowVars
    <3>5. RewardConserved'
      BY <3>1, <3>2 DEF RewardConserved, windowVars
    <3>6. ASSUME NEW c \in RewardCalls PROVE CallCoherent(c)'
      <4>1. rewardCall[c].amount \in Nat /\ rewardCall[c].subtracted \in Nat
        BY <3>1, RewardTypes
      <4> QED BY <3>1, <3>2, <3>3, <4>1 DEF CallCoherent
    <3> QED BY <3>1, <3>2, <3>4, <3>5, <3>6 DEF RewardInv
  <2>3. CASE \E c \in RewardCalls : runCycle(c) \/ drainRetryQueue(c) \/ RewardStep(c)
    BY <2>3, RewardCallInv
  <2>4. CASE OpenTentative \/ CommitTentative \/ RollbackTentative
    <3>1. /\ pendingAmount \in Nat /\ rewardTx \in Nat /\ windowTx \in Nat /\ windows \in Nat
          /\ reclaimed \in Nat /\ windowTx <= rewardTx
          /\ RewardTypeOK /\ RewardConserved /\ \A c \in RewardCalls : CallCoherent(c)
      BY RewardTypes DEF RewardInv
    <3>2. UNCHANGED <<pendingAmount, rewardLock, rewardCall, retryQueue, earned>>
      BY <2>4 DEF OpenTentative, CommitTentative, RollbackTentative
    <3>2a. tentative' \in BOOLEAN
      BY <2>4, Zenon DEF OpenTentative, CommitTentative, RollbackTentative
    <3>3. /\ {rewardTx, windowTx, windows, reclaimed}' \subseteq Nat
          /\ windowTx' <= rewardTx' /\ rewardTx' + reclaimed' = rewardTx + reclaimed
      BY <2>4, <3>1 DEF OpenTentative, CommitTentative, RollbackTentative
    <3>4. RewardTypeOK' /\ RewardConserved'
      BY <3>1, <3>2, <3>2a, <3>3 DEF RewardTypeOK, RewardConserved
    <3>5. \A c \in RewardCalls : CallCoherent(c)'
      BY <3>1, <3>2 DEF CallCoherent
    <3> QED BY <3>3, <3>4, <3>5 DEF RewardInv
  <2> QED BY <2>1, <2>2, <2>3, <2>4 DEF Next, vars, stores, RewardNext
<1>3. AllocationFits
  <2> SUFFICES ASSUME NEW amounts \in [RewardNodes -> 0..3], NEW pool \in 1..4
               PROVE  LET alloc == computeAllocations(amounts, pool)
                          sum == FoldFunction(+, 0, alloc) IN
                      /\ sum <= pool
                      /\ DOMAIN alloc # {} => pool < sum + Cardinality(RewardNodes)
    BY DEF AllocationFits
  <2>1. amounts \in [RewardNodes -> Nat] /\ pool \in Nat /\ IsFiniteSet(RewardNodes)
    BY RewardAssumption
  <2> QED BY <2>1, AllocationsFit
<1>4. RewardInv /\ AllocationFits => RewardSafe
  BY DEF RewardInv, RewardSafe
<1> QED BY <1>1, <1>2, <1>3, <1>4, PTL DEF Spec

-----------------------------------------------------------------------------
(***************************************************************************)
(* Secret rotation                                                         *)
(***************************************************************************)

RotationRecord ==
  [pc : {"idle", "complete", "rolled_back", "threw"} \cup Live,
   copy : Descriptor, old : SecretVersions, new : SecretVersions]

\* The calls that have not marked their canary yet, and those that may have.
BeforeCanary == {"preparing", "generate", "candidate", "validate", "canary"}
InCanary == {"apply", "promote", "retire", "activate", "switch"}
RollingBack == {"rollback", "relabel", "restore"}

SecretTypes ==
  /\ secret \in Descriptor
  /\ label \in [SecretVersions -> {"none", "candidate", "current", "previous"}]
  /\ rotation \in [SecretCalls -> RotationRecord]
  /\ activeCanaries \in Nat
  /\ mixed \in BOOLEAN /\ stranded \in BOOLEAN

\* A rotation marks at most one canary, which it then does not unmark twice.
Marked == {r \in Rotations : rotation[r].pc \notin {"idle"} \cup BeforeCanary}
CanariesCounted == activeCanaries <= Cardinality(Marked)

\* Calls that do not overlap.
OneAtATime ==
  ~mixed => \A c, d \in SecretCalls :
              rotation[c].pc \in Live /\ rotation[d].pc \in Live => c = d

\* Every version that the descriptor or a call may make current is stored; the
\* candidate of a rotation is not before its step.
VersionsKnown(c) ==
  /\ label[rotation[c].copy.current] # "none" /\ label[rotation[c].old] # "none"
  /\ rotation[c].pc \in {"validate", "canary"} \cup InCanary => label[rotation[c].new] # "none"
  /\ IF c \in Rotations
     THEN /\ rotation[c].new = c
          /\ rotation[c].pc \in {"idle", "preparing", "generate", "candidate"} => label[c] = "none"
     ELSE rotation[c].pc \notin BeforeCanary

VersionsStored ==
  label[secret.current] # "none" /\ \A c \in SecretCalls : VersionsKnown(c)

\* What the only call under way may rely on.
Unlabelled == {"activate", "switch"} \cup RollingBack
CurrentIsLabelled ==
  (\A c \in SecretCalls : rotation[c].pc \notin Unlabelled) => label[secret.current] = "current"
NoCanaryAtRest ==
  (\A c \in SecretCalls : rotation[c].pc \notin InCanary \cup RollingBack) => activeCanaries = 0
CallKnows(c) ==
  /\ rotation[c].pc \in BeforeCanary \cup {"retire"} => rotation[c].copy.current = secret.current
  /\ rotation[c].pc = "switch" => label[rotation[c].new] = "current"
  /\ rotation[c].pc = "restore" => label[rotation[c].old] = "current"

LabelsFollow ==
  /\ CurrentIsLabelled /\ NoCanaryAtRest /\ activeCanaries <= 1
  /\ \A c \in SecretCalls : CallKnows(c)

SecretInv ==
  /\ SecretTypes /\ CanariesCounted /\ OneAtATime /\ VersionsStored
  /\ ~mixed /\ ~stranded => LabelsFollow

\* The labels of the program counter.
LEMMA SecretLabels ==
  /\ Live = BeforeCanary \cup InCanary \cup RollingBack
  /\ BeforeCanary \cap (InCanary \cup RollingBack) = {} /\ InCanary \cap RollingBack = {}
  /\ Unlabelled \subseteq Live /\ BeforeCanary \cup {"retire"} \subseteq Live
  /\ "idle" \notin Live
BY DEF Live, BeforeCanary, InCanary, RollingBack, Unlabelled

\* A step of one call, from the record it has to the record n: SecretInv is kept when
\* the call's own parts of it are.
LEMMA SecretCallMoves ==
  ASSUME SecretInv, NEW c \in SecretCalls, NEW n \in RotationRecord,
         rotation' = [rotation EXCEPT ![c] = n],
         rotation[c].pc \in Live, n.pc # "idle",
         rotation[c].pc \notin BeforeCanary => n.pc \notin BeforeCanary,
         c \in Rotations => n.new = c,
         secret' \in Descriptor, label'[secret'.current] # "none",
         label' \in [SecretVersions -> {"none", "candidate", "current", "previous"}],
         \A v \in SecretVersions : label[v] # "none" => label'[v] # "none",
         \A v \in SecretVersions : label[v] = "none" /\ label'[v] # "none" => v = c,
         label'[n.copy.current] # "none", label'[n.old] # "none",
         n.pc \in {"validate", "canary"} \cup InCanary => label'[n.new] # "none",
         n.pc \in {"preparing", "generate", "candidate"} /\ c \in Rotations => label'[c] = "none",
         activeCanaries' \in Nat,
         \/ activeCanaries' <= activeCanaries
         \/ /\ activeCanaries' = activeCanaries + 1 /\ c \in Rotations
            /\ rotation[c].pc \in BeforeCanary /\ n.pc \notin BeforeCanary,
         UNCHANGED mixed, stranded' \in BOOLEAN, stranded => stranded',
         ~mixed /\ ~stranded' =>
           /\ n.pc \notin Unlabelled => label'[secret'.current] = "current"
           /\ n.pc \notin InCanary \cup RollingBack => activeCanaries' = 0
           /\ activeCanaries' <= 1
           /\ n.pc \in BeforeCanary \cup {"retire"} => n.copy.current = secret'.current
           /\ n.pc = "switch" => label'[n.new] = "current"
           /\ n.pc = "restore" => label'[n.old] = "current"
  PROVE  SecretInv'
<1>1. SecretTypes /\ CanariesCounted /\ OneAtATime /\ VersionsStored
  BY DEF SecretInv
<1>2. /\ rotation' \in [SecretCalls -> RotationRecord] /\ rotation'[c] = n
      /\ \A d \in SecretCalls : d # c => rotation'[d] = rotation[d]
  BY <1>1 DEF SecretTypes
<1>3. SecretTypes'
  <2>1. mixed' \in BOOLEAN
    BY <1>1, Zenon DEF SecretTypes
  <2> QED BY <1>1, <1>2, <2>1 DEF SecretTypes
<1>4. OneAtATime'
  BY <1>1, <1>2 DEF OneAtATime
<1>5. CanariesCounted'
  <2>1. /\ IsFiniteSet(Marked) /\ Cardinality(Marked) \in Nat
        /\ IsFiniteSet(Marked') /\ Cardinality(Marked') \in Nat
    BY RotationsAssumption, FS_Subset, FS_CardinalityType DEF Marked
  <2>2. Marked \subseteq Marked'
    <3> SUFFICES ASSUME NEW q \in Marked PROVE q \in Marked'
      OBVIOUS
    <3>1. q \in SecretCalls /\ q \in Rotations
      BY DEF Marked, SecretCalls
    <3>2. CASE q = c
      BY <1>2, <3>1, <3>2 DEF Marked
    <3>3. CASE q # c
      BY <1>2, <3>1, <3>3 DEF Marked
    <3> QED BY <3>2, <3>3
  <2>3. Cardinality(Marked) <= Cardinality(Marked')
    BY <2>1, <2>2, FS_Subset
  <2>4. activeCanaries <= Cardinality(Marked) /\ activeCanaries \in Nat
    BY <1>1 DEF CanariesCounted, SecretTypes
  <2>5. CASE activeCanaries' <= activeCanaries
    <3>1. activeCanaries' <= Cardinality(Marked')
      BY <2>1, <2>3, <2>4, <2>5
    <3> QED BY <3>1 DEF CanariesCounted
  <2>6. CASE /\ activeCanaries' = activeCanaries + 1 /\ c \in Rotations
             /\ rotation[c].pc \in BeforeCanary /\ n.pc \notin BeforeCanary
    <3>1. c \notin Marked /\ c \in Marked'
      BY <1>2, <2>6 DEF Marked
    <3>2. Cardinality(Marked \cup {c}) = Cardinality(Marked) + 1
      BY <2>1, <3>1, FS_AddElement
    <3>3. Marked \cup {c} \in SUBSET Marked'
      BY <2>2, <3>1
    <3>4. Cardinality(Marked \cup {c}) <= Cardinality(Marked')
      BY <2>1, <3>3, FS_Subset
    <3>5. activeCanaries' <= Cardinality(Marked')
      BY <2>1, <2>4, <2>6, <3>2, <3>4
    <3> QED BY <3>5 DEF CanariesCounted
  <2> QED BY <2>5, <2>6
<1>6. VersionsStored'
  <2> SUFFICES ASSUME NEW d \in SecretCalls PROVE VersionsKnown(d)'
    BY DEF VersionsStored
  <2>1. CASE d = c
    <3>1. VersionsKnown(c)
      BY <1>1 DEF VersionsStored
    <3> QED BY <1>2, <2>1, <3>1 DEF VersionsKnown
  <2>2. CASE d # c
    <3>1. VersionsKnown(d) /\ rotation'[d] = rotation[d]
      BY <1>1, <1>2, <2>2 DEF VersionsStored
    <3>2. rotation[d] \in RotationRecord
      BY <1>1 DEF SecretTypes
    <3>3. /\ rotation[d].copy.current \in SecretVersions /\ rotation[d].old \in SecretVersions
          /\ rotation[d].new \in SecretVersions
      BY <3>2 DEF RotationRecord, Descriptor
    <3>4. d \in Rotations /\ label[d] = "none" => label'[d] = "none"
      BY <2>2 DEF SecretVersions
    <3> QED BY <3>1, <3>3, <3>4 DEF VersionsKnown
  <2> QED BY <2>1, <2>2
<1>7. ASSUME ~mixed', ~stranded' PROVE LabelsFollow'
  <2>1. ~mixed
    BY <1>7
  <2>2. \A d \in SecretCalls : d # c => rotation'[d].pc \notin Live
    BY <1>1, <1>2, <2>1 DEF OneAtATime
  <2>3. CurrentIsLabelled' /\ NoCanaryAtRest' /\ activeCanaries' <= 1
    BY <1>2, <1>7, <2>1 DEF CurrentIsLabelled, NoCanaryAtRest
  <2>4. ASSUME NEW d \in SecretCalls PROVE CallKnows(d)'
    <3>1. CASE d = c
      BY <1>2, <1>7, <2>1, <3>1 DEF CallKnows
    <3>2. CASE d # c
      <4>1. rotation'[d].pc \notin BeforeCanary \cup {"retire"} \cup {"switch", "restore"}
        BY <2>2, <3>2, SecretLabels DEF InCanary, RollingBack
      <4> QED BY <4>1 DEF CallKnows
    <3> QED BY <3>1, <3>2
  <2> QED BY <2>3, <2>4 DEF LabelsFollow
<1> QED BY <1>3, <1>4, <1>5, <1>6, <1>7 DEF SecretInv

\* What a call under way knows, before its step.
LEMMA CallUnderWay ==
  ASSUME SecretInv, NEW c \in SecretCalls, rotation[c].pc \in Live
  PROVE  /\ secret \in Descriptor /\ secret.current \in SecretVersions
         /\ label \in [SecretVersions -> {"none", "candidate", "current", "previous"}]
         /\ rotation \in [SecretCalls -> RotationRecord] /\ rotation[c] \in RotationRecord
         /\ rotation[c].copy \in Descriptor /\ rotation[c].copy.current \in SecretVersions
         /\ rotation[c].old \in SecretVersions /\ rotation[c].new \in SecretVersions
         /\ activeCanaries \in Nat /\ VersionsKnown(c) /\ label[secret.current] # "none"
         /\ c \in Rotations => c \in SecretVersions
         /\ ~mixed /\ ~stranded =>
              /\ CallKnows(c) /\ activeCanaries <= 1
              /\ rotation[c].pc \notin Unlabelled => label[secret.current] = "current"
              /\ rotation[c].pc \notin InCanary \cup RollingBack => activeCanaries = 0
<1>1. SecretTypes /\ OneAtATime /\ VersionsStored /\ (~mixed /\ ~stranded => LabelsFollow)
  BY DEF SecretInv
<1>2. /\ secret \in Descriptor /\ rotation[c] \in RotationRecord /\ activeCanaries \in Nat
      /\ rotation \in [SecretCalls -> RotationRecord]
      /\ label \in [SecretVersions -> {"none", "candidate", "current", "previous"}]
  BY <1>1 DEF SecretTypes
<1>3. /\ secret.current \in SecretVersions
      /\ rotation[c].copy \in Descriptor /\ rotation[c].copy.current \in SecretVersions
      /\ rotation[c].old \in SecretVersions /\ rotation[c].new \in SecretVersions
  BY <1>2 DEF RotationRecord, Descriptor
<1>4. VersionsKnown(c) /\ label[secret.current] # "none" /\ (c \in Rotations => c \in SecretVersions)
  BY <1>1 DEF VersionsStored, SecretVersions
<1>5. ASSUME ~mixed, ~stranded
      PROVE  /\ CallKnows(c) /\ activeCanaries <= 1
             /\ rotation[c].pc \notin Unlabelled => label[secret.current] = "current"
             /\ rotation[c].pc \notin InCanary \cup RollingBack => activeCanaries = 0
  <2>1. LabelsFollow /\ \A d \in SecretCalls : rotation[d].pc \in Live => d = c
    BY <1>1, <1>5 DEF OneAtATime
  <2>2. CallKnows(c) /\ activeCanaries <= 1 /\ CurrentIsLabelled /\ NoCanaryAtRest
    BY <2>1 DEF LabelsFollow
  <2>3. /\ rotation[c].pc \notin Unlabelled => label[secret.current] = "current"
        /\ rotation[c].pc \notin InCanary \cup RollingBack => activeCanaries = 0
    BY <2>1, <2>2, SecretLabels DEF CurrentIsLabelled, NoCanaryAtRest
  <2> QED BY <2>2, <2>3
<1> QED BY <1>2, <1>3, <1>4, <1>5

\* Every step of a call that is under way.
LEMMA RotationStepInv ==
  ASSUME SecretInv, NEW c \in SecretCalls, RotationStep(c)
  PROVE  SecretInv'
<1> USE DEF RotationAt
<1>0. rotation[c].pc \in Live
  BY DEF RotationStep, updatePhase, HookReturns, putCandidate, promote, RotationFails,
         rollbackSecret, CallThrows, Live
<1> DEFINE To(l) == [rotation[c] EXCEPT !.pc = l]
<1>a. /\ secret \in Descriptor /\ secret.current \in SecretVersions
      /\ label \in [SecretVersions -> {"none", "candidate", "current", "previous"}]
      /\ rotation \in [SecretCalls -> RotationRecord] /\ rotation[c] \in RotationRecord
      /\ rotation[c].copy \in Descriptor /\ rotation[c].copy.current \in SecretVersions
      /\ rotation[c].old \in SecretVersions /\ rotation[c].new \in SecretVersions
      /\ activeCanaries \in Nat /\ VersionsKnown(c) /\ label[secret.current] # "none"
      /\ c \in Rotations => c \in SecretVersions
      /\ ~mixed /\ ~stranded =>
           /\ CallKnows(c) /\ activeCanaries <= 1
           /\ rotation[c].pc \notin Unlabelled => label[secret.current] = "current"
           /\ rotation[c].pc \notin InCanary \cup RollingBack => activeCanaries = 0
  BY <1>0, CallUnderWay
<1>b. stranded \in BOOLEAN /\ mixed \in BOOLEAN
  BY DEF SecretInv, SecretTypes
<1>c. ASSUME NEW l \in {"complete", "rolled_back", "threw"} \cup Live
      PROVE  /\ To(l) \in RotationRecord /\ To(l).pc = l /\ To(l).new = rotation[c].new
             /\ To(l).copy = rotation[c].copy /\ To(l).old = rotation[c].old
             /\ RotationGoto(c, l) => rotation' = [rotation EXCEPT ![c] = To(l)]
  BY <1>a DEF RotationRecord, RotationGoto
<1> HIDE DEF To
<1>d. \A l \in {"complete", "rolled_back", "threw"} : l # "idle" /\ l \notin Live
  BY DEF Live
<1>1. CASE updatePhase(c) /\ rotation[c].pc = "preparing"
  <2>1. /\ secret' = [rotation[c].copy EXCEPT !.phase = "preparing"]
        /\ RotationGoto(c, "generate") /\ activeCanaries' = activeCanaries
        /\ UNCHANGED <<label, mixed, stranded>>
    BY <1>1, <1>a DEF updatePhase
  <2>2. secret' \in Descriptor /\ secret'.current = rotation[c].copy.current
    BY <1>a, <2>1 DEF Descriptor
  <2>3. "generate" \in {"complete", "rolled_back", "threw"} \cup Live
    BY DEF Live
  <2> QED BY <1>0, <1>1, <1>a, <1>b, <1>c, <2>1, <2>2, <2>3, SecretCallMoves
          DEF VersionsKnown, CallKnows, BeforeCanary, InCanary, RollingBack, Unlabelled
<1>2. CASE updatePhase(c) /\ rotation[c].pc = "canary"
  <2>1. /\ secret' = [rotation[c].copy EXCEPT !.phase = "canary"]
        /\ RotationGoto(c, "apply") /\ activeCanaries' = activeCanaries + 1
        /\ UNCHANGED <<label, mixed, stranded>>
    BY <1>2, <1>a DEF updatePhase
  <2>2. secret' \in Descriptor /\ secret'.current = rotation[c].copy.current
    BY <1>a, <2>1 DEF Descriptor
  <2>3. "apply" \in {"complete", "rolled_back", "threw"} \cup Live
    BY DEF Live
  <2>4. activeCanaries' \in Nat
    BY <1>a, <2>1
  <2>5. c \in Rotations
    BY <1>2, <1>a DEF VersionsKnown, BeforeCanary
  <2> QED BY <1>0, <1>2, <1>a, <1>b, <1>c, <2>1, <2>2, <2>3, <2>4, <2>5, SecretCallMoves
          DEF VersionsKnown, CallKnows, BeforeCanary, InCanary, RollingBack, Unlabelled
<1>3. ASSUME NEW l \in {"candidate", "canary", "promote", "rollback", "relabel"},
             RotationGoto(c, l), UNCHANGED <<secret, label, activeCanaries, mixed, stranded>>,
             \/ rotation[c].pc = "generate" /\ l = "candidate"
             \/ rotation[c].pc = "validate" /\ l = "canary"
             \/ rotation[c].pc = "apply" /\ l = "promote"
             \/ rotation[c].pc \in Live /\ l = "rollback"
             \/ rotation[c].pc = "rollback" /\ l = "relabel"
      PROVE  SecretInv'
  <2>3. l \in {"complete", "rolled_back", "threw"} \cup Live
    BY DEF Live
  <2> QED BY <1>0, <1>3, <1>a, <1>b, <1>c, <2>3, SecretCallMoves
          DEF VersionsKnown, CallKnows, BeforeCanary, InCanary, RollingBack, Unlabelled
<1>4. CASE putCandidate(c)
  <2>1. /\ label' = [label EXCEPT ![c] = "candidate"] /\ RotationGoto(c, "validate")
        /\ rotation[c].pc = "candidate" /\ UNCHANGED <<secret, activeCanaries, mixed, stranded>>
    BY <1>4 DEF putCandidate, putVersion
  <2>2. c \in Rotations /\ c \in SecretVersions /\ label[c] = "none" /\ rotation[c].new = c
    BY <2>1, <1>a DEF VersionsKnown, BeforeCanary
  <2>3. "validate" \in {"complete", "rolled_back", "threw"} \cup Live
    BY DEF Live
  <2>4. /\ label' \in [SecretVersions -> {"none", "candidate", "current", "previous"}]
        /\ label'[c] = "candidate" /\ \A v \in SecretVersions : v # c => label'[v] = label[v]
    BY <1>a, <2>1, <2>2
  <2> QED BY <1>0, <1>a, <1>b, <1>c, <2>1, <2>2, <2>3, <2>4, SecretCallMoves
          DEF VersionsKnown, CallKnows, BeforeCanary, InCanary, RollingBack, Unlabelled
<1>5. CASE promote(c) /\ rotation[c].pc = "promote"
  <2> DEFINE n == [rotation[c] EXCEPT !.pc = "retire", !.copy = secret]
  <2>1. /\ rotation' = [rotation EXCEPT ![c] = n]
        /\ UNCHANGED <<secret, label, activeCanaries, mixed, stranded>>
    BY <1>5, <1>a DEF promote
  <2>2. /\ n \in RotationRecord /\ n.pc = "retire" /\ n.copy = secret /\ n.old = rotation[c].old
        /\ n.new = rotation[c].new
    BY <1>a DEF RotationRecord, Live
  <2> HIDE DEF n
  <2>3. /\ label'[secret'.current] # "none" /\ label'[n.copy.current] # "none"
        /\ label'[n.old] # "none" /\ label'[n.new] # "none" /\ (c \in Rotations => n.new = c)
    BY <1>5, <1>a, <2>1, <2>2 DEF VersionsKnown, InCanary
  <2>4. /\ "retire" \notin BeforeCanary /\ "retire" \in InCanary
        /\ "retire" \notin Unlabelled /\ "promote" \notin Unlabelled
        /\ "retire" \notin {"preparing", "generate", "candidate", "switch", "restore", "idle"}
    BY DEF BeforeCanary, InCanary, RollingBack, Unlabelled
  <2>5. activeCanaries' \in Nat /\ activeCanaries' <= activeCanaries
    BY <1>a, <2>1
  <2> QED BY <1>0, <1>5, <1>a, <1>b, <2>1, <2>2, <2>3, <2>4, <2>5, SecretCallMoves
<1>6. CASE promote(c) /\ rotation[c].pc = "retire"
  <2>1. /\ label' = [label EXCEPT ![rotation[c].copy.current] = "previous"]
        /\ RotationGoto(c, "activate") /\ UNCHANGED <<secret, activeCanaries, mixed, stranded>>
    BY <1>6 DEF promote, putVersion
  <2>3. "activate" \in {"complete", "rolled_back", "threw"} \cup Live
    BY DEF Live
  <2>4. /\ label' \in [SecretVersions -> {"none", "candidate", "current", "previous"}]
        /\ \A v \in SecretVersions : label'[v] = "none" <=> label[v] = "none"
    BY <1>a, <2>1 DEF VersionsKnown
  <2> QED BY <1>0, <1>6, <1>a, <1>b, <1>c, <2>1, <2>3, <2>4, SecretCallMoves
          DEF VersionsKnown, CallKnows, BeforeCanary, InCanary, RollingBack, Unlabelled
<1>7. CASE promote(c) /\ rotation[c].pc = "activate"
  <2>1. /\ label' = [label EXCEPT ![rotation[c].new] = "current"]
        /\ RotationGoto(c, "switch") /\ UNCHANGED <<secret, activeCanaries, mixed, stranded>>
    BY <1>7 DEF promote, putVersion
  <2>3. "switch" \in {"complete", "rolled_back", "threw"} \cup Live
    BY DEF Live
  <2>4. /\ label' \in [SecretVersions -> {"none", "candidate", "current", "previous"}]
        /\ \A v \in SecretVersions : label'[v] = "none" <=> label[v] = "none"
        /\ label'[rotation[c].new] = "current"
    BY <1>7, <1>a, <2>1 DEF VersionsKnown, InCanary
  <2> QED BY <1>0, <1>7, <1>a, <1>b, <1>c, <2>1, <2>3, <2>4, SecretCallMoves
          DEF VersionsKnown, CallKnows, BeforeCanary, InCanary, RollingBack, Unlabelled
<1>8. CASE promote(c) /\ rotation[c].pc = "switch"
  <2>1. /\ secret' = [current |-> rotation[c].new, phase |-> "complete"]
        /\ activeCanaries' = Decremented
        /\ RotationGoto(c, "complete") /\ UNCHANGED <<label, mixed, stranded>>
    BY <1>8 DEF promote
  <2>2. secret' \in Descriptor /\ secret'.current = rotation[c].new
    BY <1>a, <2>1 DEF Descriptor
  <2>4. /\ activeCanaries' \in Nat /\ activeCanaries' <= activeCanaries
        /\ activeCanaries <= 1 => activeCanaries' = 0
    BY <1>a, <2>1 DEF Decremented
  <2> QED BY <1>0, <1>8, <1>a, <1>b, <1>c, <1>d, <2>1, <2>2, <2>4, SecretCallMoves
          DEF VersionsKnown, CallKnows, BeforeCanary, InCanary, RollingBack, Unlabelled
<1>9. CASE rollbackSecret(c) /\ rotation[c].pc = "relabel"
  <2>1. /\ label' = [label EXCEPT ![rotation[c].old] = "current"]
        /\ RotationGoto(c, "restore") /\ UNCHANGED <<secret, activeCanaries, mixed, stranded>>
    BY <1>9 DEF rollbackSecret, putVersion
  <2>3. "restore" \in {"complete", "rolled_back", "threw"} \cup Live
    BY DEF Live
  <2>4. /\ label' \in [SecretVersions -> {"none", "candidate", "current", "previous"}]
        /\ \A v \in SecretVersions : label'[v] = "none" <=> label[v] = "none"
        /\ label'[rotation[c].old] = "current"
    BY <1>9, <1>a, <2>1 DEF VersionsKnown
  <2> QED BY <1>0, <1>9, <1>a, <1>b, <1>c, <2>1, <2>3, <2>4, SecretCallMoves
          DEF VersionsKnown, CallKnows, BeforeCanary, InCanary, RollingBack, Unlabelled
<1>10. CASE rollbackSecret(c) /\ rotation[c].pc = "restore"
  <2>1. /\ secret' = [current |-> rotation[c].old, phase |-> "rolled_back"]
        /\ activeCanaries' = Decremented
        /\ RotationGoto(c, "rolled_back") /\ UNCHANGED <<label, mixed, stranded>>
    BY <1>10 DEF rollbackSecret
  <2>2. secret' \in Descriptor /\ secret'.current = rotation[c].old
    BY <1>a, <2>1 DEF Descriptor
  <2>4. /\ activeCanaries' \in Nat /\ activeCanaries' <= activeCanaries
        /\ activeCanaries <= 1 => activeCanaries' = 0
    BY <1>a, <2>1 DEF Decremented
  <2> QED BY <1>0, <1>10, <1>a, <1>b, <1>c, <1>d, <2>1, <2>2, <2>4, SecretCallMoves
          DEF VersionsKnown, CallKnows, BeforeCanary, InCanary, RollingBack, Unlabelled
<1>11. CASE CallThrows(c)
  <2>1. /\ RotationGoto(c, "threw") /\ stranded' = TRUE
        /\ UNCHANGED <<secret, label, activeCanaries, mixed>>
        /\ rotation[c].pc \notin BeforeCanary
    BY <1>11 DEF CallThrows, BeforeCanary
  <2> QED BY <1>0, <1>a, <1>b, <1>c, <1>d, <2>1, SecretCallMoves
          DEF VersionsKnown, CallKnows, BeforeCanary, InCanary, RollingBack, Unlabelled
<1>12. CASE HookReturns(c)
  BY <1>12, <1>3 DEF HookReturns
<1>13. CASE RotationFails(c)
  BY <1>13, <1>3 DEF RotationFails
<1>14. CASE rollbackSecret(c) /\ rotation[c].pc = "rollback"
  BY <1>14, <1>3 DEF rollbackSecret
<1>15. updatePhase(c) => rotation[c].pc \in {"preparing", "canary"}
  BY DEF updatePhase
<1>16. promote(c) => rotation[c].pc \in {"promote", "retire", "activate", "switch"}
  BY DEF promote
<1>17. rollbackSecret(c) => rotation[c].pc \in {"rollback", "relabel", "restore"}
  BY DEF rollbackSecret
<1> QED BY <1>1, <1>2, <1>4, <1>5, <1>6, <1>7, <1>8, <1>9, <1>10, <1>11, <1>12, <1>13, <1>14,
           <1>15, <1>16, <1>17 DEF RotationStep

\* A call begins with what the descriptor says now; if another one is under way,
\* the two overlap.
LEMMA CallBegins ==
  ASSUME SecretInv, NEW c \in SecretCalls, NEW n \in RotationRecord, Begin(c, n),
         n.pc \in {"preparing", "promote", "rollback"}, n.copy = secret,
         label[n.old] # "none", n.pc = "promote" => label[n.new] # "none",
         IF c \in Rotations THEN n.pc = "preparing" /\ n.new = c ELSE n.pc # "preparing"
  PROVE  SecretInv'
<1>1. /\ rotation[c].pc = "idle" /\ rotation' = [rotation EXCEPT ![c] = n]
      /\ mixed' = (mixed \/ \E d \in SecretCalls : rotation[d].pc \in Live)
      /\ UNCHANGED <<secret, label, activeCanaries, stranded>>
  BY DEF Begin, RotationAt
<1>2. SecretTypes /\ CanariesCounted /\ VersionsStored /\ OneAtATime
  BY DEF SecretInv
<1>3. /\ rotation' \in [SecretCalls -> RotationRecord] /\ rotation'[c] = n
      /\ \A d \in SecretCalls : d # c => rotation'[d] = rotation[d]
  BY <1>1, <1>2 DEF SecretTypes
<1>4. SecretTypes'
  <2>1. mixed' \in BOOLEAN
    BY <1>1
  <2> QED BY <1>1, <1>2, <1>3, <2>1 DEF SecretTypes
<1>5. CanariesCounted'
  <2>1. Marked' = Marked
    BY <1>1, <1>3 DEF Marked, BeforeCanary, SecretCalls
  <2> QED BY <1>1, <1>2, <2>1 DEF CanariesCounted
<1>6. OneAtATime'
  <2> SUFFICES ASSUME ~mixed', NEW p \in SecretCalls, NEW q \in SecretCalls,
                      rotation'[p].pc \in Live, rotation'[q].pc \in Live
               PROVE  p = q
    BY DEF OneAtATime
  <2> QED BY <1>1, <1>3
<1>7. VersionsStored'
  <2>1. ASSUME NEW d \in SecretCalls PROVE VersionsKnown(d)'
    <3>1. VersionsKnown(d) /\ label[secret.current] # "none"
      BY <1>2 DEF VersionsStored
    <3>2. CASE d = c
      BY <1>1, <1>3, <3>1, <3>2 DEF VersionsKnown, InCanary, BeforeCanary
    <3>3. CASE d # c
      BY <1>1, <1>3, <3>1, <3>3 DEF VersionsKnown
    <3> QED BY <3>2, <3>3
  <2> QED BY <1>1, <1>2, <2>1 DEF VersionsStored
<1>8. ASSUME ~mixed', ~stranded' PROVE LabelsFollow'
  <2>1. /\ ~mixed /\ ~stranded /\ \A d \in SecretCalls : rotation[d].pc \notin Live
    BY <1>1, <1>8
  <2>2. CurrentIsLabelled /\ NoCanaryAtRest
    BY <2>1 DEF SecretInv, LabelsFollow
  <2>3. label[secret.current] = "current" /\ activeCanaries = 0
    BY <2>1, <2>2, SecretLabels DEF CurrentIsLabelled, NoCanaryAtRest
  <2>4. CurrentIsLabelled' /\ NoCanaryAtRest' /\ activeCanaries' <= 1
    BY <1>1, <2>3 DEF CurrentIsLabelled, NoCanaryAtRest
  <2>5. ASSUME NEW d \in SecretCalls PROVE CallKnows(d)'
    <3>1. CASE d = c
      BY <1>1, <1>3, <3>1 DEF CallKnows
    <3>2. CASE d # c
      <4>1. rotation'[d].pc \notin BeforeCanary \cup {"retire"} \cup {"switch", "restore"}
        BY <1>3, <2>1, <3>2, SecretLabels DEF InCanary, RollingBack
      <4> QED BY <4>1 DEF CallKnows
    <3> QED BY <3>1, <3>2
  <2> QED BY <2>4, <2>5 DEF LabelsFollow
<1> QED BY <1>4, <1>5, <1>6, <1>7, <1>8 DEF SecretInv

\* SecretInv holds of every behaviour of the rotation service.
LEMMA SecretInvariance == SecretInit /\ [][SecretNext]_secretVars => []SecretInv
<1>1. SecretInit => SecretInv
  <2> SUFFICES ASSUME SecretInit PROVE SecretInv
    OBVIOUS
  <2> USE RotationsAssumption DEF SecretInit
  <2>1. /\ secret \in Descriptor /\ secret.current = initialVersion
        /\ label[initialVersion] = "current" /\ initialVersion \in SecretVersions
        /\ Rotations \subseteq SecretVersions
    BY DEF Descriptor, SecretVersions
  <2>2. label \in [SecretVersions -> {"none", "candidate", "current", "previous"}]
    OBVIOUS
  <2>3. \A c \in SecretCalls :
          /\ rotation[c].pc = "idle" /\ rotation[c].copy = secret
          /\ rotation[c].old = initialVersion /\ (c \in Rotations => rotation[c].new = c)
    BY <2>1
  <2>4. rotation \in [SecretCalls -> RotationRecord]
    BY <2>1 DEF RotationRecord
  <2>5. SecretTypes
    <3>1. mixed \in BOOLEAN /\ stranded \in BOOLEAN
      OBVIOUS
    <3> QED BY <2>1, <2>2, <2>4, <3>1 DEF SecretTypes
  <2>6. Marked = {} /\ Cardinality(Marked) = 0
    BY <2>3, FS_EmptySet DEF Marked, SecretCalls
  <2>7. CanariesCounted
    BY <2>6 DEF CanariesCounted
  <2>8. OneAtATime
    BY <2>3 DEF OneAtATime, Live
  <2>9. LabelsFollow
    BY <2>1, <2>3 DEF LabelsFollow, CurrentIsLabelled, NoCanaryAtRest, CallKnows, BeforeCanary
  <2>10. VersionsStored
    BY <2>1, <2>3 DEF VersionsStored, VersionsKnown, InCanary, BeforeCanary, SecretVersions
  <2> QED BY <2>5, <2>7, <2>8, <2>9, <2>10 DEF SecretInv
<1>2. SecretInv /\ [SecretNext]_secretVars => SecretInv'
  <2> SUFFICES ASSUME SecretInv, [SecretNext]_secretVars PROVE SecretInv'
    OBVIOUS
  <2>1. /\ secret \in Descriptor /\ secret.current \in SecretVersions
        /\ label[secret.current] # "none"
    BY DEF SecretInv, SecretTypes, VersionsStored, Descriptor
  <2>2. ASSUME NEW r \in Rotations, rotate(r) PROVE SecretInv'
    <3> DEFINE n == [pc |-> "preparing", copy |-> secret, old |-> secret.current, new |-> r]
    <3>1. n \in RotationRecord /\ Begin(r, n) /\ r \in SecretCalls
      BY <2>1, <2>2 DEF rotate, RotationRecord, Live, SecretVersions, SecretCalls
    <3>2. n.pc = "preparing" /\ n.copy = secret /\ n.old = secret.current /\ n.new = r
      OBVIOUS
    <3> HIDE DEF n
    <3> QED BY <2>1, <3>1, <3>2, CallBegins
  <2>3. ASSUME NEW c \in ManualCalls, manualPromote(c) PROVE SecretInv'
    <3>1. PICK v \in Stored :
            Begin(c, [pc |-> "promote", copy |-> secret, old |-> secret.current, new |-> v])
      BY <2>3 DEF manualPromote
    <3> DEFINE n == [pc |-> "promote", copy |-> secret, old |-> secret.current, new |-> v]
    <3>2. v \in SecretVersions /\ label[v] # "none"
      BY DEF Stored
    <3>3. n \in RotationRecord /\ Begin(c, n) /\ c \in SecretCalls /\ c \notin Rotations
      BY <2>1, <3>1, <3>2, RotationsAssumption DEF RotationRecord, Live, SecretCalls
    <3>4. n.pc = "promote" /\ n.copy = secret /\ n.old = secret.current /\ n.new = v
      OBVIOUS
    <3> HIDE DEF n
    <3> QED BY <2>1, <3>2, <3>3, <3>4, CallBegins
  <2>4. ASSUME NEW c \in ManualCalls, manualRollback(c) PROVE SecretInv'
    <3>1. PICK v \in Stored :
            Begin(c, [pc |-> "rollback", copy |-> secret, old |-> v, new |-> v])
      BY <2>4 DEF manualRollback
    <3> DEFINE n == [pc |-> "rollback", copy |-> secret, old |-> v, new |-> v]
    <3>2. v \in SecretVersions /\ label[v] # "none"
      BY DEF Stored
    <3>3. n \in RotationRecord /\ Begin(c, n) /\ c \in SecretCalls /\ c \notin Rotations
      BY <2>1, <3>1, <3>2, RotationsAssumption DEF RotationRecord, Live, SecretCalls
    <3>4. n.pc = "rollback" /\ n.copy = secret /\ n.old = v /\ n.new = v
      OBVIOUS
    <3> HIDE DEF n
    <3> QED BY <2>1, <3>2, <3>3, <3>4, CallBegins
  <2>5. CASE SecretNext
    BY <2>5, <2>2, <2>3, <2>4, RotationStepInv DEF SecretNext
  <2>6. CASE UNCHANGED secretVars
    BY <2>6 DEF secretVars, SecretInv, SecretTypes, CanariesCounted, Marked, OneAtATime,
                VersionsStored, VersionsKnown, LabelsFollow, CurrentIsLabelled,
                NoCanaryAtRest, CallKnows
  <2> QED BY <2>5, <2>6
<1> QED BY <1>1, <1>2, PTL

\* At rest LabelsFollow is SecretCoherent, and a counted canary belongs to a call.
LEMMA SecretInvImplies == SecretInv => SecretTypeOK /\ SecretCoherent
<1> SUFFICES ASSUME SecretInv PROVE SecretTypeOK /\ SecretCoherent
  OBVIOUS
<1>1. SecretTypeOK
  <2>1. Cardinality(Marked) \in Nat /\ Cardinality(Rotations) \in Nat
        /\ Cardinality(Marked) <= Cardinality(Rotations)
    <3>1. Marked \subseteq Rotations
      BY DEF Marked
    <3> QED BY <3>1, RotationsAssumption, FS_Subset, FS_CardinalityType
  <2>2. activeCanaries \in 0..Cardinality(Rotations)
    BY <2>1 DEF SecretInv, SecretTypes, CanariesCounted
  <2> QED BY <2>2 DEF SecretInv, SecretTypes, SecretTypeOK, RotationRecord
<1>2. SecretCoherent
  <2>1. InCanary \cup RollingBack \subseteq Live /\ Unlabelled \subseteq Live
    BY SecretLabels
  <2> QED BY <2>1 DEF SecretInv, LabelsFollow, CurrentIsLabelled, NoCanaryAtRest,
                      VersionsStored, SecretCoherent, SecretAtRest
<1> QED BY <1>1, <1>2

\* In every behaviour of the background system: the descriptor names a stored version
\* however calls overlap and fail; and at rest that version is labelled current and
\* no canary is counted, after any number of rotations and of promotions and
\* rollbacks by hand, as long as no two overlapped and none threw half-way.
THEOREM SecretsAreSafe == Spec => []SecretSafe
<1>1. Init => SecretInit
  BY DEF Init
<1>2. [Next]_vars => [SecretNext]_secretVars
  BY DEF Next, vars, stores
<1>3. SecretInv => SecretSafe
  BY SecretInvImplies DEF SecretSafe
<1> QED BY <1>1, <1>2, <1>3, SecretInvariance, PTL DEF Spec
-----------------------------------------------------------------------------
(***************************************************************************)
(* The Kafka auto scaler                                                   *)
(***************************************************************************)

EvaluationRecord == [pc : {"idle", "count", "scale"}, lag : Lags \cup {0}, to : Nat, now : Nat]
Limits == minConsumers..maxConsumers

\* What no evaluation can take out of the limits: the group, the cached count and
\* the count an awaited scaling will set.
WithinLimits ==
  /\ consumers \in Limits /\ cachedCount \in Limits \cup {0}
  /\ \A e \in Evaluations : evaluation[e].pc = "scale" => evaluation[e].to \in Limits

\* While evaluations do not cross, only one is pending: the cooldown it checked
\* still holds when it stamps, and the count it cached is the group's.
Uncrossed ==
  ~crossing =>
    /\ \A e, f \in Pending : e = f
    /\ \A e \in Evaluations :
         evaluation[e].pc = "scale" => evaluation[e].now - lastScaleTime >= scaleCooldown
    /\ ~hasty /\ (countLost \/ cachedCount \in {0, consumers})

KafkaInv == KafkaTypeOK /\ WithinLimits /\ Uncrossed

\* A finite set with at most one element.
LEMMA AtMostOne ==
  ASSUME NEW S, IsFiniteSet(S), Cardinality(S) <= 1, NEW x \in S, NEW y \in S
  PROVE  x = y
<1> SUFFICES ASSUME x # y PROVE FALSE
  OBVIOUS
<1>1. IsFiniteSet({x}) /\ Cardinality({x}) = 1
  BY FS_Singleton
<1>2. Cardinality({x} \cup {y}) = 2
  <2>1. Cardinality({x} \cup {y}) = IF y \in {x} THEN Cardinality({x}) ELSE Cardinality({x}) + 1
    BY <1>1, FS_AddElement
  <2> QED BY <1>1, <2>1
<1>3. Cardinality({x} \cup {y}) <= Cardinality(S) /\ Cardinality(S) \in Nat
  <2>1. {x} \cup {y} \in SUBSET S
    OBVIOUS
  <2> QED BY <2>1, FS_Subset, FS_CardinalityType
<1> QED BY <1>2, <1>3

\* Both directions stop at the limits.
LEMMA TargetWithin ==
  ASSUME NEW n \in Limits, NEW d PROVE Target(n, d) \in Limits
BY KafkaAssumption DEF Limits, Target

\* A step that ends or moves one pending evaluation makes no other pending.
LEMMA EvaluationMoves ==
  ASSUME KafkaInv, NEW e \in Evaluations, evaluation[e].pc # "idle", NEW n \in EvaluationRecord,
         evaluation' = [evaluation EXCEPT ![e] = n]
  PROVE  /\ evaluation' \in [Evaluations -> EvaluationRecord] /\ evaluation'[e] = n
         /\ \A f \in Evaluations : f # e => evaluation'[f] = evaluation[f]
         /\ Pending' \subseteq Pending /\ e \in Pending
         /\ ~crossing => \A f \in Evaluations : f # e => evaluation[f].pc = "idle"
<1>1. /\ evaluation' \in [Evaluations -> EvaluationRecord] /\ evaluation'[e] = n
      /\ \A f \in Evaluations : f # e => evaluation'[f] = evaluation[f]
  BY DEF KafkaInv, KafkaTypeOK, EvaluationRecord
<1>2. e \in Pending /\ Pending' \subseteq Pending
  BY <1>1 DEF Pending
<1>3. ~crossing => \A f \in Evaluations : f # e => evaluation[f].pc = "idle"
  BY <1>2 DEF KafkaInv, Uncrossed, Pending
<1> QED BY <1>1, <1>2, <1>3

\* An evaluation that has ended.
LEMMA NoEvaluationType ==
  /\ NoEvaluation \in EvaluationRecord /\ NoEvaluation.pc = "idle"
BY DEF NoEvaluation, EvaluationRecord

\* Every step of the monitor and of the scaler keeps KafkaInv.
LEMMA KafkaStep == KafkaInv /\ [KafkaNext]_kafkaVars => KafkaInv'
<1> SUFFICES ASSUME KafkaInv, [KafkaNext]_kafkaVars PROVE KafkaInv'
  OBVIOUS
<1>0. /\ KafkaTypeOK /\ WithinLimits /\ Uncrossed
      /\ evaluation \in [Evaluations -> EvaluationRecord]
      /\ Limits \subseteq Nat \ {0}
      /\ consumers \in Nat /\ cachedCount \in Nat /\ lastScaleTime \in Nat
      /\ time \in Nat /\ scaleCooldown \in Nat /\ MaxTime \in Nat
      /\ scaleDowns \in 0..maxConsecutiveScaleDowns /\ maxConsecutiveScaleDowns \in Nat
  BY KafkaAssumption DEF KafkaInv, KafkaTypeOK, EvaluationRecord, Limits
<1>1. CASE TimePasses
  BY <1>0, <1>1 DEF TimePasses, KafkaInv, KafkaTypeOK, WithinLimits, Uncrossed, Pending
<1>2. CASE start \/ stop
  <2>1. /\ UNCHANGED <<consumers, summary, evaluation, cachedCount, lastScaleTime,
                       scaleDowns, time, crossing, countLost, hasty>>
        /\ scalerRunning' \in BOOLEAN /\ listeners' \in {listeners, 2}
    BY <1>2 DEF start, stop
  <2>2. KafkaTypeOK'
    BY <1>0, <2>1 DEF KafkaTypeOK
  <2>3. WithinLimits' /\ Uncrossed'
    BY <1>0, <2>1 DEF WithinLimits, Uncrossed, Pending
  <2> QED BY <2>2, <2>3 DEF KafkaInv
<1>3. ASSUME NEW l \in Lags, checkGroup(l) PROVE KafkaInv'
  <2>1. /\ summary' = l
        /\ UNCHANGED <<consumers, scalerRunning, listeners, cachedCount, lastScaleTime,
                       scaleDowns, time, countLost, hasty>>
    BY <1>3 DEF checkGroup
  <2>2. CASE UNCHANGED <<evaluation, crossing>>
    BY <1>0, <2>1, <2>2 DEF KafkaInv, KafkaTypeOK, WithinLimits, Uncrossed, Pending
  <2>3. ASSUME NEW s \in SUBSET (Evaluations \ Pending), Started(s),
               crossing' = (crossing \/ Cardinality(s \cup Pending) > 1)
        PROVE  KafkaInv'
    <3> DEFINE n == [NoEvaluation EXCEPT !.pc = "count", !.lag = summary']
    <3>1. n \in EvaluationRecord /\ n.pc = "count"
      BY <2>1 DEF EvaluationRecord, NoEvaluation
    <3>2. evaluation' = [e \in Evaluations |-> IF e \in s THEN n ELSE evaluation[e]]
      BY <2>3 DEF Started
    <3> HIDE DEF n
    <3>3. /\ evaluation' \in [Evaluations -> EvaluationRecord]
          /\ \A e \in Evaluations : evaluation'[e] = IF e \in s THEN n ELSE evaluation[e]
      BY <1>0, <3>1, <3>2
    <3>4. Pending' \subseteq s \cup Pending
      BY <3>3 DEF Pending
    <3>5. crossing' \in BOOLEAN
      BY <2>3
    <3>6. KafkaTypeOK'
      BY <1>0, <2>1, <3>3, <3>5 DEF KafkaTypeOK, EvaluationRecord
    <3>7. WithinLimits'
      BY <1>0, <2>1, <3>1, <3>3 DEF WithinLimits
    <3>8. ASSUME ~crossing' PROVE \A e, f \in Pending' : e = f
      <4>1. IsFiniteSet(s \cup Pending)
        <5>1. s \cup Pending \in SUBSET Evaluations
          BY DEF Pending
        <5> QED BY <5>1, KafkaAssumption, FS_Subset
      <4>2. Cardinality(s \cup Pending) <= 1
        <5>1. Cardinality(s \cup Pending) \in Nat /\ ~(Cardinality(s \cup Pending) > 1)
          BY <2>3, <3>8, <4>1, FS_CardinalityType
        <5> QED BY <5>1
      <4> QED BY <3>4, <4>1, <4>2, AtMostOne
    <3>9. Uncrossed'
      BY <1>0, <2>1, <2>3, <3>1, <3>3, <3>8 DEF Uncrossed
    <3> QED BY <3>6, <3>7, <3>9 DEF KafkaInv
  <2> QED BY <1>3, <2>2, <2>3 DEF checkGroup
<1>4. ASSUME NEW e \in Evaluations, evaluateLag(e) PROVE KafkaInv'
  <2> DEFINE n == IF cachedCount > 0 THEN cachedCount ELSE consumers
             d == Direction(evaluation[e].lag, n)
             to == [evaluation[e] EXCEPT !.pc = "scale", !.to = Target(n, d), !.now = time]
             scales == ~InCooldown /\ d \in {"up", "down"} /\ Target(n, d) # n
             v == IF scales THEN to ELSE NoEvaluation
  <2>1. /\ evaluation[e].pc = "count" /\ cachedCount' = n
        /\ evaluation' = [evaluation EXCEPT ![e] = v]
        /\ UNCHANGED <<consumers, summary, scalerRunning, listeners,
                       lastScaleTime, time, crossing, countLost, hasty>>
    BY <1>4 DEF evaluateLag
  <2>2. n \in Limits /\ (cachedCount \in {0, consumers} => n = consumers)
    BY <1>0 DEF WithinLimits
  <2>3. Target(n, d) \in Limits
    BY <2>2, TargetWithin
  <2>4. scaleDowns' \in 0..maxConsecutiveScaleDowns
    <3>1. d = "down" => scaleDowns < maxConsecutiveScaleDowns
      BY DEF Direction
    <3>2. scaleDowns' \in {scaleDowns, 0, scaleDowns + 1} /\ (scaleDowns' = scaleDowns + 1 => d = "down" \/ scaleDowns' = scaleDowns \/ scaleDowns' = 0)
      BY <1>4 DEF evaluateLag
    <3> HIDE DEF d
    <3> QED BY <1>0, <3>1, <3>2
  <2>5. to \in EvaluationRecord /\ to.pc = "scale" /\ to.to = Target(n, d) /\ to.now = time
    <3>1. evaluation[e] \in EvaluationRecord /\ Target(n, d) \in Nat
      BY <1>0, <2>3
    <3> HIDE DEF n, d
    <3> QED BY <1>0, <3>1 DEF EvaluationRecord
  <2>6. /\ v \in EvaluationRecord /\ v.pc \in {"scale", "idle"}
        /\ v.pc = "scale" => ~InCooldown /\ v.to = Target(n, d) /\ v.now = time
    BY <2>5, NoEvaluationType
  <2> HIDE DEF v, to, scales, d
  <2>7. /\ evaluation' \in [Evaluations -> EvaluationRecord] /\ evaluation'[e] = v
        /\ \A f \in Evaluations : f # e => evaluation'[f] = evaluation[f]
        /\ Pending' \subseteq Pending
        /\ ~crossing => \A f \in Evaluations : f # e => evaluation[f].pc = "idle"
    BY <2>1, <2>6, EvaluationMoves
  <2> HIDE DEF n
  <2>8. KafkaTypeOK'
    BY <1>0, <2>1, <2>2, <2>4, <2>7 DEF KafkaTypeOK, EvaluationRecord
  <2>9. WithinLimits'
    BY <1>0, <2>1, <2>2, <2>3, <2>6, <2>7 DEF WithinLimits
  <2>10. Uncrossed'
    <3> SUFFICES ASSUME ~crossing'
                 PROVE  /\ \A f, g \in Pending' : f = g
                        /\ \A f \in Evaluations : evaluation'[f].pc = "scale"
                             => evaluation'[f].now - lastScaleTime' >= scaleCooldown
                        /\ ~hasty' /\ (countLost' \/ cachedCount' \in {0, consumers'})
      BY DEF Uncrossed
    <3>1. \A f, g \in Pending' : f = g
      BY <1>0, <2>1, <2>7 DEF Uncrossed
    <3>2. v.pc = "scale" => v.now - lastScaleTime >= scaleCooldown
      BY <1>0, <2>6 DEF InCooldown
    <3>3. \A f \in Evaluations : evaluation'[f].pc = "scale"
             => evaluation'[f].now - lastScaleTime' >= scaleCooldown
      BY <1>0, <2>1, <2>7, <3>2 DEF Uncrossed
    <3>4. ~hasty' /\ (countLost' \/ cachedCount' \in {0, consumers'})
      BY <1>0, <2>1, <2>2 DEF Uncrossed
    <3> QED BY <3>1, <3>3, <3>4
  <2> QED BY <2>8, <2>9, <2>10 DEF KafkaInv
<1>5. ASSUME NEW e \in Evaluations, countFails(e) PROVE KafkaInv'
  <2>1. /\ evaluation[e].pc # "idle" /\ evaluation' = [evaluation EXCEPT ![e] = NoEvaluation]
        /\ UNCHANGED <<consumers, summary, scalerRunning, listeners, cachedCount,
                       lastScaleTime, scaleDowns, time, crossing, countLost, hasty>>
    BY <1>5 DEF countFails
  <2>2. /\ evaluation' \in [Evaluations -> EvaluationRecord] /\ evaluation'[e] = NoEvaluation
        /\ \A f \in Evaluations : f # e => evaluation'[f] = evaluation[f]
        /\ Pending' \subseteq Pending
    BY <2>1, EvaluationMoves, NoEvaluationType
  <2>3. KafkaTypeOK'
    BY <1>0, <2>1, <2>2 DEF KafkaTypeOK, EvaluationRecord
  <2>4. WithinLimits' /\ Uncrossed'
    BY <1>0, <2>1, <2>2, NoEvaluationType DEF WithinLimits, Uncrossed
  <2> QED BY <2>3, <2>4 DEF KafkaInv
<1>6. ASSUME NEW e \in Evaluations, scaleConsumerGroup(e) PROVE KafkaInv'
  <2>1. /\ evaluation[e].pc = "scale" /\ evaluation' = [evaluation EXCEPT ![e] = NoEvaluation]
        /\ consumers' = evaluation[e].to /\ cachedCount' = evaluation[e].to
        /\ lastScaleTime' = evaluation[e].now
        /\ hasty' = (hasty \/ evaluation[e].now - lastScaleTime < scaleCooldown)
        /\ UNCHANGED <<summary, scalerRunning, listeners, scaleDowns, time, crossing, countLost>>
    BY <1>6 DEF scaleConsumerGroup
  <2>2. /\ evaluation' \in [Evaluations -> EvaluationRecord] /\ evaluation'[e] = NoEvaluation
        /\ \A f \in Evaluations : f # e => evaluation'[f] = evaluation[f]
        /\ Pending' \subseteq Pending
        /\ ~crossing => \A f \in Evaluations : f # e => evaluation[f].pc = "idle"
    BY <2>1, EvaluationMoves, NoEvaluationType
  <2>3. evaluation[e].to \in Limits /\ evaluation[e].to \in Nat /\ evaluation[e].now \in Nat
    BY <1>0, <2>1 DEF WithinLimits, EvaluationRecord
  <2>4. KafkaTypeOK'
    BY <1>0, <2>1, <2>2, <2>3 DEF KafkaTypeOK, EvaluationRecord
  <2>5. WithinLimits'
    BY <1>0, <2>1, <2>2, <2>3, NoEvaluationType DEF WithinLimits
  <2>6. Uncrossed'
    <3>1. ~crossing => ~hasty'
      <4>1. ~crossing => ~hasty /\ evaluation[e].now - lastScaleTime >= scaleCooldown
        BY <1>0, <2>1 DEF Uncrossed
      <4>2. ~crossing => ~(evaluation[e].now - lastScaleTime < scaleCooldown)
        BY <1>0, <2>3, <4>1
      <4> QED BY <2>1, <4>1, <4>2, Zenon
    <3> QED BY <1>0, <2>1, <2>2, <3>1, NoEvaluationType DEF Uncrossed
  <2> QED BY <2>4, <2>5, <2>6 DEF KafkaInv
<1>7. ASSUME NEW e \in Evaluations, scaleFails(e) PROVE KafkaInv'
  <2>1. /\ evaluation[e].pc = "scale" /\ evaluation' = [evaluation EXCEPT ![e] = NoEvaluation]
        /\ \/ UNCHANGED <<consumers, countLost>>
           \/ consumers' = evaluation[e].to /\ countLost' = TRUE
        /\ UNCHANGED <<summary, scalerRunning, listeners, cachedCount,
                       lastScaleTime, scaleDowns, time, crossing, hasty>>
    BY <1>7 DEF scaleFails
  <2>2. /\ evaluation' \in [Evaluations -> EvaluationRecord] /\ evaluation'[e] = NoEvaluation
        /\ \A f \in Evaluations : f # e => evaluation'[f] = evaluation[f]
        /\ Pending' \subseteq Pending
    BY <2>1, EvaluationMoves, NoEvaluationType
  <2>3. evaluation[e].to \in Limits /\ evaluation[e].to \in Nat
    BY <1>0, <2>1 DEF WithinLimits
  <2>4. KafkaTypeOK'
    BY <1>0, <2>1, <2>2, <2>3 DEF KafkaTypeOK, EvaluationRecord
  <2>5. WithinLimits' /\ Uncrossed'
    BY <1>0, <2>1, <2>2, <2>3, NoEvaluationType DEF WithinLimits, Uncrossed
  <2> QED BY <2>4, <2>5 DEF KafkaInv
<1>8. CASE UNCHANGED kafkaVars
  BY <1>8 DEF kafkaVars, KafkaInv, KafkaTypeOK, WithinLimits, Uncrossed, Pending
<1> QED BY <1>1, <1>2, <1>3, <1>4, <1>5, <1>6, <1>7, <1>8 DEF KafkaNext

\* However evaluations overlap, and whatever counts and stamps are stale: the
\* consumer group keeps within its limits; and while no two evaluations were in
\* flight at once, scalings are a cooldown apart.
THEOREM ScalerIsSafe == Spec => []ScalerSafe
<1>1. Init => KafkaInv
  <2> SUFFICES ASSUME KafkaInit PROVE KafkaInv
    BY DEF Init
  <2>1. /\ \A e \in Evaluations : evaluation[e] = NoEvaluation
        /\ evaluation \in [Evaluations -> EvaluationRecord]
    BY NoEvaluationType DEF KafkaInit
  <2>2. KafkaTypeOK
    <3>1. {scalerRunning, crossing, countLost, hasty} \subseteq BOOLEAN
      BY DEF KafkaInit
    <3>2. /\ scaleDowns \in 0..maxConsecutiveScaleDowns /\ time \in scaleCooldown..MaxTime
          /\ consumers \in Nat /\ listeners \in 1..2 /\ {cachedCount, lastScaleTime} \subseteq Nat
      BY KafkaAssumption DEF KafkaInit
    <3> QED BY <2>1, <3>1, <3>2 DEF KafkaInit, KafkaTypeOK, EvaluationRecord
  <2>3. WithinLimits
    BY <2>1, KafkaAssumption, NoEvaluationType DEF KafkaInit, WithinLimits, Limits
  <2>4. Uncrossed
    BY <2>1, NoEvaluationType DEF KafkaInit, Uncrossed, Pending
  <2> QED BY <2>2, <2>3, <2>4 DEF KafkaInv
<1>2. [Next]_vars => [KafkaNext]_kafkaVars
  BY DEF Next, vars, workers
<1>3. KafkaInv => ScalerSafe
  BY KafkaAssumption DEF KafkaInv, WithinLimits, Limits, Uncrossed, ScalerSafe, ScaledWithinLimits
<1> QED BY <1>1, <1>2, <1>3, KafkaStep, PTL DEF Spec
-----------------------------------------------------------------------------
(***************************************************************************)
(* State archival                                                          *)
(***************************************************************************)

RenewalRecord ==
  [pc : {"idle", "query", "send", "apply", "done"}, now : 0..MaxLedger,
   rows : [DataKeys -> 0..MaxLedger], todo : SUBSET DataKeys, due : SUBSET DataKeys,
   attempts : 0..retryDelays]

ArchivalTypes ==
  /\ ledger \in Start..MaxLedger
  /\ liveUntil \in [DataKeys -> 0..(MaxLedger + DEFAULT_TTL_LEDGERS)]
  /\ lastRenewedAt \in [DataKeys -> 0..MaxLedger] /\ extendedAt \in [DataKeys -> 0..MaxLedger]
  /\ renewal \in [Renewals -> RenewalRecord]
  /\ excused \subseteq DataKeys
  /\ \A k \in DataKeys : extendedAt[k] <= ledger

\* A row is written after the chain has extended its key.
ChainIsAhead ==
  /\ \A k \in DataKeys : lastRenewedAt[k] > 0 => extendedAt[k] > 0
  /\ \A r \in Renewals : renewal[r].pc = "apply" => \A k \in renewal[r].due : extendedAt[k] > 0

\* For a key without an excuse only one call is under way, its row is not older
\* than the last extension, and what the call has read is still so.
Undisturbed(k) ==
  /\ \A r, q \in Renewals : Renewing(r) /\ Renewing(q) => r = q
  /\ (\A r \in Renewals : ~(renewal[r].pc = "apply" /\ k \in renewal[r].due))
       => lastRenewedAt[k] >= extendedAt[k]
  /\ \A r \in Renewals : renewal[r].pc \in {"query", "send"} =>
       /\ renewal[r].rows[k] = lastRenewedAt[k] /\ renewal[r].now <= ledger
       /\ k \in renewal[r].due => renewal[r].now - renewal[r].rows[k] > minRenewalGap

ArchivalInv ==
  /\ ArchivalTypes /\ ChainIsAhead /\ early = {}
  /\ \A k \in DataKeys \ excused : Undisturbed(k)

\* What Undisturbed says of the call that moves.
LEMMA OnlyRenewal ==
  ASSUME ArchivalInv, NEW r \in Renewals, Renewing(r), NEW k \in DataKeys \ excused
  PROVE  /\ \A q \in Renewals : Renewing(q) => q = r
         /\ ~(renewal[r].pc = "apply" /\ k \in renewal[r].due) => lastRenewedAt[k] >= extendedAt[k]
         /\ renewal[r].pc \in {"query", "send"} =>
              /\ renewal[r].rows[k] = lastRenewedAt[k] /\ renewal[r].now <= ledger
              /\ k \in renewal[r].due => renewal[r].now - renewal[r].rows[k] > minRenewalGap
<1>1. Undisturbed(k)
  BY DEF ArchivalInv
<1>2. \A q \in Renewals : Renewing(q) => q = r
  BY <1>1 DEF Undisturbed
<1>3. ~(renewal[r].pc = "apply" /\ k \in renewal[r].due) => lastRenewedAt[k] >= extendedAt[k]
  BY <1>1, <1>2 DEF Undisturbed, Renewing
<1> QED BY <1>1, <1>2, <1>3 DEF Undisturbed

\* A step of a call under way: the invariant is what it says of that call.
LEMMA RenewalCallMoves ==
  ASSUME ArchivalInv, NEW r \in Renewals, Renewing(r), NEW n \in RenewalRecord, n.pc # "idle",
         renewal' = [renewal EXCEPT ![r] = n], ledger' = ledger, early' = {},
         excused \subseteq excused', excused' \subseteq DataKeys,
         liveUntil' \in [DataKeys -> 0..(MaxLedger + DEFAULT_TTL_LEDGERS)],
         lastRenewedAt' \in [DataKeys -> 0..MaxLedger], extendedAt' \in [DataKeys -> 0..MaxLedger],
         \A k \in DataKeys : extendedAt'[k] <= ledger,
         \A k \in DataKeys : extendedAt[k] > 0 => extendedAt'[k] > 0,
         \A k \in DataKeys : lastRenewedAt'[k] > 0 => extendedAt'[k] > 0,
         n.pc = "apply" => \A k \in n.due : extendedAt'[k] > 0,
         \A k \in DataKeys \ excused' :
           /\ ~(n.pc = "apply" /\ k \in n.due) => lastRenewedAt'[k] >= extendedAt'[k]
           /\ n.pc \in {"query", "send"} =>
                /\ n.rows[k] = lastRenewedAt'[k] /\ n.now <= ledger
                /\ k \in n.due => n.now - n.rows[k] > minRenewalGap
  PROVE  ArchivalInv'
<1>1. /\ renewal' \in [Renewals -> RenewalRecord] /\ renewal'[r] = n
      /\ \A q \in Renewals : q # r => renewal'[q] = renewal[q]
  BY DEF ArchivalInv, ArchivalTypes
<1>2. ArchivalTypes'
  BY <1>1 DEF ArchivalInv, ArchivalTypes
<1>3. ChainIsAhead'
  <2>1. ASSUME NEW q \in Renewals, renewal'[q].pc = "apply", NEW k \in renewal'[q].due
        PROVE  extendedAt'[k] > 0
    <3>1. CASE q = r
      BY <1>1, <2>1, <3>1
    <3>2. CASE q # r
      <4>1. renewal'[q] = renewal[q] /\ renewal[q] \in RenewalRecord /\ extendedAt[k] > 0
        BY <1>1, <2>1, <3>2 DEF ArchivalInv, ArchivalTypes, ChainIsAhead
      <4>2. k \in DataKeys
        BY <2>1, <4>1 DEF RenewalRecord
      <4> QED BY <4>1, <4>2
    <3> QED BY <3>1, <3>2
  <2> QED BY <2>1 DEF ChainIsAhead
<1>4. ASSUME NEW k \in DataKeys \ excused' PROVE Undisturbed(k)'
  <2>1. \A q \in Renewals : Renewing(q) => q = r
    BY OnlyRenewal
  <2>2. \A q \in Renewals : q # r => renewal'[q].pc \notin {"query", "send", "apply"}
    BY <1>1, <2>1 DEF Renewing
  <2>3. \A p, q \in Renewals : Renewing(p)' /\ Renewing(q)' => p = q
    BY <2>2 DEF Renewing
  <2>4. (\A q \in Renewals : ~(renewal'[q].pc = "apply" /\ k \in renewal'[q].due))
          => lastRenewedAt'[k] >= extendedAt'[k]
    BY <1>1
  <2>5. \A q \in Renewals : renewal'[q].pc \in {"query", "send"} =>
          /\ renewal'[q].rows[k] = lastRenewedAt'[k] /\ renewal'[q].now <= ledger'
          /\ k \in renewal'[q].due => renewal'[q].now - renewal'[q].rows[k] > minRenewalGap
    BY <1>1, <2>2
  <2> QED BY <2>3, <2>4, <2>5 DEF Undisturbed
<1> QED BY <1>2, <1>3, <1>4 DEF ArchivalInv

\* A call that starts: alone, or every key is excused.
LEMMA RenewalStarts ==
  ASSUME ArchivalInv, NEW r \in Renewals, NEW n \in RenewalRecord, n.pc \in {"query", "send"},
         renewal' = [renewal EXCEPT ![r] = n], excused' \in SUBSET DataKeys,
         \/ excused' = DataKeys
         \/ /\ excused' = excused /\ \A q \in Renewals : ~Renewing(q)
            /\ n.now = ledger /\ n.rows = lastRenewedAt /\ n.due = {},
         UNCHANGED <<ledger, liveUntil, lastRenewedAt, extendedAt, early>>
  PROVE  ArchivalInv'
<1>1. /\ renewal' \in [Renewals -> RenewalRecord] /\ renewal'[r] = n
      /\ \A q \in Renewals : q # r => renewal'[q] = renewal[q]
  BY DEF ArchivalInv, ArchivalTypes
<1>2. ArchivalTypes'
  BY <1>1 DEF ArchivalInv, ArchivalTypes
<1>3. ChainIsAhead'
  BY <1>1 DEF ArchivalInv, ChainIsAhead
<1>4. ASSUME NEW k \in DataKeys \ excused' PROVE Undisturbed(k)'
  <2>1. /\ k \in DataKeys \ excused /\ \A q \in Renewals : ~Renewing(q)
        /\ n.now = ledger /\ n.rows = lastRenewedAt /\ n.due = {}
    BY <1>4
  <2>2. Undisturbed(k) /\ ledger \in Nat
    BY <2>1 DEF ArchivalInv, ArchivalTypes, Start
  <2>3. lastRenewedAt[k] >= extendedAt[k]
    BY <2>1, <2>2 DEF Undisturbed, Renewing
  <2>4. \A p, q \in Renewals : Renewing(p)' /\ Renewing(q)' => p = q
    BY <1>1, <2>1 DEF Renewing
  <2>5. \A q \in Renewals : renewal'[q].pc \in {"query", "send"} =>
          /\ renewal'[q].rows[k] = lastRenewedAt'[k] /\ renewal'[q].now <= ledger'
          /\ k \in renewal'[q].due => renewal'[q].now - renewal'[q].rows[k] > minRenewalGap
    <3> SUFFICES ASSUME NEW q \in Renewals, renewal'[q].pc \in {"query", "send"}
                 PROVE  /\ renewal'[q].rows[k] = lastRenewedAt'[k] /\ renewal'[q].now <= ledger'
                        /\ k \notin renewal'[q].due
      OBVIOUS
    <3>1. q = r
      BY <1>1, <2>1 DEF Renewing
    <3> QED BY <1>1, <2>1, <2>2, <3>1
  <2> QED BY <2>3, <2>4, <2>5 DEF Undisturbed
<1> QED BY <1>2, <1>3, <1>4 DEF ArchivalInv

\* The chain extends the keys of a batch: never one without an excuse too early.
LEMMA ExtendIsSpaced ==
  ASSUME ArchivalInv, NEW r \in Renewals, renewal[r].pc = "send", Extend(r)
  PROVE  /\ early' = {} /\ \A k \in DataKeys : extendedAt'[k] <= ledger
         /\ liveUntil' \in [DataKeys -> 0..(MaxLedger + DEFAULT_TTL_LEDGERS)]
         /\ extendedAt' \in [DataKeys -> 0..MaxLedger]
         /\ \A k \in DataKeys : extendedAt[k] > 0 => extendedAt'[k] > 0
         /\ \A k \in renewal[r].due : extendedAt'[k] > 0
         /\ \A k \in DataKeys \ renewal[r].due : extendedAt'[k] = extendedAt[k]
<1>0. /\ ledger \in 1..MaxLedger /\ MaxLedger \in Nat /\ DEFAULT_TTL_LEDGERS \in Nat
      /\ minRenewalGap \in Nat /\ Renewing(r) /\ renewal[r].due \subseteq DataKeys
      /\ renewal[r] \in RenewalRecord
      /\ liveUntil \in [DataKeys -> 0..(MaxLedger + DEFAULT_TTL_LEDGERS)]
      /\ lastRenewedAt \in [DataKeys -> 0..MaxLedger] /\ extendedAt \in [DataKeys -> 0..MaxLedger]
      /\ \A k \in DataKeys : extendedAt[k] <= ledger
  BY ArchivalAssumption DEF ArchivalInv, ArchivalTypes, RenewalRecord, Start, Renewing
<1>1. /\ liveUntil' = [k \in DataKeys |->
           IF k \in renewal[r].due THEN ledger + DEFAULT_TTL_LEDGERS ELSE liveUntil[k]]
      /\ extendedAt' = [k \in DataKeys |-> IF k \in renewal[r].due THEN ledger ELSE extendedAt[k]]
  BY DEF Extend
<1>2. liveUntil' \in [DataKeys -> 0..(MaxLedger + DEFAULT_TTL_LEDGERS)]
  <2>1. ledger + DEFAULT_TTL_LEDGERS \in 0..(MaxLedger + DEFAULT_TTL_LEDGERS)
    BY <1>0
  <2> QED BY <1>0, <1>1, <2>1
<1>3. /\ extendedAt' \in [DataKeys -> 0..MaxLedger]
      /\ \A k \in DataKeys : extendedAt[k] > 0 => extendedAt'[k] > 0
      /\ \A k \in renewal[r].due : extendedAt'[k] > 0
      /\ \A k \in DataKeys \ renewal[r].due : extendedAt'[k] = extendedAt[k]
      /\ \A k \in DataKeys : extendedAt'[k] <= ledger
  BY <1>0, <1>1
<1>4. ASSUME NEW k \in renewal[r].due \ excused PROVE ~(ledger - extendedAt[k] <= minRenewalGap)
  <2>1. k \in DataKeys \ excused
    BY <1>0
  <2>2. /\ lastRenewedAt[k] >= extendedAt[k] /\ renewal[r].rows[k] = lastRenewedAt[k]
        /\ renewal[r].now <= ledger /\ renewal[r].now - renewal[r].rows[k] > minRenewalGap
    BY <1>0, <2>1, OnlyRenewal
  <2>3. /\ renewal[r].now \in Nat /\ renewal[r].rows[k] \in Nat /\ lastRenewedAt[k] \in Nat
        /\ extendedAt[k] \in Nat
    BY <1>0, <2>1 DEF RenewalRecord
  <2> QED BY <1>0, <2>2, <2>3
<1>5. early' = {}
  <2>1. early' = early \cup {k \in renewal[r].due \ excused :
                   extendedAt[k] > 0 /\ ledger - extendedAt[k] <= minRenewalGap}
    BY DEF Extend
  <2> QED BY <1>4, <2>1 DEF ArchivalInv
<1> QED BY <1>2, <1>3, <1>5

\* Every step of the listener keeps ArchivalInv.
LEMMA ArchivalStep == ArchivalInv /\ [ArchivalNext]_archivalVars => ArchivalInv'
<1> SUFFICES ASSUME ArchivalInv, [ArchivalNext]_archivalVars PROVE ArchivalInv'
  OBVIOUS
<1>0. /\ ArchivalTypes /\ ChainIsAhead /\ early = {}
      /\ ledger \in 1..MaxLedger /\ MaxLedger \in Nat /\ retryDelays \in Nat
      /\ minRenewalGap \in Nat /\ excused \subseteq DataKeys
      /\ liveUntil \in [DataKeys -> 0..(MaxLedger + DEFAULT_TTL_LEDGERS)]
      /\ lastRenewedAt \in [DataKeys -> 0..MaxLedger] /\ extendedAt \in [DataKeys -> 0..MaxLedger]
      /\ renewal \in [Renewals -> RenewalRecord]
      /\ \A k \in DataKeys : lastRenewedAt[k] > 0 => extendedAt[k] > 0
      /\ \A k \in DataKeys : extendedAt[k] <= ledger
  BY ArchivalAssumption DEF ArchivalInv, ArchivalTypes, Start, ChainIsAhead
<1>a. NoRenewal \in RenewalRecord
  BY ArchivalAssumption DEF NoRenewal, RenewalRecord
<1>b. [NoRenewal EXCEPT !.pc = "done"] \in RenewalRecord /\ [NoRenewal EXCEPT !.pc = "done"].pc = "done"
  BY <1>a DEF RenewalRecord
<1>1. CASE LedgerCloses
  <2>1. /\ ledger' = ledger + 1 /\ ledger' \in Start..MaxLedger
        /\ UNCHANGED <<liveUntil, lastRenewedAt, renewal, extendedAt, excused, early>>
    BY <1>0, <1>1 DEF LedgerCloses, ArchivalTypes, Start
  <2>2. ArchivalTypes' /\ ChainIsAhead' /\ early' = {}
    BY <1>0, <2>1 DEF ArchivalTypes, ChainIsAhead
  <2>3. ASSUME NEW k \in DataKeys \ excused PROVE Undisturbed(k)'
    <3>1. Undisturbed(k) /\ \A r \in Renewals : renewal[r].now \in Nat
      BY <1>0 DEF ArchivalInv, RenewalRecord
    <3> QED BY <1>0, <2>1, <3>1 DEF Undisturbed, Renewing
  <2> QED BY <2>1, <2>2, <2>3 DEF ArchivalInv
<1>2. ASSUME NEW r \in Renewals, tick(r) PROVE ArchivalInv'
  <2> DEFINE n == [NoRenewal EXCEPT !.pc = "query", !.now = ledger, !.rows = lastRenewedAt,
                                    !.todo = DataKeys]
  <2>1. /\ renewal' = [renewal EXCEPT ![r] = n]
        /\ excused' = IF \E q \in Renewals : Renewing(q) THEN DataKeys ELSE excused
        /\ UNCHANGED <<ledger, liveUntil, lastRenewedAt, extendedAt, early>>
    BY <1>2 DEF tick
  <2>2. n.pc = "query" /\ n.now = ledger /\ n.rows = lastRenewedAt /\ n.due = {}
    BY DEF NoRenewal
  <2>3. n \in RenewalRecord
    <3>1. ledger \in 0..MaxLedger /\ lastRenewedAt \in [DataKeys -> 0..MaxLedger]
      BY <1>0
    <3> QED BY <1>a, <3>1 DEF RenewalRecord
  <2> HIDE DEF n
  <2> QED BY <1>0, <2>1, <2>2, <2>3, RenewalStarts
<1>3. ASSUME NEW r \in Renewals, renewNow(r) PROVE ArchivalInv'
  <2> DEFINE n == [NoRenewal EXCEPT !.pc = "send", !.due = DataKeys]
  <2>1. /\ renewal' = [renewal EXCEPT ![r] = n] /\ excused' = DataKeys
        /\ UNCHANGED <<ledger, liveUntil, lastRenewedAt, extendedAt, early>>
    BY <1>3 DEF renewNow
  <2>2. n.pc = "send"
    BY DEF NoRenewal
  <2>3. n \in RenewalRecord
    BY <1>a DEF RenewalRecord
  <2> HIDE DEF n
  <2> QED BY <1>0, <2>1, <2>2, <2>3, RenewalStarts
<1>4. ASSUME NEW r \in Renewals, getLedgerEntry(r) PROVE ArchivalInv'
  <2>1. /\ renewal[r].pc = "query" /\ Renewing(r) /\ renewal[r] \in RenewalRecord
        /\ UNCHANGED <<ledger, liveUntil, lastRenewedAt, extendedAt, excused, early>>
    BY <1>0, <1>4 DEF getLedgerEntry, Renewing
  <2>2. CASE Done(r)
    <3> DEFINE n == [NoRenewal EXCEPT !.pc = "done"]
    <3>1. renewal' = [renewal EXCEPT ![r] = n]
      BY <2>2 DEF Done
    <3>2. \A k \in DataKeys \ excused : lastRenewedAt[k] >= extendedAt[k]
      BY <2>1, OnlyRenewal
    <3>3. n \in RenewalRecord /\ n.pc = "done"
      BY <1>b
    <3> HIDE DEF n
    <3> QED BY <1>0, <2>1, <3>1, <3>2, <3>3, RenewalCallMoves
  <2>3. ASSUME NEW k \in renewal[r].todo, NEW due \in {renewal[r].due, renewal[r].due \cup {k}},
               due # renewal[r].due => isDue(r, k), NEW pc \in {"send", "query"},
               renewal' = [renewal EXCEPT ![r].todo = renewal[r].todo \ {k}, ![r].due = due,
                             ![r].pc = pc]
        PROVE  ArchivalInv'
    <3> DEFINE n == [renewal[r] EXCEPT !.todo = renewal[r].todo \ {k}, !.due = due, !.pc = pc]
    <3>1. renewal' = [renewal EXCEPT ![r] = n]
      BY <1>0, <2>3
    <3>2. k \in DataKeys /\ due \subseteq DataKeys
      BY <2>1 DEF RenewalRecord
    <3>3. n \in RenewalRecord
      BY <2>1, <3>2 DEF RenewalRecord
    <3>4. n.pc = pc /\ n.due = due /\ n.rows = renewal[r].rows /\ n.now = renewal[r].now
      BY <2>1 DEF RenewalRecord
    <3> HIDE DEF n
    <3>5. ASSUME NEW j \in DataKeys \ excused
          PROVE  /\ lastRenewedAt[j] >= extendedAt[j]
                 /\ n.rows[j] = lastRenewedAt[j] /\ n.now <= ledger
                 /\ j \in n.due => n.now - n.rows[j] > minRenewalGap
      <4>1. /\ lastRenewedAt[j] >= extendedAt[j]
            /\ renewal[r].rows[j] = lastRenewedAt[j] /\ renewal[r].now <= ledger
            /\ j \in renewal[r].due => renewal[r].now - renewal[r].rows[j] > minRenewalGap
        BY <2>1, OnlyRenewal
      <4>2. j \in due /\ j \notin renewal[r].due
              => renewal[r].now - renewal[r].rows[j] > minRenewalGap
        BY <2>3 DEF isDue
      <4> QED BY <3>4, <4>1, <4>2
    <3>6. n.pc \in {"send", "query"}
      BY <3>4
    <3> QED BY <1>0, <2>1, <3>1, <3>3, <3>5, <3>6, RenewalCallMoves
  <2>4. PICK k \in renewal[r].todo, answered \in BOOLEAN :
          LET todo == renewal[r].todo \ {k}
              due == IF answered /\ liveUntil[k] > ledger /\ isDue(r, k)
                       THEN renewal[r].due \cup {k} ELSE renewal[r].due
          IN  IF todo = {} /\ due = {} THEN Done(r)
              ELSE renewal' = [renewal EXCEPT ![r].todo = todo, ![r].due = due,
                                 ![r].pc = IF todo = {} THEN "send" ELSE "query"]
    BY <1>4 DEF getLedgerEntry
  <2> DEFINE due == IF answered /\ liveUntil[k] > ledger /\ isDue(r, k)
                      THEN renewal[r].due \cup {k} ELSE renewal[r].due
             pc == IF renewal[r].todo \ {k} = {} THEN "send" ELSE "query"
  <2>5. /\ due \in {renewal[r].due, renewal[r].due \cup {k}} /\ pc \in {"send", "query"}
        /\ due # renewal[r].due => isDue(r, k)
    OBVIOUS
  <2>6. \/ Done(r)
        \/ renewal' = [renewal EXCEPT ![r].todo = renewal[r].todo \ {k}, ![r].due = due, ![r].pc = pc]
    BY <2>4
  <2> HIDE DEF due, pc
  <2> QED BY <2>2, <2>3, <2>5, <2>6
<1>5. ASSUME NEW r \in Renewals, sendTransaction(r) PROVE ArchivalInv'
  <2> DEFINE n == [renewal[r] EXCEPT !.pc = "apply"]
  <2>1. /\ renewal[r].pc = "send" /\ Extend(r) /\ Renewing(r) /\ renewal[r] \in RenewalRecord
        /\ renewal' = [renewal EXCEPT ![r] = n]
        /\ UNCHANGED <<ledger, lastRenewedAt, excused>>
    BY <1>0, <1>5 DEF sendTransaction, Renewing
  <2>2. n \in RenewalRecord /\ n.pc = "apply" /\ n.due = renewal[r].due
    BY <2>1 DEF RenewalRecord
  <2> HIDE DEF n
  <2>3. /\ early' = {} /\ \A k \in DataKeys : extendedAt'[k] <= ledger
        /\ liveUntil' \in [DataKeys -> 0..(MaxLedger + DEFAULT_TTL_LEDGERS)]
        /\ extendedAt' \in [DataKeys -> 0..MaxLedger]
        /\ \A k \in DataKeys : extendedAt[k] > 0 => extendedAt'[k] > 0
        /\ \A k \in renewal[r].due : extendedAt'[k] > 0
        /\ \A k \in DataKeys \ renewal[r].due : extendedAt'[k] = extendedAt[k]
    BY <2>1, ExtendIsSpaced
  <2>4. \A k \in DataKeys \ excused : lastRenewedAt[k] >= extendedAt[k]
    BY <2>1, OnlyRenewal
  <2>5. \A k \in DataKeys \ excused : k \notin n.due => lastRenewedAt'[k] >= extendedAt'[k]
    BY <2>1, <2>2, <2>3, <2>4
  <2> QED BY <1>0, <2>1, <2>2, <2>3, <2>5, RenewalCallMoves
<1>6. ASSUME NEW r \in Renewals, sendTransactionFails(r) PROVE ArchivalInv'
  <2>1. /\ renewal[r].pc = "send" /\ Renewing(r) /\ renewal[r] \in RenewalRecord
        /\ UNCHANGED <<ledger, lastRenewedAt>>
    BY <1>0, <1>6 DEF sendTransactionFails, Renewing
  <2> DEFINE n == IF renewal[r].attempts = retryDelays THEN [NoRenewal EXCEPT !.pc = "done"]
                  ELSE [renewal[r] EXCEPT !.attempts = renewal[r].attempts + 1]
  <2>2. renewal' = [renewal EXCEPT ![r] = n]
    BY <1>0, <1>6 DEF sendTransactionFails, Done
  <2>3. /\ n \in RenewalRecord /\ n.pc \in {"done", "send"}
        /\ n.pc = "send" => /\ n.rows = renewal[r].rows /\ n.now = renewal[r].now
                            /\ n.due = renewal[r].due
    <3>1. CASE renewal[r].attempts = retryDelays
      BY <1>b, <3>1
    <3>2. CASE renewal[r].attempts # retryDelays
      <4>1. renewal[r].attempts + 1 \in 0..retryDelays
        <5>1. renewal[r].attempts \in 0..retryDelays
          BY <2>1 DEF RenewalRecord
        <5> QED BY <1>0, <3>2, <5>1
      <4> QED BY <2>1, <3>2, <4>1 DEF RenewalRecord
    <3> QED BY <3>1, <3>2
  <2> HIDE DEF n
  <2>4. \A k \in DataKeys \ excused :
          /\ lastRenewedAt[k] >= extendedAt[k]
          /\ renewal[r].rows[k] = lastRenewedAt[k] /\ renewal[r].now <= ledger
          /\ k \in renewal[r].due => renewal[r].now - renewal[r].rows[k] > minRenewalGap
    BY <2>1, OnlyRenewal
  <2>5. CASE UNCHANGED <<liveUntil, extendedAt, early, excused>>
    <3>1. \A k \in DataKeys \ excused : n.pc \in {"query", "send"} =>
                /\ n.rows[k] = lastRenewedAt'[k] /\ n.now <= ledger
                /\ k \in n.due => n.now - n.rows[k] > minRenewalGap
      BY <2>1, <2>3, <2>4
    <3> QED BY <1>0, <2>1, <2>2, <2>3, <2>4, <2>5, <3>1, RenewalCallMoves
  <2>6. CASE Extend(r) /\ excused' = excused \cup renewal[r].due
    <3>1. /\ early' = {} /\ \A k \in DataKeys : extendedAt'[k] <= ledger
          /\ liveUntil' \in [DataKeys -> 0..(MaxLedger + DEFAULT_TTL_LEDGERS)]
          /\ extendedAt' \in [DataKeys -> 0..MaxLedger]
          /\ \A k \in DataKeys : extendedAt[k] > 0 => extendedAt'[k] > 0
          /\ \A k \in DataKeys \ renewal[r].due : extendedAt'[k] = extendedAt[k]
      BY <2>1, <2>6, ExtendIsSpaced
    <3>2. excused' \subseteq DataKeys /\ excused \subseteq excused'
      BY <1>0, <2>1, <2>6 DEF RenewalRecord
    <3>3. \A k \in DataKeys \ excused' :
            /\ lastRenewedAt'[k] >= extendedAt'[k]
            /\ n.pc \in {"query", "send"} =>
                /\ n.rows[k] = lastRenewedAt'[k] /\ n.now <= ledger
                /\ k \in n.due => n.now - n.rows[k] > minRenewalGap
      BY <2>1, <2>3, <2>4, <2>6, <3>1
    <3> QED BY <1>0, <2>1, <2>2, <2>3, <3>1, <3>2, <3>3, RenewalCallMoves
  <2> QED BY <1>6, <2>5, <2>6 DEF sendTransactionFails
<1>7. ASSUME NEW r \in Renewals, applyRenewalResult(r) PROVE ArchivalInv'
  <2> DEFINE n == [NoRenewal EXCEPT !.pc = "done"]
  <2>1. /\ renewal[r].pc = "apply" /\ Renewing(r) /\ renewal[r] \in RenewalRecord
        /\ renewal' = [renewal EXCEPT ![r] = n]
        /\ UNCHANGED <<ledger, liveUntil, extendedAt, early>>
    BY <1>0, <1>7 DEF applyRenewalResult, Renewing, Done
  <2>2. n \in RenewalRecord /\ n.pc = "done"
    BY <1>b
  <2> HIDE DEF n
  <2>3. \A k \in renewal[r].due : extendedAt[k] > 0
    BY <1>0, <2>1 DEF ChainIsAhead
  <2>4. \A k \in DataKeys \ excused : k \notin renewal[r].due => lastRenewedAt[k] >= extendedAt[k]
    BY <2>1, OnlyRenewal
  <2>5. renewal[r].due \subseteq DataKeys
    BY <2>1 DEF RenewalRecord
  <2>6. CASE /\ lastRenewedAt' = [k \in DataKeys |->
                  IF k \in renewal[r].due THEN ledger ELSE lastRenewedAt[k]]
             /\ UNCHANGED excused
    <3>1. ASSUME NEW k \in DataKeys \ excused PROVE lastRenewedAt'[k] >= extendedAt[k]
      <4>1. CASE k \in renewal[r].due
        BY <1>0, <2>6, <4>1
      <4>2. CASE k \notin renewal[r].due
        BY <2>4, <2>6, <4>2
      <4> QED BY <4>1, <4>2
    <3>2. /\ lastRenewedAt' \in [DataKeys -> 0..MaxLedger]
          /\ \A k \in DataKeys : lastRenewedAt'[k] > 0 => extendedAt[k] > 0
      BY <1>0, <2>3, <2>6
    <3> QED BY <1>0, <2>1, <2>2, <2>6, <3>1, <3>2, RenewalCallMoves
  <2>7. CASE UNCHANGED lastRenewedAt /\ excused' = excused \cup renewal[r].due
    <3>1. \A k \in DataKeys \ excused' : lastRenewedAt'[k] >= extendedAt[k]
      BY <2>4, <2>7
    <3>2. excused' \subseteq DataKeys /\ excused \subseteq excused'
      BY <1>0, <2>5, <2>7
    <3> QED BY <1>0, <2>1, <2>2, <2>7, <3>1, <3>2, RenewalCallMoves
  <2> QED BY <1>7, <2>6, <2>7 DEF applyRenewalResult
<1>8. CASE UNCHANGED archivalVars
  BY <1>8 DEF archivalVars, ArchivalInv, ArchivalTypes, ChainIsAhead, Undisturbed, Renewing
<1> QED BY <1>1, <1>2, <1>3, <1>4, <1>5, <1>6, <1>7, <1>8 DEF ArchivalNext

\* Whatever ticks and manual renewals overlap, and whatever answers and rows are
\* lost: the watchlist claims no renewal the chain has not seen, and a key without
\* an excuse is not renewed twice within the gap.
THEOREM ArchivalIsSafe == Spec => []ArchivalSafe
<1>1. Init => ArchivalInv
  <2> SUFFICES ASSUME ArchivalInit PROVE ArchivalInv
    BY DEF Init
  <2> USE ArchivalAssumption DEF ArchivalInit
  <2>1. NoRenewal \in RenewalRecord /\ NoRenewal.pc = "idle"
    BY DEF NoRenewal, RenewalRecord
  <2>2. /\ \A r \in Renewals : renewal[r] = NoRenewal
        /\ renewal \in [Renewals -> RenewalRecord]
    BY <2>1
  <2>3. Start \in Start..MaxLedger /\ Start + 1 \in 0..(MaxLedger + DEFAULT_TTL_LEDGERS)
    BY DEF Start
  <2>4. ArchivalTypes
    <3>1. 0 \in 0..MaxLedger /\ 0 <= Start
      BY DEF Start
    <3> QED BY <2>2, <2>3, <3>1 DEF ArchivalTypes
  <2>5. ChainIsAhead /\ early = {}
    BY <2>1, <2>2 DEF ChainIsAhead
  <2>6. \A k \in DataKeys : Undisturbed(k)
    BY <2>1, <2>2 DEF Undisturbed, Renewing
  <2> QED BY <2>4, <2>5, <2>6 DEF ArchivalInv
<1>2. [Next]_vars => [ArchivalNext]_archivalVars
  BY DEF Next, vars, workers
<1>3. ArchivalInv => ArchivalSafe
  <2> SUFFICES ASSUME ArchivalInv PROVE ArchivalTypeOK /\ RenewalsSpaced
    BY DEF ArchivalSafe
  <2>1. RenewalsSpaced
    BY DEF ArchivalInv, ChainIsAhead, RenewalsSpaced
  <2>2. 0..retryDelays \subseteq 0..(retryDelays + 1)
    BY ArchivalAssumption
  <2>3. RenewalRecord \subseteq [pc : {"idle", "query", "send", "apply", "done"}, now : 0..MaxLedger,
          rows : [DataKeys -> 0..MaxLedger], todo : SUBSET DataKeys, due : SUBSET DataKeys,
          attempts : 0..(retryDelays + 1)]
    BY <2>2 DEF RenewalRecord
  <2>4. ArchivalTypeOK
    BY <2>3 DEF ArchivalInv, ArchivalTypes, ArchivalTypeOK
  <2> QED BY <2>1, <2>4
<1> QED BY <1>1, <1>2, <1>3, ArchivalStep, PTL DEF Spec
-----------------------------------------------------------------------------
(***************************************************************************)
(* Configuration audit                                                     *)
(***************************************************************************)

CaptureRecord ==
  [pc : {"idle", "waiting", "updated", "inserted", "done", "failed"}, snapshot : Snapshots,
   matched : SUBSET Captures]
BaselineRecord == [status : {"none", "active", "superseded", "expired"}, snapshot : Snapshots]

\* The transaction that has inserted its row holds the active one it supersedes.
SingleBaseline ==
  /\ \A a, b \in Active : a = b
  /\ \A c, d \in Captures : capture[c].pc = "inserted" /\ capture[d].pc = "inserted" => c = d
  /\ \A c \in Captures : capture[c].pc = "inserted" => Active \subseteq capture[c].matched
  /\ (\E c \in Captures : capture[c].pc = "done") => Active # {}

\* A report that names keys is the difference of its baseline and the
\* configuration of its detection.
ReportIsDiff ==
  \/ detection.report.keys = {}
  \/ detection.report.keys = deepDiff(detection.report.baseline, detection.config)

\* What an undisturbed rollback has gone past is restored.
Restored(k) ==
  \/ live[k] = rollbackRun.report.baseline[k]
  \/ live[k] = "undefined" /\ rollbackRun.report.baseline[k] = "absent"
RollbackFollows ==
  /\ rollbackRun.pc = "done" => rollbackRun.todo = {}
  /\ rollbackRun.pc # "idle" /\ rollbackRun.skipped = {} /\ ~disturbed
       => \A k \in ConfigKeys \ rollbackRun.todo : Restored(k)

AuditInv == ConfigAuditTypeOK /\ SingleBaseline /\ ReportIsDiff /\ RollbackFollows

CaptureStep(c) == captureUpdate(c) \/ captureLock(c) \/ captureInsert(c) \/ captureCommit(c)

\* The captures: their transactions and the rows they leave.
LEMMA CaptureSteps ==
  ASSUME AuditInv, NEW c \in Captures, CaptureStep(c)
  PROVE  /\ baselines' \in [Captures -> BaselineRecord] /\ capture' \in [Captures -> CaptureRecord]
         /\ SingleBaseline'
<1>0. /\ baselines \in [Captures -> BaselineRecord] /\ capture \in [Captures -> CaptureRecord]
      /\ capture[c] \in CaptureRecord /\ live \in Snapshots /\ SingleBaseline
      /\ Active \subseteq Captures
  BY DEF AuditInv, ConfigAuditTypeOK, BaselineRecord, CaptureRecord, Active
<1>1. ASSUME NEW n \in CaptureRecord, capture' = [capture EXCEPT ![c] = n], UNCHANGED baselines,
             n.pc \in {"waiting", "updated", "failed"}
      PROVE  capture' \in [Captures -> CaptureRecord] /\ SingleBaseline'
  <2>1. /\ capture' \in [Captures -> CaptureRecord] /\ capture'[c] = n
        /\ \A d \in Captures : d # c => capture'[d] = capture[d]
    BY <1>0, <1>1
  <2>2. Active' = Active
    BY <1>1 DEF Active
  <2>3. \A d \in Captures : capture'[d].pc \in {"inserted", "done"} => capture'[d] = capture[d]
    BY <1>1, <2>1
  <2> QED BY <1>0, <2>1, <2>2, <2>3 DEF SingleBaseline
<1>2. CASE captureUpdate(c)
  <2> DEFINE n == [pc |-> "waiting", snapshot |-> live, matched |-> Active]
  <2>1. n \in CaptureRecord /\ n.pc = "waiting"
    BY <1>0 DEF CaptureRecord
  <2>2. capture' = [capture EXCEPT ![c] = n] /\ UNCHANGED baselines
    BY <1>2 DEF captureUpdate
  <2> HIDE DEF n
  <2> QED BY <1>0, <1>1, <2>1, <2>2
<1>a. CASE captureLock(c)
  <2> DEFINE n == [capture[c] EXCEPT !.pc = "updated", !.matched = @ \cap Active]
  <2>1. n \in CaptureRecord /\ n.pc = "updated"
    BY <1>0 DEF CaptureRecord
  <2>2. capture' = [capture EXCEPT ![c] = n] /\ UNCHANGED baselines
    BY <1>0, <1>a DEF captureLock
  <2> HIDE DEF n
  <2> QED BY <1>0, <1>1, <2>1, <2>2
<1>3. ASSUME capture' = [capture EXCEPT ![c].pc = "failed", ![c].matched = {}], UNCHANGED baselines
      PROVE  capture' \in [Captures -> CaptureRecord] /\ SingleBaseline'
  <2> DEFINE n == [capture[c] EXCEPT !.pc = "failed", !.matched = {}]
  <2>1. n \in CaptureRecord /\ n.pc = "failed"
    BY <1>0 DEF CaptureRecord
  <2>2. capture' = [capture EXCEPT ![c] = n]
    BY <1>0, <1>3
  <2> HIDE DEF n
  <2> QED BY <1>1, <1>3, <2>1, <2>2
<1>4. CASE captureInsert(c)
  <2>1. CASE single_active(c) /\ capture' = [capture EXCEPT ![c].pc = "inserted"]
    <3> DEFINE n == [capture[c] EXCEPT !.pc = "inserted"]
    <3>1. n \in CaptureRecord /\ n.pc = "inserted" /\ n.matched = capture[c].matched
      BY <1>0 DEF CaptureRecord
    <3>2. capture' = [capture EXCEPT ![c] = n] /\ UNCHANGED baselines
      BY <1>0, <1>4, <2>1 DEF captureInsert
    <3> HIDE DEF n
    <3>3. /\ capture' \in [Captures -> CaptureRecord] /\ capture'[c] = n
          /\ \A d \in Captures : d # c => capture'[d] = capture[d]
      BY <1>0, <3>1, <3>2
    <3>4. Active' = Active /\ Active \subseteq n.matched
      BY <2>1, <3>1, <3>2 DEF Active, single_active
    <3>5. \A d \in Captures : d # c => capture[d].pc # "inserted"
      BY <1>4 DEF captureInsert, Open
    <3>6. SingleBaseline'
      BY <1>0, <3>1, <3>3, <3>4, <3>5 DEF SingleBaseline
    <3> QED BY <1>0, <3>2, <3>3, <3>6
  <2> QED BY <1>0, <1>3, <1>4, <2>1 DEF captureInsert
<1>5. CASE captureCommit(c)
  <2>1. CASE /\ baselines' = [d \in Captures |->
                  IF d = c THEN [status |-> "active", snapshot |-> capture[c].snapshot]
                  ELSE IF d \in capture[c].matched
                         THEN [baselines[d] EXCEPT !.status = "superseded"]
                  ELSE baselines[d]]
             /\ capture' = [capture EXCEPT ![c].pc = "done", ![c].matched = {}]
    <3> DEFINE n == [capture[c] EXCEPT !.pc = "done", !.matched = {}]
               b == [status |-> "active", snapshot |-> capture[c].snapshot]
    <3>1. n \in CaptureRecord /\ n.pc = "done"
      BY <1>0 DEF CaptureRecord
    <3>2. capture' = [capture EXCEPT ![c] = n]
      BY <1>0, <2>1
    <3>3. b \in BaselineRecord /\ b.status = "active"
      BY <1>0 DEF CaptureRecord, BaselineRecord
    <3>4. \A d \in Captures : /\ [baselines[d] EXCEPT !.status = "superseded"] \in BaselineRecord
                              /\ [baselines[d] EXCEPT !.status = "superseded"].status = "superseded"
      BY <1>0 DEF BaselineRecord
    <3>5. baselines' = [d \in Captures |->
             IF d = c THEN b
             ELSE IF d \in capture[c].matched THEN [baselines[d] EXCEPT !.status = "superseded"]
             ELSE baselines[d]]
      BY <2>1
    <3> HIDE DEF n, b
    <3>6. /\ capture' \in [Captures -> CaptureRecord] /\ capture'[c] = n
          /\ \A d \in Captures : d # c => capture'[d] = capture[d]
      BY <1>0, <3>1, <3>2
    <3>7. baselines' \in [Captures -> BaselineRecord]
      BY <1>0, <3>3, <3>4, <3>5
    <3>8. capture[c].pc = "inserted" /\ Active \subseteq capture[c].matched
      BY <1>0, <1>5 DEF captureCommit, SingleBaseline
    <3>9. \A d \in Captures : d # c => baselines'[d].status # "active"
      <4> SUFFICES ASSUME NEW d \in Captures, d # c PROVE baselines'[d].status # "active"
        OBVIOUS
      <4>1. CASE d \in capture[c].matched
        BY <3>4, <3>5, <4>1
      <4>2. CASE d \notin capture[c].matched
        BY <3>5, <3>8, <4>2 DEF Active
      <4> QED BY <4>1, <4>2
    <3>10. baselines'[c].status = "active"
      BY <3>3, <3>5
    <3>11. Active' = {c}
      BY <3>9, <3>10 DEF Active
    <3>12. \A d \in Captures : capture'[d].pc # "inserted"
      BY <1>0, <3>1, <3>6, <3>8 DEF SingleBaseline
    <3>13. SingleBaseline'
      BY <3>11, <3>12 DEF SingleBaseline
    <3> QED BY <3>6, <3>7, <3>13
  <2> QED BY <1>0, <1>3, <1>5, <2>1 DEF captureCommit
<1> QED BY <1>2, <1>a, <1>4, <1>5 DEF CaptureStep

\* Superseded rows expire; the active one stays.
LEMMA ExpireStep ==
  ASSUME AuditInv, expireOldBaselines
  PROVE  baselines' \in [Captures -> BaselineRecord] /\ SingleBaseline'
<1>0. baselines \in [Captures -> BaselineRecord] /\ SingleBaseline
  BY DEF AuditInv, ConfigAuditTypeOK, BaselineRecord
<1>1. \A d \in Captures : /\ [baselines[d] EXCEPT !.status = "expired"] \in BaselineRecord
                          /\ [baselines[d] EXCEPT !.status = "expired"].status = "expired"
  BY <1>0 DEF BaselineRecord
<1>2. baselines' = [c \in Captures |->
       IF baselines[c].status = "superseded"
         THEN [baselines[c] EXCEPT !.status = "expired"] ELSE baselines[c]]
  BY DEF expireOldBaselines
<1>3. baselines' \in [Captures -> BaselineRecord]
  BY <1>0, <1>1, <1>2
<1>4. \A c \in Captures : baselines'[c].status = "active" <=> baselines[c].status = "active"
  BY <1>1, <1>2
<1>5. Active' = Active
  BY <1>4 DEF Active
<1>6. UNCHANGED capture
  BY DEF expireOldBaselines
<1> QED BY <1>0, <1>3, <1>5, <1>6 DEF SingleBaseline

DetectionRecord == [pc : {"idle", "loading", "alerting"}, config : Snapshots, report : Reports]
RollbackRecord ==
  [pc : {"idle", "running", "done"}, report : Reports, todo : SUBSET ConfigKeys,
   skipped : SUBSET ConfigKeys]

\* A change of the configuration may start a detection, which has no report yet.
LEMMA UpdatedStep ==
  ASSUME AuditInv, live' \in Snapshots, updated
  PROVE  detection' \in DetectionRecord /\ ReportIsDiff'
<1>0. detection \in DetectionRecord /\ ReportIsDiff
  BY DEF AuditInv, ConfigAuditTypeOK, DetectionRecord
<1> DEFINE n == [pc |-> "loading", config |-> live', report |-> NoReport]
<1>1. n.report.keys = {}
  BY DEF NoReport
<1>2. NoReport \in Reports
  BY DEF NoReport, Reports, Empty, Snapshots, LiveValues
<1>3. n \in DetectionRecord
  BY <1>2 DEF DetectionRecord
<1>4. detection' \in {detection, n}
  BY DEF updated
<1> HIDE DEF n
<1> QED BY <1>0, <1>1, <1>3, <1>4 DEF ReportIsDiff

\* Every step of the audit keeps AuditInv.
LEMMA AuditStep == AuditInv /\ [ConfigAuditNext]_configAuditVars => AuditInv'
<1> SUFFICES ASSUME AuditInv, [ConfigAuditNext]_configAuditVars PROVE AuditInv'
  OBVIOUS
<1>0. /\ ConfigAuditTypeOK /\ SingleBaseline /\ ReportIsDiff /\ RollbackFollows
      /\ live \in Snapshots /\ detection \in DetectionRecord /\ rollbackRun \in RollbackRecord
      /\ liveChanges \in 0..MaxLiveChanges /\ MaxLiveChanges \in Nat /\ disturbed \in BOOLEAN
      /\ baselines \in [Captures -> BaselineRecord] /\ capture \in [Captures -> CaptureRecord]
      /\ rollbackRun.report \in Reports /\ rollbackRun.report.baseline \in Snapshots
      /\ detection.report \in Reports
  BY ConfigAuditAssumption
     DEF AuditInv, ConfigAuditTypeOK, DetectionRecord, RollbackRecord, BaselineRecord, CaptureRecord,
         Reports
<1>a. ASSUME live' \in Snapshots, detection' \in DetectionRecord, rollbackRun' \in RollbackRecord,
             liveChanges' \in 0..MaxLiveChanges, disturbed' \in BOOLEAN,
             baselines' \in [Captures -> BaselineRecord], capture' \in [Captures -> CaptureRecord],
             alerts' \subseteq Captures \X {"sent", "failed"}
      PROVE  ConfigAuditTypeOK'
  BY <1>a DEF ConfigAuditTypeOK, DetectionRecord, RollbackRecord, BaselineRecord, CaptureRecord
<1>b. alerts \subseteq Captures \X {"sent", "failed"}
  BY <1>0 DEF ConfigAuditTypeOK
<1>1. ASSUME NEW c \in Captures, CaptureStep(c)
      PROVE  AuditInv'
  <2>1. /\ baselines' \in [Captures -> BaselineRecord] /\ capture' \in [Captures -> CaptureRecord]
        /\ SingleBaseline'
    BY <1>1, CaptureSteps
  <2>2. UNCHANGED <<live, detection, alerts, rollbackRun, disturbed, liveChanges>>
    BY <1>1 DEF CaptureStep, captureUpdate, captureLock, captureInsert, captureCommit
  <2>3. ConfigAuditTypeOK'
    BY <1>0, <1>a, <1>b, <2>1, <2>2
  <2>4. ReportIsDiff' /\ RollbackFollows'
    BY <1>0, <2>2 DEF ReportIsDiff, RollbackFollows, Restored
  <2> QED BY <2>1, <2>3, <2>4 DEF AuditInv
<1>2. CASE expireOldBaselines
  <2>1. baselines' \in [Captures -> BaselineRecord] /\ SingleBaseline'
    BY <1>2, ExpireStep
  <2>2. UNCHANGED <<live, capture, detection, alerts, rollbackRun, disturbed, liveChanges>>
    BY <1>2 DEF expireOldBaselines
  <2>3. ConfigAuditTypeOK'
    BY <1>0, <1>a, <1>b, <2>1, <2>2
  <2>4. ReportIsDiff' /\ RollbackFollows'
    BY <1>0, <2>2 DEF ReportIsDiff, RollbackFollows, Restored
  <2> QED BY <2>1, <2>3, <2>4 DEF AuditInv
<1>3. CASE changeLive
  <2>1. live' \in Snapshots
    BY <1>0, <1>3 DEF changeLive, Snapshots, LiveValues
  <2>2. /\ updated /\ disturbed' = TRUE /\ liveChanges' \in 0..MaxLiveChanges
        /\ UNCHANGED <<baselines, capture, alerts, rollbackRun>>
    BY <1>0, <1>3 DEF changeLive
  <2>3. detection' \in DetectionRecord /\ ReportIsDiff'
    BY <2>1, <2>2, UpdatedStep
  <2>4. ConfigAuditTypeOK'
    BY <1>0, <1>a, <1>b, <2>1, <2>2, <2>3
  <2>5. SingleBaseline' /\ RollbackFollows'
    BY <1>0, <2>2 DEF SingleBaseline, Active, RollbackFollows
  <2> QED BY <2>3, <2>4, <2>5 DEF AuditInv
<1>4. CASE _detectInternal
  <2>1. UNCHANGED <<live, baselines, capture, alerts, rollbackRun, disturbed, liveChanges>>
    BY <1>4 DEF _detectInternal
  <2>2. PICK c \in Active : detection' = [detection EXCEPT
            !.pc = IF deepDiff(baselines[c].snapshot, detection.config) \cap CriticalKeys # {}
                     THEN "alerting" ELSE "idle",
            !.report = [ids |-> {c}, baseline |-> baselines[c].snapshot,
                        keys |-> deepDiff(baselines[c].snapshot, detection.config)]]
    BY <1>4 DEF _detectInternal
  <2> DEFINE base == baselines[c].snapshot
             keys == deepDiff(base, detection.config)
             pc == IF keys \cap CriticalKeys # {} THEN "alerting" ELSE "idle"
             rep == [ids |-> {c}, baseline |-> base, keys |-> keys]
  <2>3. base \in Snapshots /\ keys \subseteq ConfigKeys /\ c \in Captures
    BY <1>0 DEF Active, BaselineRecord, deepDiff
  <2>4. rep \in Reports /\ rep.keys = keys /\ rep.baseline = base
    BY <2>3 DEF Reports
  <2>5. detection' = [detection EXCEPT !.pc = pc, !.report = rep] /\ pc \in {"alerting", "idle"}
    BY <2>2
  <2> HIDE DEF rep, pc
  <2>6. /\ detection' \in DetectionRecord /\ detection'.report = rep
        /\ detection'.config = detection.config
    BY <1>0, <2>4, <2>5 DEF DetectionRecord
  <2>7. ReportIsDiff'
    BY <2>4, <2>6 DEF ReportIsDiff, deepDiff
  <2>8. ConfigAuditTypeOK'
    BY <1>0, <1>a, <1>b, <2>1, <2>6
  <2>9. SingleBaseline' /\ RollbackFollows'
    BY <1>0, <2>1 DEF SingleBaseline, Active, RollbackFollows, Restored
  <2> QED BY <2>7, <2>8, <2>9 DEF AuditInv
<1>5. CASE detectSkipped
  <2>1. /\ UNCHANGED <<live, baselines, capture, alerts, rollbackRun, disturbed, liveChanges>>
        /\ detection' = [detection EXCEPT !.pc = "idle", !.report = NoReport]
    BY <1>5 DEF detectSkipped
  <2>2. NoReport \in Reports /\ NoReport.keys = {}
    BY DEF NoReport, Reports, Empty, Snapshots, LiveValues
  <2>3. detection' \in DetectionRecord /\ detection'.report = NoReport
    BY <1>0, <2>1, <2>2 DEF DetectionRecord
  <2>4. ConfigAuditTypeOK'
    BY <1>0, <1>a, <1>b, <2>1, <2>3
  <2>5. SingleBaseline' /\ RollbackFollows' /\ ReportIsDiff'
    BY <1>0, <2>1, <2>2, <2>3 DEF SingleBaseline, Active, RollbackFollows, Restored, ReportIsDiff
  <2> QED BY <2>4, <2>5 DEF AuditInv
<1>6. CASE _dispatchAsync
  <2>1. /\ UNCHANGED <<live, baselines, capture, rollbackRun, disturbed, liveChanges>>
        /\ detection' = [detection EXCEPT !.pc = "idle"]
        /\ alerts' \in {alerts} \cup {alerts \cup (detection.report.ids \X {how}) :
                              how \in {"sent", "failed"}}
    BY <1>6 DEF _dispatchAsync
  <2>2. /\ detection' \in DetectionRecord /\ detection'.report = detection.report
        /\ detection'.config = detection.config
    BY <1>0, <2>1 DEF DetectionRecord
  <2>3. alerts' \subseteq Captures \X {"sent", "failed"}
    <3>1. detection.report.ids \subseteq Captures
      BY <1>0 DEF Reports
    <3>2. \A how \in {"sent", "failed"} :
            detection.report.ids \X {how} \subseteq Captures \X {"sent", "failed"}
      BY <3>1
    <3> QED BY <1>b, <2>1, <3>2
  <2>4. ConfigAuditTypeOK'
    BY <1>0, <1>a, <2>1, <2>2, <2>3
  <2>5. SingleBaseline' /\ RollbackFollows'
    BY <1>0, <2>1 DEF SingleBaseline, Active, RollbackFollows, Restored
  <2>6. ReportIsDiff'
    BY <1>0, <2>2 DEF ReportIsDiff, deepDiff
  <2> QED BY <2>4, <2>5, <2>6 DEF AuditInv
<1>7. CASE rollbackStart
  <2>1. /\ UNCHANGED <<live, baselines, capture, detection, alerts, liveChanges>>
        /\ disturbed' = (detection.config # live) /\ detection.report.keys # {}
        /\ rollbackRun' = [pc |-> "running", report |-> detection.report,
                           todo |-> detection.report.keys, skipped |-> {}]
    BY <1>7 DEF rollbackStart
  <2>2. detection.report.keys \subseteq ConfigKeys
    BY <1>0 DEF Reports
  <2>3. /\ rollbackRun' \in RollbackRecord /\ rollbackRun'.pc = "running"
        /\ rollbackRun'.report = detection.report /\ rollbackRun'.todo = detection.report.keys
    BY <1>0, <2>1, <2>2 DEF RollbackRecord
  <2>4. disturbed' \in BOOLEAN
    BY <2>1
  <2>5. ConfigAuditTypeOK'
    BY <1>0, <1>a, <1>b, <2>1, <2>3, <2>4
  <2>6. SingleBaseline' /\ ReportIsDiff'
    BY <1>0, <2>1 DEF SingleBaseline, Active, ReportIsDiff
  <2>7. ASSUME ~disturbed', NEW k \in ConfigKeys \ rollbackRun'.todo PROVE Restored(k)'
    <3>1. detection.config = live /\ k \notin deepDiff(detection.report.baseline, detection.config)
      BY <1>0, <2>1, <2>3, <2>7 DEF ReportIsDiff
    <3>2. detection.report.baseline[k] = live[k]
      BY <3>1 DEF deepDiff
    <3> QED BY <2>1, <2>3, <3>2 DEF Restored
  <2>8. RollbackFollows'
    BY <2>3, <2>7 DEF RollbackFollows
  <2> QED BY <2>5, <2>6, <2>8 DEF AuditInv
<1>8. CASE rollbackKey
  <2>1. PICK k \in rollbackRun.todo :
          \/ /\ live' = [live EXCEPT ![k] = restoredValue(k)]
             /\ \E threw \in BOOLEAN :
                  rollbackRun' = [rollbackRun EXCEPT !.todo = @ \ {k},
                                 !.skipped = IF threw THEN @ \cup {k} ELSE @]
          \/ /\ rollbackRun' = [rollbackRun EXCEPT !.todo = @ \ {k}, !.skipped = @ \cup {k}]
             /\ UNCHANGED live
    BY <1>8 DEF rollbackKey
  <2>2. /\ rollbackRun.pc = "running" /\ updated
        /\ UNCHANGED <<baselines, capture, alerts, disturbed, liveChanges>>
    BY <1>8 DEF rollbackKey
  <2>3. k \in ConfigKeys /\ rollbackRun.skipped \subseteq ConfigKeys
    BY <1>0 DEF RollbackRecord
  <2>4. PICK s \in {rollbackRun.skipped, rollbackRun.skipped \cup {k}} :
          /\ rollbackRun' = [rollbackRun EXCEPT !.todo = rollbackRun.todo \ {k}, !.skipped = s]
          /\ \/ live' = [live EXCEPT ![k] = restoredValue(k)]
             \/ UNCHANGED live /\ s = rollbackRun.skipped \cup {k}
    BY <2>1
  <2>5. /\ rollbackRun' \in RollbackRecord /\ rollbackRun'.pc = "running"
        /\ rollbackRun'.report = rollbackRun.report /\ rollbackRun'.todo = rollbackRun.todo \ {k}
        /\ rollbackRun'.skipped = s
    BY <1>0, <2>2, <2>3, <2>4 DEF RollbackRecord
  <2>6. restoredValue(k) \in LiveValues
    BY <1>0, <2>3 DEF restoredValue, Snapshots, LiveValues
  <2>7. live' \in Snapshots
    BY <1>0, <2>4, <2>6 DEF Snapshots
  <2>8. detection' \in DetectionRecord /\ ReportIsDiff'
    BY <2>2, <2>7, UpdatedStep
  <2>9. ConfigAuditTypeOK'
    BY <1>0, <1>a, <1>b, <2>2, <2>5, <2>7, <2>8
  <2>10. SingleBaseline'
    BY <1>0, <2>2 DEF SingleBaseline, Active
  <2>11. ASSUME ~disturbed', s = {}, NEW j \in ConfigKeys \ rollbackRun'.todo PROVE Restored(j)'
    <3>1. /\ live' = [live EXCEPT ![k] = restoredValue(k)] /\ rollbackRun.skipped = {} /\ ~disturbed
      BY <2>2, <2>4, <2>11
    <3>2. CASE j = k
      <4>1. live'[j] = restoredValue(k)
        BY <1>0, <2>3, <3>1, <3>2 DEF Snapshots
      <4> QED BY <2>5, <3>2, <4>1 DEF Restored, restoredValue
    <3>3. CASE j # k
      <4>1. Restored(j) /\ live'[j] = live[j]
        BY <1>0, <2>2, <2>5, <2>11, <3>1, <3>3 DEF RollbackFollows, Snapshots
      <4> QED BY <2>5, <4>1 DEF Restored
    <3> QED BY <3>2, <3>3
  <2>12. RollbackFollows'
    BY <2>5, <2>11 DEF RollbackFollows
  <2> QED BY <2>8, <2>9, <2>10, <2>12 DEF AuditInv
<1>9. CASE rollbackComplete
  <2>1. /\ rollbackRun.pc = "running" /\ rollbackRun.todo = {}
        /\ rollbackRun' = [rollbackRun EXCEPT !.pc = "done"]
        /\ UNCHANGED <<live, baselines, capture, detection, alerts, disturbed, liveChanges>>
    BY <1>9 DEF rollbackComplete
  <2>2. /\ rollbackRun' \in RollbackRecord /\ rollbackRun'.report = rollbackRun.report
        /\ rollbackRun'.todo = {} /\ rollbackRun'.skipped = rollbackRun.skipped
    BY <1>0, <2>1 DEF RollbackRecord
  <2>3. ConfigAuditTypeOK'
    BY <1>0, <1>a, <1>b, <2>1, <2>2
  <2>4. SingleBaseline' /\ ReportIsDiff'
    BY <1>0, <2>1 DEF SingleBaseline, Active, ReportIsDiff
  <2>5. RollbackFollows'
    BY <1>0, <2>1, <2>2 DEF RollbackFollows, Restored
  <2> QED BY <2>3, <2>4, <2>5 DEF AuditInv
<1>10. CASE UNCHANGED configAuditVars
  BY <1>10 DEF configAuditVars, AuditInv, ConfigAuditTypeOK, SingleBaseline, Active, ReportIsDiff,
               RollbackFollows, Restored
<1> QED BY <1>1, <1>2, <1>3, <1>4, <1>5, <1>6, <1>7, <1>8, <1>9, <1>10
     DEF ConfigAuditNext, CaptureStep

\* AuditInv holds of every behaviour of the audit, and gives its two properties.
LEMMA AuditInvariance ==
  ConfigAuditInit /\ [][ConfigAuditNext]_configAuditVars
    => [](ConfigAuditTypeOK /\ OneActiveBaseline /\ RollbackReverts)
<1>1. ConfigAuditInit => AuditInv
  <2> SUFFICES ASSUME ConfigAuditInit PROVE AuditInv
    OBVIOUS
  <2> USE DEF ConfigAuditInit
  <2>1. Empty \in Snapshots /\ NoReport \in Reports /\ NoReport.keys = {}
    BY DEF NoReport, Reports, Empty, Snapshots, LiveValues
  <2>2. live \in Snapshots
    BY DEF Snapshots, LiveValues
  <2>3. Active = {} /\ \A c \in Captures : capture[c].pc = "idle"
    BY DEF Active
  <2>4. ConfigAuditTypeOK
    <3>1. liveChanges \in 0..MaxLiveChanges
      BY ConfigAuditAssumption
    <3>4. disturbed \in BOOLEAN /\ alerts \subseteq Captures \X {"sent", "failed"}
      OBVIOUS
    <3>2. /\ baselines \in [Captures -> BaselineRecord] /\ capture \in [Captures -> CaptureRecord]
      BY <2>1 DEF BaselineRecord, CaptureRecord
    <3>3. detection \in DetectionRecord /\ rollbackRun \in RollbackRecord
      BY <2>1 DEF DetectionRecord, RollbackRecord
    <3> QED BY <2>2, <3>1, <3>2, <3>3, <3>4
         DEF ConfigAuditTypeOK, BaselineRecord, CaptureRecord, DetectionRecord, RollbackRecord
  <2>5. SingleBaseline
    BY <2>3 DEF SingleBaseline
  <2>6. ReportIsDiff /\ RollbackFollows
    BY <2>1 DEF ReportIsDiff, RollbackFollows
  <2> QED BY <2>4, <2>5, <2>6 DEF AuditInv
<1>2. AuditInv => ConfigAuditTypeOK /\ OneActiveBaseline /\ RollbackReverts
  <2> SUFFICES ASSUME AuditInv PROVE ConfigAuditTypeOK /\ OneActiveBaseline /\ RollbackReverts
    OBVIOUS
  <2>1. Cardinality(Active) <= 1
    <3>1. CASE Active = {}
      BY <3>1, FS_EmptySet
    <3>2. CASE Active # {}
      <4>1. PICK a \in Active : Active = {a}
        BY <3>2 DEF AuditInv, SingleBaseline
      <4>2. Cardinality({a}) = 1
        BY FS_Singleton
      <4> QED BY <4>1, <4>2
    <3> QED BY <3>1, <3>2
  <2>2. OneActiveBaseline
    BY <2>1 DEF AuditInv, SingleBaseline, OneActiveBaseline
  <2>3. RollbackReverts
    BY DEF AuditInv, RollbackFollows, Restored, RollbackReverts
  <2> QED BY <2>2, <2>3 DEF AuditInv
<1> QED BY <1>1, <1>2, AuditStep, PTL
-----------------------------------------------------------------------------
(***************************************************************************)
(* The drift auditor                                                       *)
(***************************************************************************)

\* Rising, for any two members: this is what cutting a history off keeps.
Climbing(s) == \A i, j \in 1..Len(s) : i < j => s[i] < s[j]

History(s) == s \in Seq(Numbers) /\ Climbing(s) /\ \A i \in 1..Len(s) : s[i] <= snapshots

DriftInv ==
  /\ auditor \in {"new", "on", "stopped", "down"} /\ running \in BOOLEAN
  /\ runtimeConfig \in [DriftKeys -> {"committed", "edited", "absent"}]
  /\ alerting \in 0..MaxSnapshots /\ snapshots \in 0..MaxSnapshots
  /\ History(inMemory) /\ History(jsonl) /\ Len(inMemory) <= maxInMemory
  /\ \A n \in Numbers : Holds(jsonl, n) /\ ~Holds(inMemory, n) =>
       Len(inMemory) = maxInMemory /\ n < inMemory[1]
  /\ (alerting # 0 => running)
  /\ auditor = "new" => ~running

\* Cutting a history off keeps its end: what is lost is older than what stays.
LEMMA TrimmedIsTail ==
  ASSUME NEW s \in Seq(Numbers), Climbing(s)
  PROVE  /\ trimmed(s) \in Seq(Numbers) /\ Climbing(trimmed(s)) /\ Len(trimmed(s)) <= maxInMemory
         /\ \A i \in 1..Len(trimmed(s)) : \E j \in 1..Len(s) : trimmed(s)[i] = s[j]
         /\ \A j \in 1..Len(s) :
              \/ Holds(trimmed(s), s[j])
              \/ Len(trimmed(s)) = maxInMemory /\ s[j] < trimmed(s)[1]
         /\ Len(s) >= maxInMemory => Len(trimmed(s)) = maxInMemory /\ s[1] <= trimmed(s)[1]
<1>0. maxInMemory \in Nat \ {0} /\ Len(s) \in Nat /\ Numbers \subseteq Nat
  BY DriftAssumption, LenProperties DEF Numbers
<1>1. CASE Len(s) <= maxInMemory
  <2>1. trimmed(s) = s
    BY <1>0, <1>1 DEF trimmed
  <2>2. \A j \in 1..Len(s) : Holds(s, s[j])
    BY DEF Holds
  <2>3. Len(s) >= maxInMemory => Len(s) = maxInMemory /\ s[1] <= s[1]
    <3>1. Len(s) >= maxInMemory => s[1] \in Nat
      <4>1. Len(s) >= maxInMemory => 1 \in 1..Len(s)
        BY <1>0
      <4> QED BY <1>0, <4>1, ElementOfSeq
    <3> QED BY <1>0, <1>1, <3>1
  <2> QED BY <1>1, <2>1, <2>2, <2>3
<1>2. CASE Len(s) > maxInMemory
  <2> DEFINE t == trimmed(s)
             m == Len(s) - maxInMemory
  <2>1. m \in 1..Len(s) /\ m + 1 \in 1..(Len(s) + 1) /\ Len(s) \in (m + 1 - 1)..Len(s)
    BY <1>0, <1>2
  <2>2. t = SubSeq(s, m + 1, Len(s))
    BY <1>0, <1>2 DEF trimmed
  <2>3. /\ t \in Seq(Numbers) /\ Len(t) = maxInMemory
        /\ \A i \in 1..maxInMemory : t[i] = s[m + i]
    <3>1. SubSeq(s, m + 1, Len(s)) = [i \in 1..(Len(s) - (m + 1) + 1) |-> s[(m + 1) + i - 1]]
      BY <1>0 DEF SubSeq
    <3>2. Len(s) - (m + 1) + 1 = maxInMemory
      BY <1>0
    <3>3. t = [i \in 1..maxInMemory |-> s[(m + 1) + i - 1]]
      BY <2>2, <3>1, <3>2
    <3>4. \A i \in 1..maxInMemory : (m + 1) + i - 1 = m + i /\ m + i \in 1..Len(s)
      BY <1>0, <1>2
    <3>5. \A i \in 1..maxInMemory : s[(m + 1) + i - 1] = s[m + i] /\ s[m + i] \in Numbers
      BY <3>4, ElementOfSeq
    <3> HIDE DEF t, m
    <3>6. t \in [1..maxInMemory -> Numbers] /\ \A i \in 1..maxInMemory : t[i] = s[m + i]
      BY <3>3, <3>5
    <3>7. t \in Seq(Numbers) /\ Len(t) = maxInMemory
      BY <1>0, <3>6, SeqDef, LenProperties
    <3> QED BY <3>6, <3>7
  <2>4. \A i \in 1..maxInMemory : m + i \in 1..Len(s)
    BY <1>0, <1>2
  <2>5. Climbing(t)
    <3> SUFFICES ASSUME NEW i \in 1..Len(t), NEW j \in 1..Len(t), i < j PROVE t[i] < t[j]
      BY DEF Climbing
    <3>1. m + i \in 1..Len(s) /\ m + j \in 1..Len(s) /\ m + i < m + j
      BY <1>0, <2>1, <2>3, <2>4
    <3> QED BY <2>3, <3>1 DEF Climbing
  <2>6. \A i \in 1..Len(t) : \E j \in 1..Len(s) : t[i] = s[j]
    BY <2>3, <2>4
  <2>7. ASSUME NEW j \in 1..Len(s)
        PROVE  Holds(t, s[j]) \/ (Len(t) = maxInMemory /\ s[j] < t[1])
    <3>1. CASE j <= m
      <4>1. t[1] = s[m + 1] /\ m + 1 \in 1..Len(s) /\ j < m + 1
        BY <1>0, <1>2, <2>1, <2>3, <3>1
      <4>2. s[j] < s[m + 1]
        BY <4>1 DEF Climbing
      <4> QED BY <2>3, <4>1, <4>2
    <3>2. CASE j > m
      <4>1. j - m \in 1..maxInMemory /\ m + (j - m) = j
        BY <1>0, <1>2, <3>2
      <4>2. t[j - m] = s[j]
        BY <2>3, <4>1
      <4> QED BY <2>3, <4>1, <4>2 DEF Holds
    <3> QED BY <1>0, <3>1, <3>2
  <2>8. s[1] <= t[1]
    <3>1. t[1] = s[m + 1] /\ m + 1 \in 1..Len(s) /\ 1 \in 1..Len(s) /\ 1 < m + 1
      BY <1>0, <1>2, <2>1, <2>3
    <3>2. s[1] < s[m + 1] /\ s[1] \in Nat /\ s[m + 1] \in Nat
      BY <1>0, <3>1, ElementOfSeq DEF Climbing
    <3> QED BY <3>1, <3>2
  <2>9. Len(t) <= maxInMemory
    BY <1>0, <2>3
  <2> QED BY <2>3, <2>5, <2>6, <2>7, <2>8, <2>9
<1> QED BY <1>0, <1>1, <1>2

\* A new snapshot at the end of a history.
LEMMA AppendedClimbs ==
  ASSUME NEW s \in Seq(Numbers), History(s), snapshots \in Nat, snapshots' = snapshots + 1,
         snapshots' \in Numbers
  PROVE  /\ Append(s, snapshots') \in Seq(Numbers) /\ Climbing(Append(s, snapshots'))
         /\ \A i \in 1..Len(Append(s, snapshots')) : Append(s, snapshots')[i] <= snapshots'
         /\ Len(Append(s, snapshots')) = Len(s) + 1
         /\ \A i \in 1..Len(s) : Append(s, snapshots')[i] = s[i]
         /\ Append(s, snapshots')[Len(s) + 1] = snapshots'
<1> DEFINE t == Append(s, snapshots')
<1>1. /\ t \in Seq(Numbers) /\ Len(t) = Len(s) + 1 /\ Len(s) \in Nat
      /\ \A i \in 1..Len(s) : t[i] = s[i]
      /\ t[Len(s) + 1] = snapshots'
  BY AppendProperties, LenProperties
<1>2. \A i \in 1..Len(s) : s[i] \in Nat /\ s[i] <= snapshots
  BY ElementOfSeq, DriftAssumption DEF History, Numbers
<1> HIDE DEF t
<1>3. Climbing(t)
  <2> SUFFICES ASSUME NEW i \in 1..Len(t), NEW j \in 1..Len(t), i < j PROVE t[i] < t[j]
    BY DEF Climbing
  <2>1. i \in 1..Len(s)
    BY <1>1
  <2>2. CASE j \in 1..Len(s)
    BY <1>1, <2>1, <2>2 DEF History, Climbing
  <2>3. CASE j = Len(s) + 1
    <3>1. t[i] = s[i] /\ t[j] = snapshots + 1
      BY <1>1, <2>1, <2>3
    <3> QED BY <1>2, <2>1, <3>1
  <2> QED BY <1>1, <2>2, <2>3
<1>4. \A i \in 1..Len(t) : t[i] <= snapshots'
  <2> SUFFICES ASSUME NEW i \in 1..Len(t) PROVE t[i] <= snapshots'
    OBVIOUS
  <2>1. CASE i \in 1..Len(s)
    <3>1. t[i] = s[i]
      BY <1>1, <2>1
    <3> QED BY <1>2, <2>1, <3>1
  <2>2. CASE i = Len(s) + 1
    BY <1>1, <2>2
  <2> QED BY <1>1, <2>1, <2>2
<1> QED BY <1>1, <1>3, <1>4 DEF t

\* A run of the auditor: memory keeps the end of what it held and the new snapshot;
\* the file gets it too, or not.
LEMMA RunOnceHistory ==
  ASSUME DriftInv, snapshots < MaxSnapshots, snapshots' = snapshots + 1,
         inMemory' = trimmed(Append(inMemory, snapshots')),
         jsonl' \in {jsonl, Append(jsonl, snapshots')}
  PROVE  /\ snapshots' \in 0..MaxSnapshots
         /\ History(inMemory)' /\ History(jsonl)' /\ Len(inMemory') <= maxInMemory
         /\ \A n \in Numbers : Holds(jsonl', n) /\ ~Holds(inMemory', n) =>
              Len(inMemory') = maxInMemory /\ n < inMemory'[1]
<1>0. /\ snapshots \in Nat /\ snapshots' \in Numbers /\ snapshots' \in 0..MaxSnapshots
      /\ Numbers \subseteq Nat
      /\ inMemory \in Seq(Numbers) /\ jsonl \in Seq(Numbers) /\ History(inMemory) /\ History(jsonl)
      /\ Len(inMemory) \in Nat /\ Len(jsonl) \in Nat /\ maxInMemory \in Nat \ {0}
  BY DriftAssumption, LenProperties DEF DriftInv, Numbers, History
<1> DEFINE s == Append(inMemory, snapshots')
           f == Append(jsonl, snapshots')
<1>1. /\ s \in Seq(Numbers) /\ Climbing(s) /\ \A i \in 1..Len(s) : s[i] <= snapshots'
      /\ Len(s) = Len(inMemory) + 1 /\ \A i \in 1..Len(inMemory) : s[i] = inMemory[i]
      /\ s[Len(inMemory) + 1] = snapshots'
  BY <1>0, AppendedClimbs
<1>2. /\ f \in Seq(Numbers) /\ Climbing(f) /\ \A i \in 1..Len(f) : f[i] <= snapshots'
      /\ Len(f) = Len(jsonl) + 1 /\ \A i \in 1..Len(jsonl) : f[i] = jsonl[i]
      /\ f[Len(jsonl) + 1] = snapshots'
  BY <1>0, AppendedClimbs
<1> HIDE DEF s, f
<1>3. /\ inMemory' \in Seq(Numbers) /\ Climbing(inMemory') /\ Len(inMemory') <= maxInMemory
      /\ \A i \in 1..Len(inMemory') : \E j \in 1..Len(s) : inMemory'[i] = s[j]
      /\ \A j \in 1..Len(s) :
           \/ Holds(inMemory', s[j])
           \/ Len(inMemory') = maxInMemory /\ s[j] < inMemory'[1]
      /\ Len(s) >= maxInMemory => Len(inMemory') = maxInMemory /\ s[1] <= inMemory'[1]
  <2>1. inMemory' = trimmed(s)
    BY DEF s
  <2>2. /\ trimmed(s) \in Seq(Numbers) /\ Climbing(trimmed(s)) /\ Len(trimmed(s)) <= maxInMemory
        /\ \A i \in 1..Len(trimmed(s)) : \E j \in 1..Len(s) : trimmed(s)[i] = s[j]
        /\ \A j \in 1..Len(s) :
             \/ Holds(trimmed(s), s[j])
             \/ Len(trimmed(s)) = maxInMemory /\ s[j] < trimmed(s)[1]
        /\ Len(s) >= maxInMemory => Len(trimmed(s)) = maxInMemory /\ s[1] <= trimmed(s)[1]
    BY <1>1, TrimmedIsTail
  <2> QED BY <2>1, <2>2
<1>4. History(inMemory)'
  <2>1. \A i \in 1..Len(inMemory') : inMemory'[i] <= snapshots'
    BY <1>1, <1>3
  <2> QED BY <1>3, <2>1 DEF History, Climbing, Numbers
<1>5. History(jsonl)'
  <2>1. CASE jsonl' = jsonl
    <3>1. \A i \in 1..Len(jsonl) : jsonl[i] \in Nat /\ jsonl[i] <= snapshots
      BY <1>0, ElementOfSeq DEF History
    <3>2. \A i \in 1..Len(jsonl) : jsonl[i] <= snapshots'
      BY <1>0, <3>1
    <3> QED BY <1>0, <2>1, <3>2 DEF History, Climbing, Numbers
  <2>2. CASE jsonl' = f
    BY <1>2, <2>2 DEF History, Climbing, Numbers
  <2> QED BY <2>1, <2>2 DEF f
<1>6. ASSUME NEW n \in Numbers, Holds(jsonl', n), ~Holds(inMemory', n)
      PROVE  Len(inMemory') = maxInMemory /\ n < inMemory'[1]
  <2>1. CASE \E j \in 1..Len(s) : s[j] = n
    BY <1>3, <1>6, <2>1
  <2>2. CASE ~ \E j \in 1..Len(s) : s[j] = n
    <3>1. n # snapshots' /\ ~Holds(inMemory, n)
      BY <1>0, <1>1, <2>2 DEF Holds
    <3>2. Holds(jsonl, n)
      <4>1. CASE jsonl' = jsonl
        BY <1>6, <4>1
      <4>2. CASE jsonl' = f
        BY <1>0, <1>2, <1>6, <3>1, <4>2 DEF Holds
      <4> QED BY <4>1, <4>2 DEF f
    <3>3. Len(inMemory) = maxInMemory /\ n < inMemory[1]
      BY <3>1, <3>2 DEF DriftInv
    <3>4. Len(s) >= maxInMemory /\ s[1] = inMemory[1]
      BY <1>0, <1>1, <3>3
    <3>5. Len(inMemory') = maxInMemory /\ s[1] <= inMemory'[1]
      BY <1>3, <3>4
    <3>6. n \in Nat /\ s[1] \in Nat /\ inMemory'[1] \in Nat
      <4>1. 1 \in 1..Len(s) /\ 1 \in 1..Len(inMemory')
        BY <1>0, <1>1, <3>3, <3>5
      <4>2. s[1] \in Numbers /\ inMemory'[1] \in Numbers
        BY <1>1, <1>3, <4>1, ElementOfSeq
      <4> QED BY <1>0, <4>2
    <3> QED BY <3>3, <3>4, <3>5, <3>6
  <2> QED BY <2>1, <2>2
<1> QED BY <1>0, <1>3, <1>4, <1>5, <1>6

\* Every step of the auditor keeps DriftInv.
LEMMA DriftStep == DriftInv /\ [DriftNext]_driftVars => DriftInv'
<1> SUFFICES ASSUME DriftInv, [DriftNext]_driftVars PROVE DriftInv'
  OBVIOUS
<1>a. ASSUME UNCHANGED <<snapshots, inMemory, jsonl>>
      PROVE  /\ snapshots' \in 0..MaxSnapshots
             /\ History(inMemory)' /\ History(jsonl)' /\ Len(inMemory') <= maxInMemory
             /\ \A n \in Numbers : Holds(jsonl', n) /\ ~Holds(inMemory', n) =>
                  Len(inMemory') = maxInMemory /\ n < inMemory'[1]
  BY <1>a DEF DriftInv, History, Climbing, Numbers
<1>b. ASSUME auditor \in {"new", "on"}, ~running, auditor' = "on", runOnce, UNCHANGED runtimeConfig
      PROVE  DriftInv'
  <2>1. /\ snapshots' \in 0..MaxSnapshots
        /\ History(inMemory)' /\ History(jsonl)' /\ Len(inMemory') <= maxInMemory
        /\ \A n \in Numbers : Holds(jsonl', n) /\ ~Holds(inMemory', n) =>
             Len(inMemory') = maxInMemory /\ n < inMemory'[1]
    BY <1>b, RunOnceHistory DEF runOnce
  <2>2. alerting = 0
    BY <1>b, DriftAssumption DEF DriftInv, Numbers
  <2>3. snapshots' \in Numbers
    BY <1>b, DriftAssumption DEF DriftInv, Numbers, runOnce
  <2>4. /\ running' \in BOOLEAN /\ alerting' \in 0..MaxSnapshots
        /\ (alerting' # 0 => running')
    <3>1. CASE UNCHANGED <<running, alerting>>
      BY <2>2, <3>1 DEF DriftInv
    <3>2. CASE /\ running' = critical
               /\ alerting' = (IF critical THEN snapshots' ELSE 0)
      <4>1. CASE critical
        <5>1. running' = TRUE /\ alerting' = snapshots'
          BY <2>2, <3>2, <4>1
        <5> QED BY <2>1, <2>3, <5>1
      <4>2. CASE ~critical
        <5>1. running' = FALSE /\ alerting' = 0
          BY <2>2, <3>2, <4>2 DEF critical
        <5>2. 0 \in 0..MaxSnapshots
          BY DriftAssumption
        <5> QED BY <5>1, <5>2
      <4> QED BY <4>1, <4>2
    <3> QED BY <1>b, <3>1, <3>2 DEF runOnce
  <2> QED BY <1>b, <2>1, <2>4 DEF DriftInv, Numbers
<1>1. CASE LiveConfigChanges
  <2>1. runtimeConfig' \in [DriftKeys -> {"committed", "edited", "absent"}]
    BY <1>1 DEF LiveConfigChanges, DriftInv
  <2>2. UNCHANGED <<auditor, running, alerting, snapshots, inMemory, jsonl>>
    BY <1>1 DEF LiveConfigChanges
  <2> QED BY <1>a, <2>1, <2>2 DEF DriftInv, Numbers
<1>2. CASE init
  <2>1. auditor = "new" /\ ~running /\ UNCHANGED runtimeConfig
    BY <1>2 DEF init, DriftInv
  <2>2. CASE auditor' = "on" /\ runOnce
    BY <1>b, <2>1, <2>2
  <2>3. CASE auditor' = "down" /\ UNCHANGED <<running, alerting, snapshots, inMemory, jsonl>>
    BY <1>a, <2>1, <2>3 DEF DriftInv, Numbers
  <2> QED BY <1>2, <2>2, <2>3 DEF init
<1>3. CASE Timer
  BY <1>b, <1>3 DEF Timer
<1>4. CASE triggerAlert
  <2>1. /\ alerting' = 0 /\ running' = FALSE
        /\ UNCHANGED <<auditor, runtimeConfig, snapshots, inMemory, jsonl>>
    BY <1>4 DEF triggerAlert
  <2>2. 0 \in 0..MaxSnapshots
    BY <2>1, DriftAssumption DEF DriftInv
  <2> QED BY <1>a, <2>1, <2>2 DEF DriftInv, Numbers
<1>5. CASE stopAuditor
  BY <1>5, <1>a DEF stopAuditor, DriftInv, Numbers
<1>6. CASE RestartAuditor
  <2>1. /\ auditor' = "new" /\ running' = FALSE /\ alerting' = 0
        /\ inMemory' = trimmed(jsonl) /\ UNCHANGED <<runtimeConfig, snapshots, jsonl>>
    BY <1>6 DEF RestartAuditor
  <2>2. 0 \in 0..MaxSnapshots
    BY <2>1, DriftAssumption DEF DriftInv
  <2>3. jsonl \in Seq(Numbers) /\ Climbing(jsonl) /\ \A i \in 1..Len(jsonl) : jsonl[i] <= snapshots
    BY DEF DriftInv, History
  <2>4. /\ inMemory' \in Seq(Numbers) /\ Climbing(inMemory') /\ Len(inMemory') <= maxInMemory
        /\ \A i \in 1..Len(inMemory') : \E j \in 1..Len(jsonl) : inMemory'[i] = jsonl[j]
        /\ \A j \in 1..Len(jsonl) :
             \/ Holds(inMemory', jsonl[j])
             \/ Len(inMemory') = maxInMemory /\ jsonl[j] < inMemory'[1]
    BY <2>1, <2>3, TrimmedIsTail
  <2>5. \A i \in 1..Len(inMemory') : inMemory'[i] <= snapshots'
    BY <2>1, <2>3, <2>4
  <2>6. History(inMemory)' /\ History(jsonl)'
    BY <2>1, <2>3, <2>4, <2>5 DEF History, Climbing, Numbers
  <2>7. \A n \in Numbers : Holds(jsonl', n) /\ ~Holds(inMemory', n) =>
          Len(inMemory') = maxInMemory /\ n < inMemory'[1]
    <3> SUFFICES ASSUME NEW n \in Numbers, Holds(jsonl, n), ~Holds(inMemory', n)
                 PROVE  Len(inMemory') = maxInMemory /\ n < inMemory'[1]
      BY <2>1
    <3>1. PICK j \in 1..Len(jsonl) : jsonl[j] = n
      BY DEF Holds
    <3> QED BY <2>4, <3>1
  <2> QED BY <2>1, <2>2, <2>4, <2>6, <2>7 DEF DriftInv, Numbers
<1>7. CASE UNCHANGED driftVars
  BY <1>7, <1>a DEF driftVars, DriftInv, Numbers
<1> QED BY <1>1, <1>2, <1>3, <1>4, <1>5, <1>6, <1>7 DEF DriftNext

\* DriftInv holds of every behaviour of the auditor, and gives its property.
LEMMA DriftInvariance ==
  DriftInit /\ [][DriftNext]_driftVars => [](DriftTypeOK /\ HistoryIsTail)
<1>1. DriftInit => DriftInv
  <2> SUFFICES ASSUME DriftInit PROVE DriftInv
    OBVIOUS
  <2>1. /\ <<>> \in Seq(Numbers) /\ Len(<<>>) = 0
    BY EmptySeq
  <2>2. History(inMemory) /\ History(jsonl) /\ Len(inMemory) <= maxInMemory
    BY <2>1, DriftAssumption DEF DriftInit, History, Climbing
  <2>3. \A n \in Numbers : ~Holds(jsonl, n)
    BY <2>1 DEF DriftInit, Holds
  <2>4. runtimeConfig \in [DriftKeys -> {"committed", "edited", "absent"}]
    BY DEF DriftInit, baseline
  <2>5. alerting \in 0..MaxSnapshots /\ snapshots \in 0..MaxSnapshots
    BY DriftAssumption DEF DriftInit
  <2> QED BY <2>2, <2>3, <2>4, <2>5 DEF DriftInit, DriftInv
<1>2. DriftInv => DriftTypeOK /\ HistoryIsTail
  <2> SUFFICES ASSUME DriftInv PROVE DriftTypeOK /\ HistoryIsTail
    OBVIOUS
  <2>1. ASSUME NEW s \in {inMemory, jsonl}
        PROVE  Rising(s) /\ \A i \in 1..Len(s) : s[i] \in Numbers
    <3>1. s \in Seq(Numbers) /\ Climbing(s) /\ Len(s) \in Nat
      BY LenProperties DEF DriftInv, History
    <3>2. \A i \in 1..(Len(s) - 1) : i \in 1..Len(s) /\ i + 1 \in 1..Len(s) /\ i < i + 1
      BY <3>1
    <3>3. Rising(s)
      BY <3>1, <3>2 DEF Rising, Climbing
    <3> QED BY <3>1, <3>3, ElementOfSeq
  <2>2. DriftTypeOK
    BY <2>1 DEF DriftInv, DriftTypeOK
  <2>3. HistoryIsTail
    BY <2>1 DEF DriftInv, HistoryIsTail
  <2> QED BY <2>2, <2>3
<1> QED BY <1>1, <1>2, DriftStep, PTL

\* Whatever captures overlap there is never a second active baseline, nor none once
\* one was captured; an undisturbed rollback restores its report's baseline; and
\* across failed appends and restarts the drift history has no hole its file could
\* fill.
THEOREM BaselineIsSafe == Spec => []BaselineSafe
<1>1. Init => ConfigAuditInit /\ DriftInit
  BY DEF Init
<1>2. [Next]_vars => [ConfigAuditNext]_configAuditVars
  BY DEF Next, vars, workers
<1>3. [Next]_vars => [DriftNext]_driftVars
  BY DEF Next, vars, ingress
<1>4. (ConfigAuditTypeOK /\ OneActiveBaseline /\ RollbackReverts) /\ (DriftTypeOK /\ HistoryIsTail)
        => BaselineSafe
  BY DEF BaselineSafe
<1> QED BY <1>1, <1>2, <1>3, <1>4, AuditInvariance, DriftInvariance, PTL DEF Spec
-----------------------------------------------------------------------------
(***************************************************************************)
(* Load shedding                                                           *)
(***************************************************************************)

\* ShedFollowsLevel is inductive: a flag that is not listed has its configured status
\* also under load, and the next change of level leaves it alone.
SheddingInv == SheddingTypeOK /\ ShedFollowsLevel

\* What the configuration says of a flag is a status.
LEMMA ConfiguredType == ASSUME NEW o, NEW f PROVE configured(o, f) \in Status
BY DEF configured, Status, defaultStatus

\* Every step of the shedder keeps SheddingInv.
LEMMA SheddingStep == SheddingInv /\ [SheddingNext]_sheddingVars => SheddingInv'
<1> SUFFICES ASSUME SheddingInv, [SheddingNext]_sheddingVars PROVE SheddingInv'
  OBVIOUS
<1>0. /\ SheddingTypeOK /\ ShedFollowsLevel
      /\ MaxTicks \in Nat /\ MaxChanges \in Nat
  BY SheddingAssumption DEF SheddingInv
<1>1. CASE evaluate
  <2>1. PICK l \in Levels \ {level} :
          /\ lastElevatedAt' = IF l # "none" THEN shedderClock ELSE lastElevatedAt
          /\ level' = l /\ cache' = applyShedding(l)
    BY <1>1 DEF evaluate
  <2>2. rewritten' = FALSE /\ UNCHANGED <<shedderClock, flagsToShed, overrides, initialized, changes>>
    BY <1>1 DEF evaluate
  <2>3. /\ cache' \in [Flags -> Status]
        /\ \A f \in Flags : cache'[f] = IF flagsToShed[f] = "unlisted" THEN cache[f]
                                        ELSE IF l # "none" THEN flagsToShed[f]
                                        ELSE configured(overrides, f)
    <3>1. /\ cache \in [Flags -> Status]
          /\ \A f \in Flags : flagsToShed[f] # "unlisted" => flagsToShed[f] \in Status
      BY <1>0 DEF Status, ShedStatus, SheddingTypeOK
    <3> QED BY <2>1, <3>1, ConfiguredType DEF applyShedding
  <2>4. SheddingTypeOK'
    BY <1>0, <2>1, <2>2, <2>3 DEF SheddingTypeOK
  <2>5. \A f \in Flags : flagsToShed[f] = "unlisted" => cache[f] = configured(overrides, f)
    BY <1>0 DEF ShedFollowsLevel
  <2>6. ShedFollowsLevel'
    BY <2>1, <2>2, <2>3, <2>5 DEF ShedFollowsLevel, configured
  <2> QED BY <2>4, <2>6 DEF SheddingInv
<1>2. CASE SheddingTick
  <2>1. /\ shedderClock' \in 0..MaxTicks
        /\ UNCHANGED <<level, lastElevatedAt, flagsToShed, overrides, cache, initialized,
                       changes, rewritten>>
    BY <1>0, <1>2 DEF SheddingTick, SheddingTypeOK
  <2> QED BY <1>0, <2>1
       DEF SheddingInv, SheddingTypeOK, ShedFollowsLevel, configured
<1>3. CASE ConfigChange
  <2>1. PICK o \in [Flags -> {"unset", "disabled"}], s \in [Flags -> ShedStatus] :
          overrides' = o /\ flagsToShed' = s /\ cache' = [f \in Flags |-> configured(o, f)]
    BY <1>3 DEF ConfigChange
  <2>2. /\ changes' \in 0..MaxChanges /\ rewritten' = TRUE
        /\ UNCHANGED <<level, lastElevatedAt, shedderClock, initialized>>
    BY <1>0, <1>3 DEF ConfigChange, SheddingTypeOK
  <2>3. cache' \in [Flags -> Status]
    BY <2>1, ConfiguredType
  <2>4. SheddingTypeOK'
    <3>1. overrides' \in [Flags -> Status \cup {"unset"}]
      BY <2>1 DEF Status
    <3> QED BY <1>0, <2>1, <2>2, <2>3, <3>1 DEF SheddingTypeOK
  <2>5. ShedFollowsLevel'
    BY <2>1, <2>2 DEF ShedFollowsLevel, configured
  <2> QED BY <2>4, <2>5 DEF SheddingInv
<1>4. CASE stopCapacityShedder
  <2>1. /\ initialized' = FALSE /\ level' = "none" /\ rewritten' = TRUE
        /\ UNCHANGED <<lastElevatedAt, shedderClock, flagsToShed, overrides, cache, changes>>
    BY <1>4 DEF stopCapacityShedder
  <2> QED BY <1>0, <2>1
       DEF SheddingInv, SheddingTypeOK, ShedFollowsLevel, configured, Levels
<1>5. CASE initCapacityShedder
  <2>1. /\ initialized' = TRUE
        /\ UNCHANGED <<level, lastElevatedAt, shedderClock, flagsToShed, overrides, cache,
                       changes, rewritten>>
    BY <1>5 DEF initCapacityShedder
  <2> QED BY <1>0, <2>1
       DEF SheddingInv, SheddingTypeOK, ShedFollowsLevel, configured
<1>6. CASE UNCHANGED sheddingVars
  BY <1>6 DEF sheddingVars, SheddingInv, SheddingTypeOK, ShedFollowsLevel,
              configured
<1> QED BY <1>1, <1>2, <1>3, <1>4, <1>5, <1>6 DEF SheddingNext

\* SheddingInv holds of every behaviour of the shedder.
LEMMA SheddingInvariance ==
  SheddingInit /\ [][SheddingNext]_sheddingVars => [](SheddingTypeOK /\ ShedFollowsLevel)
<1>1. SheddingInit => SheddingInv
  <2> SUFFICES ASSUME SheddingInit PROVE SheddingInv
    OBVIOUS
  <2>1. cache = [f \in Flags |-> configured(overrides, f)] /\ cache \in [Flags -> Status]
    BY ConfiguredType DEF SheddingInit
  <2>2. overrides \in [Flags -> Status \cup {"unset"}]
    BY DEF SheddingInit, Status
  <2>3. lastElevatedAt \in 0..MaxTicks /\ shedderClock \in 0..MaxTicks /\ changes \in 0..MaxChanges
    BY SheddingAssumption DEF SheddingInit
  <2>4. SheddingTypeOK
    BY <2>1, <2>2, <2>3 DEF SheddingInit, SheddingTypeOK, Levels
  <2>5. ShedFollowsLevel
    BY <2>1 DEF SheddingInit, ShedFollowsLevel
  <2> QED BY <2>4, <2>5 DEF SheddingInv
<1>2. SheddingInv => SheddingTypeOK /\ ShedFollowsLevel
  BY DEF SheddingInv
<1> QED BY <1>1, <1>2, SheddingStep, PTL
-----------------------------------------------------------------------------
(***************************************************************************)
(* The rate limiter                                                        *)
(***************************************************************************)

RequestRecord ==
  [pc : {"idle", "waiting", "admitted", "refused", "error"}, now : 0..MaxNow, retry : Nat]

Answered == {r \in Requests : request[r].pc \in {"admitted", "refused"}}
Since(a) == {r \in Admitted : request[r].now >= a}

\* The refill never lies after the last touch.  When Redis has dropped a bucket that
\* was used, all who wait read the clock after it would have been full again.
Times ==
  /\ bucket.last <= touched /\ touched <= clock
  /\ \A r \in Requests : request[r].now <= clock
  /\ \A r \in Answered : request[r].now <= touched
  /\ bucket.last = -1 => bucket.tokens = burstCapacity
  /\ bucket.last = -1 /\ Answered # {} =>
       /\ clock >= touched + burstCapacity
       /\ \A r \in Requests : request[r].pc = "waiting" => request[r].now >= touched + burstCapacity

\* The tick up to which the bucket has been refilled.
RefilledTo == IF bucket.last = -1 THEN touched + burstCapacity ELSE bucket.last

\* The tokens in the bucket and those taken since any tick come from a full bucket,
\* the refill since that tick, and what was credited twice.
FitsSince ==
  \A a \in 0..MaxNow : Since(a) # {} =>
    Cardinality(Since(a)) * Token + bucket.tokens <= (burstCapacity + (RefilledTo - a)) + rewound

FitsWithin ==
  \A a, b \in 0..MaxNow : a <= b =>
    Cardinality(AdmittedIn(a, b)) * Token <= (burstCapacity + (b - a)) + rewound

\* A refused request that nobody overtook still knows the bucket.
RetryHolds ==
  rewound = 0 => \A r \in Requests : request[r].pc = "refused" =>
    /\ bucket.last = -1 \/ request[r].now <= bucket.last
    /\ request[r].now = bucket.last =>
         bucket.tokens < Token /\ bucket.tokens + request[r].retry * Second >= Token

RateInv == RateTypeOK /\ Times /\ FitsSince /\ FitsWithin /\ RetryHolds

\* Division rounds down.
LEMMA Division ==
  ASSUME NEW x \in Nat, NEW b \in Nat \ {0}
  PROVE  x \div b \in Nat /\ (x \div b) * b <= x /\ x < (x \div b) * b + b
OBVIOUS

\* Products of counts and tokens.
LEMMA CountedTokens ==
  ASSUME NEW m \in Nat, NEW n \in Nat
  PROVE  /\ m * n \in Nat /\ (m + 1) * n = m * n + n
         /\ \A k \in Nat : k <= m => k * n <= m * n
         /\ n # 0 => m <= m * n
<1>1. m * n \in Nat /\ (m + 1) * n = m * n + n
  OBVIOUS
<1>2. ASSUME NEW k \in Nat, k <= m PROVE k * n <= m * n
  BY <1>2
<1>3. n # 0 => m <= m * n
  OBVIOUS
<1> QED BY <1>1, <1>2, <1>3

\* The types of a bucket and the constants.
LEMMA RateTypes ==
  ASSUME RateTypeOK
  PROVE  /\ clock \in Nat /\ touched \in Nat /\ rewound \in Nat /\ clock <= MaxNow
         /\ bucket.tokens \in Nat /\ bucket.tokens <= burstCapacity /\ bucket.last \in Int
         /\ bucket.last >= -1 /\ bucket.last <= MaxNow
         /\ Token \in Nat \ {0} /\ Second \in Nat \ {0} /\ burstCapacity \in Nat \ {0}
         /\ entryTtl \in Nat /\ MaxNow \in Nat /\ entryTtl >= burstCapacity /\ burstCapacity >= Token
         /\ request \in [Requests -> RequestRecord]
         /\ \A r \in Requests : request[r] \in RequestRecord /\ request[r].now \in Nat
                                /\ request[r].now <= MaxNow /\ request[r].retry \in Nat
<1>1. /\ Token \in Nat \ {0} /\ Second \in Nat \ {0} /\ burstCapacity \in Nat \ {0}
      /\ entryTtl \in Nat /\ MaxNow \in Nat /\ entryTtl >= burstCapacity /\ burstCapacity >= Token
  BY RateAssumption
<1>2. bucket.tokens \in 0..burstCapacity /\ bucket.last \in -1..MaxNow
  BY DEF RateTypeOK
<1>3. request \in [Requests -> RequestRecord]
  BY DEF RateTypeOK, RequestRecord
<1>4. \A r \in Requests : request[r] \in RequestRecord /\ request[r].now \in 0..MaxNow
                          /\ request[r].retry \in Nat
  BY <1>3 DEF RequestRecord
<1>5. clock \in 0..MaxNow /\ touched \in 0..MaxNow /\ rewound \in Nat
  BY DEF RateTypeOK
<1> QED BY <1>1, <1>2, <1>3, <1>4, <1>5

\* Waiting Retry-After seconds refills what is missing for a token.
LEMMA RetryRefills ==
  ASSUME RateTypeOK, NEW t \in Nat, t < Token
  PROVE  retryAfter(t) \in Nat /\ t + retryAfter(t) * Second >= Token
<1>0. Token \in Nat \ {0} /\ Second \in Nat \ {0} /\ Token - t \in Nat
  BY RateTypes
<1>1. CASE store = "memory"
  <2> DEFINE x == ((Token - t) + Second) - 1
             q == x \div Second
  <2>1. x \in Nat /\ x = (Token - t) + (Second - 1)
    BY <1>0
  <2>2. q \in Nat /\ q * Second <= x /\ x < q * Second + Second
    BY <1>0, <2>1, Division
  <2>3. ceilDiv(Token - t, Second) = q
    BY <1>0 DEF ceilDiv
  <2> HIDE DEF q
  <2>4. q * Second >= Token - t /\ q * Second \in Nat
    BY <1>0, <2>1, <2>2, CountedTokens
  <2>5. q # 0
    BY <1>0, <2>4
  <2>6. retryAfter(t) = q
    BY <1>1, <2>2, <2>3, <2>5 DEF retryAfter, AtLeastOne
  <2> QED BY <1>0, <2>2, <2>4, <2>6
<1>2. CASE store # "memory"
  <2>1. retryAfter(t) = Token - t
    BY <1>0, <1>2 DEF retryAfter, AtLeastOne
  <2>2. (Token - t) * Second >= Token - t /\ (Token - t) * Second \in Nat
    BY <1>0, CountedTokens
  <2> QED BY <1>0, <2>1, <2>2
<1> QED BY <1>1, <1>2

\* A request reaches the bucket: what the refill adds is paid for by the time that
\* has passed, or by the ticks the refill is moved back.
LEMMA ConsumeEffect ==
  ASSUME RateInv, NEW now \in Nat, now <= clock, consume(now), UNCHANGED clock,
         bucket.last = -1 /\ Answered # {} => now >= touched + burstCapacity
  PROVE  /\ bucket' \in [tokens : 0..burstCapacity, last : -1..MaxNow] /\ bucket'.last = now
         /\ touched' = clock /\ rewound' \in Nat /\ rewound' >= rewound
         /\ refilled(now) \in 0..burstCapacity
         /\ bucket'.tokens = IF refilled(now) >= Token THEN refilled(now) - Token ELSE refilled(now)
         /\ \A a \in 0..MaxNow : Since(a) # {} =>
              Cardinality(Since(a)) * Token + refilled(now) <= (burstCapacity + (now - a)) + rewound'
         /\ rewound' = 0 => /\ rewound = 0 /\ now >= bucket.last
                            /\ now = bucket.last => refilled(now) = bucket.tokens
                            /\ \A r \in Requests : request[r].pc = "refused" =>
                                 request[r].now <= now /\ (request[r].now = now => bucket.last = now)
<1>0. /\ clock \in Nat /\ touched \in Nat /\ rewound \in Nat /\ clock <= MaxNow
      /\ bucket.tokens \in Nat /\ bucket.tokens <= burstCapacity /\ bucket.last \in Int
      /\ bucket.last >= -1 /\ bucket.last <= MaxNow /\ MaxNow \in Nat
      /\ Token \in Nat \ {0} /\ burstCapacity \in Nat \ {0}
      /\ RateTypeOK /\ Times /\ FitsSince /\ RetryHolds
  BY RateTypes DEF RateInv
<1>1. /\ bucket' = taken(now) /\ touched' = clock
      /\ rewound' = IF now < bucket.last THEN rewound + (bucket.last - now) ELSE rewound
  BY DEF consume
<1> DEFINE f == refilled(now)
           e == elapsed(now)
<1>2. e \in Nat /\ (bucket.last = -1 \/ now < bucket.last => e = 0)
                /\ (~(bucket.last = -1 \/ now < bucket.last) => e = now - bucket.last)
  BY <1>0 DEF elapsed
<1>3. /\ f \in 0..burstCapacity /\ f <= bucket.tokens + e
      /\ e = 0 => f = bucket.tokens
  BY <1>0, <1>2 DEF refilled
<1>4. /\ bucket'.tokens = (IF f >= Token THEN f - Token ELSE f) /\ bucket'.last = now
      /\ bucket' \in [tokens : 0..burstCapacity, last : -1..MaxNow]
  <2>1. taken(now) = [tokens |-> IF f >= Token THEN f - Token ELSE f, last |-> now]
    BY DEF taken
  <2>2. (IF f >= Token THEN f - Token ELSE f) \in 0..burstCapacity /\ now \in -1..MaxNow
    BY <1>0, <1>3
  <2> HIDE DEF f
  <2> QED BY <1>1, <2>1, <2>2
<1> HIDE DEF f, e
<1>5. rewound' \in Nat /\ rewound' >= rewound
  BY <1>0, <1>1
<1>6. ASSUME NEW a \in 0..MaxNow, Since(a) # {}
      PROVE  Cardinality(Since(a)) * Token + f <= (burstCapacity + (now - a)) + rewound'
  <2> DEFINE c == Cardinality(Since(a)) * Token
  <2>1. c + bucket.tokens <= (burstCapacity + (RefilledTo - a)) + rewound
    BY <1>0, <1>6 DEF FitsSince
  <2>2. c \in Nat
    <3>1. Since(a) \in SUBSET Requests
      BY DEF Since, Admitted
    <3>2. Cardinality(Since(a)) \in Nat
      BY <3>1, RateAssumption, FS_Subset, FS_CardinalityType
    <3> QED BY <1>0, <3>2, CountedTokens
  <2> HIDE DEF c
  <2>3. CASE bucket.last = -1
    <3>1. Answered # {}
      BY <1>6 DEF Since, Admitted, Answered
    <3>2. RefilledTo = touched + burstCapacity /\ now >= touched + burstCapacity /\ f = bucket.tokens
      BY <1>2, <1>3, <2>3, <3>1 DEF RefilledTo
    <3>3. rewound' = rewound
      BY <1>0, <1>1, <2>3
    <3>4. c + f <= (burstCapacity + (now - a)) + rewound'
      BY <1>0, <2>1, <2>2, <3>2, <3>3
    <3> QED BY <3>4 DEF c
  <2>4. CASE bucket.last # -1 /\ now < bucket.last
    <3>1. RefilledTo = bucket.last /\ f = bucket.tokens /\ rewound' = rewound + (bucket.last - now)
      BY <1>1, <1>2, <1>3, <2>4 DEF RefilledTo
    <3>2. c + f <= (burstCapacity + (now - a)) + rewound'
      BY <1>0, <2>1, <2>2, <3>1
    <3> QED BY <3>2 DEF c
  <2>5. CASE bucket.last # -1 /\ ~(now < bucket.last)
    <3>1. /\ RefilledTo = bucket.last /\ f <= bucket.tokens + (now - bucket.last)
          /\ rewound' = rewound
      BY <1>1, <1>2, <1>3, <2>5 DEF RefilledTo
    <3>2. c + f <= (burstCapacity + (now - a)) + rewound'
      BY <1>0, <1>3, <2>1, <2>2, <3>1
    <3> QED BY <3>2 DEF c
  <2> QED BY <2>3, <2>4, <2>5
<1>7. ASSUME rewound' = 0
      PROVE  /\ rewound = 0 /\ now >= bucket.last
             /\ now = bucket.last => f = bucket.tokens
             /\ \A r \in Requests : request[r].pc = "refused" =>
                  request[r].now <= now /\ (request[r].now = now => bucket.last = now)
  <2>1. rewound = 0 /\ now >= bucket.last
    BY <1>0, <1>1, <1>7
  <2>2. now = bucket.last => f = bucket.tokens
    BY <1>0, <1>2, <1>3
  <2>3. ASSUME NEW r \in Requests, request[r].pc = "refused"
        PROVE  request[r].now <= now /\ (request[r].now = now => bucket.last = now)
    <3>1. request[r].now \in Nat /\ (bucket.last = -1 \/ request[r].now <= bucket.last)
      BY <1>0, <2>1, <2>3, RateTypes DEF RetryHolds
    <3>2. CASE bucket.last = -1
      <4>1. r \in Answered
        BY <2>3 DEF Answered
      <4>2. request[r].now <= touched /\ now >= touched + burstCapacity
        BY <1>0, <3>2, <4>1 DEF Times
      <4> QED BY <1>0, <3>1, <4>2
    <3>3. CASE bucket.last # -1
      BY <1>0, <2>1, <3>1, <3>3
    <3> QED BY <3>2, <3>3
  <2> QED BY <2>1, <2>2, <2>3
<1> QED BY <1>1, <1>3, <1>4, <1>5, <1>6, <1>7 DEF f
\* The answer to a request that has reached the bucket.
LEMMA ConsumeInv ==
  ASSUME RateInv, NEW r \in Requests, r \notin Answered, NEW now \in Nat, now <= clock, consume(now),
         UNCHANGED <<store, clock>>,
         bucket.last = -1 /\ Answered # {} => now >= touched + burstCapacity,
         NEW n \in RequestRecord, request' = [request EXCEPT ![r] = n], n.now = now,
         n.pc \in {"admitted", "refused", "error"},
         n.pc = "admitted" => refilled(now) >= Token,
         n.pc = "refused" => refilled(now) < Token /\ n.retry = retryAfter(refilled(now))
  PROVE  RateInv'
<1> DEFINE f == refilled(now)
<1>0. /\ clock \in Nat /\ touched \in Nat /\ rewound \in Nat /\ clock <= MaxNow /\ MaxNow \in Nat
      /\ Token \in Nat \ {0} /\ burstCapacity \in Nat \ {0} /\ Second \in Nat \ {0}
      /\ RateTypeOK /\ Times /\ FitsSince /\ FitsWithin /\ RetryHolds
      /\ request \in [Requests -> RequestRecord]
      /\ \A q \in Requests : request[q].now \in Nat /\ request[q].now <= clock
  BY RateTypes DEF RateInv, Times
<1>1. /\ bucket' \in [tokens : 0..burstCapacity, last : -1..MaxNow] /\ bucket'.last = now
      /\ touched' = clock /\ rewound' \in Nat /\ rewound' >= rewound
      /\ f \in 0..burstCapacity
      /\ bucket'.tokens = IF f >= Token THEN f - Token ELSE f
      /\ \A a \in 0..MaxNow : Since(a) # {} =>
           Cardinality(Since(a)) * Token + f <= (burstCapacity + (now - a)) + rewound'
      /\ rewound' = 0 => /\ rewound = 0 /\ now >= bucket.last
                         /\ now = bucket.last => f = bucket.tokens
                         /\ \A q \in Requests : request[q].pc = "refused" =>
                              request[q].now <= now /\ (request[q].now = now => bucket.last = now)
  BY ConsumeEffect
<1>2. /\ n.pc = "admitted" => f >= Token
      /\ n.pc = "refused" => f < Token /\ n.retry = retryAfter(f)
  OBVIOUS
<1> HIDE DEF f
<1>3. /\ request' \in [Requests -> RequestRecord] /\ request'[r] = n
      /\ \A q \in Requests : q # r => request'[q] = request[q]
  BY <1>0
<1>4. RateTypeOK'
  <2>1. touched' \in 0..MaxNow /\ clock' \in 0..MaxNow
    BY <1>0, <1>1
  <2> QED BY <1>0, <1>1, <1>3, <2>1 DEF RateTypeOK, RequestRecord
<1>5. bucket'.last # -1 /\ RefilledTo' = now
  BY <1>1 DEF RefilledTo
<1>6. Times'
  <2>1. \A q \in Requests : request'[q].now <= clock
    BY <1>0, <1>3
  <2> QED BY <1>0, <1>1, <1>5, <2>1 DEF Times, Answered
<1>7. /\ r \notin Admitted
      /\ Admitted' = IF n.pc = "admitted" THEN Admitted \cup {r} ELSE Admitted
      /\ \A q \in Admitted : request'[q] = request[q]
  BY <1>3 DEF Admitted, Answered
<1>8. \A a : /\ r \notin Since(a) /\ IsFiniteSet(Since(a)) /\ Cardinality(Since(a)) \in Nat
             /\ Since(a)' \subseteq Since(a) \cup {r}
             /\ (n.pc # "admitted" \/ ~(now >= a)) => Since(a)' = Since(a)
  <2> TAKE a
  <2>1. Since(a) \in SUBSET Requests /\ r \notin Since(a)
    BY <1>7 DEF Since, Admitted
  <2>2. IsFiniteSet(Since(a)) /\ Cardinality(Since(a)) \in Nat
    BY <2>1, RateAssumption, FS_Subset, FS_CardinalityType
  <2>3. Since(a)' \subseteq Since(a) \cup {r}
    BY <1>7 DEF Since
  <2>4. (n.pc # "admitted" \/ ~(now >= a)) => Since(a)' = Since(a)
    <3>1. Since(a) \subseteq Since(a)'
      BY <1>7 DEF Since
    <3>2. (n.pc # "admitted" \/ ~(now >= a)) => r \notin Since(a)'
      BY <1>3, <1>7 DEF Since
    <3> QED BY <2>3, <3>1, <3>2
  <2> QED BY <2>1, <2>2, <2>3, <2>4
<1>9. ASSUME NEW a \in 0..MaxNow, Since(a)' # {}
      PROVE  Cardinality(Since(a)') * Token + bucket'.tokens
                <= (burstCapacity + (now - a)) + rewound'
  <2> DEFINE c == Cardinality(Since(a))
             d == Cardinality(Since(a)')
  <2>1. CASE n.pc = "admitted" /\ now >= a
    <3>1. bucket'.tokens = f - Token
      BY <1>1, <1>2, <2>1
    <3>2. d \in Nat /\ d <= c + 1
      <4>1. IsFiniteSet(Since(a) \cup {r}) /\ Cardinality(Since(a) \cup {r}) = c + 1
        BY <1>8, FS_AddElement
      <4>2. Since(a)' \in SUBSET (Since(a) \cup {r})
        BY <1>8
      <4>3. d <= c + 1 /\ IsFiniteSet(Since(a)')
        BY <4>1, <4>2, FS_Subset
      <4> QED BY <4>3, FS_CardinalityType
    <3>3. c \in Nat
      BY <1>8
    <3>4. d * Token <= c * Token + Token /\ c * Token \in Nat /\ d * Token \in Nat
      <4> HIDE DEF c, d
      <4>1. (c + 1) * Token = c * Token + Token /\ c * Token \in Nat /\ d * Token \in Nat
        BY <1>0, <3>2, <3>3, CountedTokens
      <4>2. d * Token <= (c + 1) * Token
        BY <1>0, <3>2, <3>3, CountedTokens
      <4> QED BY <4>1, <4>2
    <3>5. c * Token + f <= (burstCapacity + (now - a)) + rewound'
      <4>1. CASE Since(a) = {}
        <5>1. c = 0
          BY <4>1, FS_EmptySet
        <5>2. 0 * Token = 0
          BY <1>0
        <5>3. f \in Nat /\ f <= burstCapacity /\ rewound' \in Nat
          BY <1>0, <1>1
        <5>5. \A x, y, z, w \in Nat : x <= y => x <= (y + z) + w
          OBVIOUS
        <5>6. now - a \in Nat /\ burstCapacity \in Nat
          <6>1. MaxNow \in Nat /\ now >= a /\ burstCapacity \in Nat
            BY <1>0, <2>1
          <6> QED BY <6>1
        <5>4. f <= (burstCapacity + (now - a)) + rewound'
          BY <5>3, <5>5, <5>6
        <5> QED BY <5>1, <5>2, <5>3, <5>4
      <4>2. CASE Since(a) # {}
        BY <1>1, <4>2
      <4> QED BY <4>1, <4>2
    <3> HIDE DEF c, d
    <3>6. d * Token + (f - Token) <= (burstCapacity + (now - a)) + rewound'
      BY <1>0, <1>1, <3>4, <3>5
    <3> QED BY <3>1, <3>6 DEF d
  <2>2. CASE ~(n.pc = "admitted" /\ now >= a)
    <3>1. Since(a)' = Since(a) /\ Since(a) # {}
      BY <1>8, <1>9, <2>2
    <3>2. c * Token + f <= (burstCapacity + (now - a)) + rewound'
      BY <1>1, <3>1
    <3>3. c * Token \in Nat
      BY <1>0, <1>8, CountedTokens
    <3> HIDE DEF c
    <3>4. bucket'.tokens <= f /\ bucket'.tokens \in Nat
      BY <1>0, <1>1
    <3>5. c * Token + bucket'.tokens <= (burstCapacity + (now - a)) + rewound'
      BY <1>0, <1>1, <3>2, <3>3, <3>4
    <3> QED BY <3>1, <3>5 DEF c
  <2> QED BY <2>1, <2>2
<1>10. FitsSince'
  BY <1>5, <1>9 DEF FitsSince
<1>11. FitsWithin'
  <2> SUFFICES ASSUME NEW a \in 0..MaxNow, NEW b \in 0..MaxNow, a <= b
               PROVE  Cardinality(AdmittedIn(a, b)') * Token <= (burstCapacity + (b - a)) + rewound'
    BY DEF FitsWithin
  <2>1. CASE n.pc = "admitted" /\ now \in a..b
    <3>1. AdmittedIn(a, b)' \in SUBSET (Since(a)') /\ Since(a)' # {}
      <4>1. r \in Since(a)'
        BY <1>0, <1>3, <1>7, <2>1 DEF Since
      <4>2. AdmittedIn(a, b)' \subseteq Since(a)'
        BY DEF AdmittedIn, Since
      <4> QED BY <4>1, <4>2
    <3>2. IsFiniteSet(Since(a)')
      <4>1. Since(a)' \in SUBSET Requests
        BY DEF Since, Admitted
      <4> QED BY <4>1, RateAssumption, FS_Subset
    <3> DEFINE m == Cardinality(AdmittedIn(a, b)')
               d == Cardinality(Since(a)')
    <3>3. m \in Nat /\ d \in Nat /\ m <= d
      BY <3>1, <3>2, FS_Subset, FS_CardinalityType
    <3>4. d * Token + bucket'.tokens <= (burstCapacity + (now - a)) + rewound'
      BY <1>9, <3>1
    <3> HIDE DEF m, d
    <3>5. m * Token <= d * Token /\ m * Token \in Nat /\ d * Token \in Nat
      BY <1>0, <3>3, CountedTokens
    <3>6. bucket'.tokens \in Nat
      BY <1>0, <1>1
    <3>7. m * Token <= (burstCapacity + (b - a)) + rewound'
      BY <1>0, <1>1, <2>1, <3>4, <3>5, <3>6
    <3> QED BY <3>7 DEF m
  <2>2. CASE ~(n.pc = "admitted" /\ now \in a..b)
    <3>1. AdmittedIn(a, b)' = AdmittedIn(a, b)
      BY <1>3, <1>7, <2>2 DEF AdmittedIn
    <3>2. Cardinality(AdmittedIn(a, b)) * Token <= (burstCapacity + (b - a)) + rewound
      BY <1>0 DEF FitsWithin
    <3>3. Cardinality(AdmittedIn(a, b)) * Token \in Nat
      <4>1. AdmittedIn(a, b) \in SUBSET Requests
        BY DEF AdmittedIn, Admitted
      <4>2. Cardinality(AdmittedIn(a, b)) \in Nat
        BY <4>1, RateAssumption, FS_Subset, FS_CardinalityType
      <4> QED BY <1>0, <4>2, CountedTokens
    <3> DEFINE m == Cardinality(AdmittedIn(a, b)) * Token
    <3> HIDE DEF m
    <3>4. m <= (burstCapacity + (b - a)) + rewound /\ m \in Nat
      BY <3>2, <3>3 DEF m
    <3>5. m <= (burstCapacity + (b - a)) + rewound'
      <4>1. rewound' \in Nat /\ rewound' >= rewound
        BY <1>1
      <4>2. \A k, x, w, v \in Int : k <= x + w /\ w <= v => k <= x + v
        OBVIOUS
      <4>3. burstCapacity + (b - a) \in Int /\ rewound \in Int /\ rewound' \in Int
        <5>1. MaxNow \in Nat /\ burstCapacity \in Nat /\ rewound \in Nat
          BY <1>0
        <5> QED BY <4>1, <5>1
      <4> QED BY <3>4, <4>1, <4>2, <4>3
    <3> QED BY <3>1, <3>5 DEF m
  <2> QED BY <2>1, <2>2
<1>12. RetryHolds'
  <2> SUFFICES ASSUME rewound' = 0, NEW q \in Requests, request'[q].pc = "refused"
               PROVE  /\ request'[q].now <= now
                      /\ request'[q].now = now =>
                           bucket'.tokens < Token /\ bucket'.tokens + request'[q].retry * Second >= Token
    BY <1>1 DEF RetryHolds
  <2>1. CASE q = r
    <3>1. /\ request'[q].now = now /\ f < Token /\ f \in Nat /\ request'[q].retry = retryAfter(f)
          /\ bucket'.tokens = f
      BY <1>0, <1>1, <1>2, <1>3, <2>1
    <3>2. f + retryAfter(f) * Second >= Token
      BY <1>0, <3>1, RetryRefills
    <3> QED BY <1>0, <3>1, <3>2
  <2>2. CASE q # r
    <3>1. request'[q] = request[q] /\ request[q].pc = "refused"
      BY <1>3, <2>2
    <3>2. /\ rewound = 0 /\ request[q].now <= now /\ (request[q].now = now => bucket.last = now)
          /\ now = bucket.last => f = bucket.tokens
      BY <1>1, <3>1
    <3>3. request[q].now = now =>
            f < Token /\ f + request[q].retry * Second >= Token
      BY <1>0, <3>1, <3>2 DEF RetryHolds
    <3>4. f < Token => bucket'.tokens = f
      BY <1>0, <1>1
    <3> QED BY <3>1, <3>2, <3>3, <3>4
  <2> QED BY <2>1, <2>2
<1> QED BY <1>4, <1>6, <1>10, <1>11, <1>12 DEF RateInv

\* A request that starts to wait, or ends in an error, without reaching the bucket.
LEMMA UnansweredInv ==
  ASSUME RateInv, NEW r \in Requests, r \notin Answered, NEW n \in RequestRecord,
         request' = [request EXCEPT ![r] = n], n.pc \in {"waiting", "error"}, n.now <= clock,
         n.pc = "waiting" => n.now = clock,
         UNCHANGED <<store, clock, bucket, touched, rewound>>
  PROVE  RateInv'
<1>0. /\ RateTypeOK /\ Times /\ FitsSince /\ FitsWithin /\ RetryHolds
      /\ request \in [Requests -> RequestRecord]
  BY RateTypes DEF RateInv
<1>1. /\ request' \in [Requests -> RequestRecord] /\ request'[r] = n
      /\ \A q \in Requests : q # r => request'[q] = request[q]
  BY <1>0
<1>2. Answered' = Answered /\ Admitted' = Admitted /\ \A q \in Answered : request'[q] = request[q]
  BY <1>1 DEF Answered, Admitted
<1>3. \A q \in Admitted : request'[q] = request[q]
  BY <1>2 DEF Admitted, Answered
<1>4. RateTypeOK'
  BY <1>0, <1>1 DEF RateTypeOK, RequestRecord
<1>5. Times'
  <2>1. \A q \in Requests : request'[q].now <= clock
    BY <1>0, <1>1 DEF Times
  <2>2. bucket.last = -1 /\ Answered # {} =>
          \A q \in Requests : request'[q].pc = "waiting" => request'[q].now >= touched + burstCapacity
    BY <1>0, <1>1 DEF Times
  <2> QED BY <1>0, <1>2, <2>1, <2>2 DEF Times
<1>6. \A a, b : Since(a)' = Since(a) /\ AdmittedIn(a, b)' = AdmittedIn(a, b)
  BY <1>2, <1>3 DEF Since, AdmittedIn
<1>7. FitsSince' /\ FitsWithin'
  BY <1>0, <1>6 DEF FitsSince, FitsWithin, RefilledTo
<1>8. RetryHolds'
  BY <1>0, <1>1 DEF RetryHolds
<1> QED BY <1>4, <1>5, <1>7, <1>8 DEF RateInv

\* Every step of the limiter keeps RateInv.
LEMMA RateStep == RateInv /\ [RateNext]_rateVars => RateInv'
<1> SUFFICES ASSUME RateInv, [RateNext]_rateVars PROVE RateInv'
  OBVIOUS
<1>0. /\ clock \in Nat /\ touched \in Nat /\ rewound \in Nat /\ clock <= MaxNow /\ MaxNow \in Nat
      /\ bucket.tokens \in Nat /\ bucket.last \in Int
      /\ burstCapacity \in Nat \ {0} /\ entryTtl \in Nat /\ entryTtl >= burstCapacity
      /\ RateTypeOK /\ Times /\ FitsSince /\ FitsWithin /\ RetryHolds
      /\ request \in [Requests -> RequestRecord]
      /\ \A r \in Requests : /\ request[r] \in RequestRecord /\ request[r].now \in Nat
                             /\ request[r].now <= clock
  BY RateTypes DEF RateInv, Times
<1>1. ASSUME NEW r \in Requests, r \notin Answered, NEW now \in Nat, now <= clock, consume(now),
             Respond(r, now), UNCHANGED <<store, clock>>,
             bucket.last = -1 /\ Answered # {} => now >= touched + burstCapacity
      PROVE  RateInv'
  <2> DEFINE f == refilled(now)
             n == [pc |-> IF f >= Token THEN "admitted" ELSE "refused", now |-> now,
                   retry |-> IF f >= Token THEN 0 ELSE retryAfter(f)]
  <2>1. request' = [request EXCEPT ![r] = n]
    BY <1>1 DEF Respond
  <2>2. f \in 0..burstCapacity
    BY <1>1, ConsumeEffect
  <2>3. /\ n.pc = "admitted" => f >= Token
        /\ n.pc = "refused" => f < Token /\ n.retry = retryAfter(f)
        /\ n.now = now /\ n.pc \in {"admitted", "refused", "error"}
    <3> HIDE DEF f
    <3>1. Token \in Nat
      BY RateAssumption
    <3> QED BY <1>0, <2>2, <3>1
  <2>4. n \in RequestRecord
    <3>1. f < Token => retryAfter(f) \in Nat
      BY <1>0, <2>2, RetryRefills
    <3>2. now \in 0..MaxNow /\ Token \in Nat
      BY <1>0, <1>1, RateAssumption
    <3> HIDE DEF f
    <3>3. (IF f >= Token THEN 0 ELSE retryAfter(f)) \in Nat
      BY <1>0, <2>2, <3>1, <3>2
    <3> QED BY <3>2, <3>3 DEF RequestRecord
  <2>5. /\ n.pc = "admitted" => refilled(now) >= Token
        /\ n.pc = "refused" => refilled(now) < Token /\ n.retry = retryAfter(refilled(now))
    BY <2>3
  <2> HIDE DEF n, f
  <2> QED BY <1>1, <2>1, <2>3, <2>4, <2>5, ConsumeInv
<1>2. ASSUME NEW r \in Requests, limit(r) PROVE RateInv'
  <2>1. request[r].pc = "idle" /\ r \notin Answered /\ UNCHANGED <<store, clock>>
    BY <1>2 DEF limit, Answered
  <2>2. CASE store = "memory"
    <3>1. consume(clock) /\ Respond(r, clock)
      BY <1>2, <2>2 DEF limit
    <3>2. bucket.last = -1 /\ Answered # {} => clock >= touched + burstCapacity
      BY <1>0 DEF Times
    <3>3. clock <= clock
      BY <1>0
    <3> QED BY <1>0, <1>1, <2>1, <3>1, <3>2, <3>3
  <2>3. CASE store # "memory"
    <3> DEFINE n == [pc |-> "waiting", now |-> clock, retry |-> 0]
    <3>1. request' = [request EXCEPT ![r] = n] /\ UNCHANGED <<bucket, touched, rewound>>
      BY <1>2, <2>3 DEF limit
    <3>2. n \in RequestRecord /\ n.pc = "waiting" /\ n.now = clock
      <4>1. clock \in 0..MaxNow
        BY <1>0
      <4> QED BY <4>1 DEF RequestRecord
    <3> HIDE DEF n
    <3>3. n.now <= clock
      BY <1>0, <3>2
    <3> QED BY <2>1, <3>1, <3>2, <3>3, UnansweredInv
  <2> QED BY <2>2, <2>3
<1>3. ASSUME NEW r \in Requests, Eval(r) PROVE RateInv'
  <2>1. /\ request[r].pc = "waiting" /\ r \notin Answered /\ UNCHANGED <<store, clock>>
        /\ bucket.last = -1 /\ Answered # {} => request[r].now >= touched + burstCapacity
    BY <1>0, <1>3 DEF Eval, Answered, Times
  <2> DEFINE n == [request[r] EXCEPT !.pc = "error"]
  <2>2. n \in RequestRecord /\ n.pc = "error" /\ n.now = request[r].now
    BY <1>0 DEF RequestRecord
  <2>3. request' = [request EXCEPT ![r].pc = "error"] => request' = [request EXCEPT ![r] = n]
    BY <1>0
  <2> HIDE DEF n
  <2>4. CASE consume(request[r].now) /\ Respond(r, request[r].now)
    BY <1>0, <1>1, <2>1, <2>4
  <2>5. CASE request' = [request EXCEPT ![r].pc = "error"] /\ consume(request[r].now)
    BY <1>0, <2>1, <2>2, <2>3, <2>5, ConsumeInv
  <2>6. CASE request' = [request EXCEPT ![r].pc = "error"] /\ UNCHANGED <<bucket, touched, rewound>>
    BY <1>0, <2>1, <2>2, <2>3, <2>6, UnansweredInv
  <2> QED BY <1>3, <2>4, <2>5, <2>6 DEF Eval
<1>4. CASE DropBucket
  <2>1. /\ clock - touched >= entryTtl /\ \A r \in Requests : request[r].pc # "waiting"
        /\ bucket' = NoBucket /\ UNCHANGED <<store, clock, request, touched, rewound>>
        /\ bucket # NoBucket
    BY <1>4 DEF DropBucket
  <2>2. bucket'.tokens = burstCapacity /\ bucket'.last = -1
    BY <2>1 DEF NoBucket
  <2>3. RateTypeOK'
    <3>1. NoBucket \in [tokens : 0..burstCapacity, last : -1..MaxNow]
      <4>1. burstCapacity \in 0..burstCapacity /\ -1 \in -1..MaxNow
        BY <1>0
      <4> QED BY <4>1 DEF NoBucket
    <3> QED BY <1>0, <2>1, <3>1 DEF RateTypeOK
  <2>4. Answered' = Answered /\ \A a, b : Since(a)' = Since(a) /\ AdmittedIn(a, b)' = AdmittedIn(a, b)
    BY <2>1 DEF Answered, Since, AdmittedIn, Admitted
  <2>5. bucket.last <= touched /\ touched <= clock /\ clock >= touched + burstCapacity
    BY <1>0, <2>1 DEF Times
  <2>6. Times'
    BY <1>0, <2>1, <2>2, <2>4, <2>5 DEF Times
  <2>7. FitsSince'
    <3> SUFFICES ASSUME NEW a \in 0..MaxNow, Since(a) # {}
                 PROVE  Cardinality(Since(a)) * Token + burstCapacity
                          <= (burstCapacity + ((touched + burstCapacity) - a)) + rewound
      BY <2>1, <2>2, <2>4 DEF FitsSince, RefilledTo
    <3>1. Cardinality(Since(a)) * Token \in Nat
      <4>1. Since(a) \in SUBSET Requests
        BY DEF Since, Admitted
      <4>2. Cardinality(Since(a)) \in Nat
        BY <4>1, RateAssumption, FS_Subset, FS_CardinalityType
      <4>3. Token \in Nat
        BY RateAssumption
      <4> QED BY <4>2, <4>3, CountedTokens
    <3> DEFINE c == Cardinality(Since(a)) * Token
    <3>2. c + bucket.tokens <= (burstCapacity + (RefilledTo - a)) + rewound /\ c \in Nat
      BY <1>0, <3>1 DEF FitsSince
    <3> HIDE DEF c
    <3>3. RefilledTo <= touched + burstCapacity /\ (RefilledTo # touched + burstCapacity
             => RefilledTo <= touched) /\ RefilledTo \in Int
      BY <1>0, <2>5 DEF RefilledTo
    <3>4. RefilledTo = touched + burstCapacity => bucket.tokens = burstCapacity \/ RefilledTo <= touched
      BY <1>0, <2>5 DEF RefilledTo, Times
    <3>5. c + burstCapacity <= (burstCapacity + ((touched + burstCapacity) - a)) + rewound
      BY <1>0, <3>2, <3>3, <3>4
    <3> QED BY <3>5 DEF c
  <2>8. FitsWithin'
    BY <1>0, <2>1, <2>4 DEF FitsWithin
  <2>9. RetryHolds'
    BY <1>0, <2>1, <2>2 DEF RetryHolds
  <2> QED BY <2>3, <2>6, <2>7, <2>8, <2>9 DEF RateInv
<1>5. CASE RateTick
  <2>1. /\ clock' = clock + 1 /\ clock' \in 0..MaxNow
        /\ UNCHANGED <<store, request, bucket, touched, rewound>>
    BY <1>0, <1>5 DEF RateTick
  <2>2. Answered' = Answered /\ \A a, b : Since(a)' = Since(a) /\ AdmittedIn(a, b)' = AdmittedIn(a, b)
    BY <2>1 DEF Answered, Since, AdmittedIn, Admitted
  <2>3. RateTypeOK'
    BY <1>0, <2>1 DEF RateTypeOK
  <2>4. Times'
    BY <1>0, <2>1, <2>2 DEF Times
  <2>5. FitsSince' /\ FitsWithin' /\ RetryHolds'
    BY <1>0, <2>1, <2>2 DEF FitsSince, FitsWithin, RetryHolds, RefilledTo
  <2> QED BY <2>3, <2>4, <2>5 DEF RateInv
<1>6. CASE UNCHANGED rateVars
  BY <1>6 DEF rateVars, RateInv, RateTypeOK, Times, FitsSince, FitsWithin, RetryHolds, Answered, Since,
              AdmittedIn, Admitted, RefilledTo
<1> QED BY <1>2, <1>3, <1>4, <1>5, <1>6 DEF RateNext

\* RateInv holds of every behaviour of the limiter, and gives its two properties.
LEMMA RateInvariance ==
  RateInit /\ [][RateNext]_rateVars => [](RateTypeOK /\ AdmissionBounded /\ RetryIsEnough)
<1>1. RateInit => RateInv
  <2> SUFFICES ASSUME RateInit PROVE RateInv
    OBVIOUS
  <2>0. /\ burstCapacity \in Nat \ {0} /\ MaxNow \in Nat /\ Token \in Nat
    BY RateAssumption
  <2>1. bucket.tokens = burstCapacity /\ bucket.last = -1
    BY DEF RateInit, NoBucket
  <2>2. \A r \in Requests : request[r].pc = "idle" /\ request[r].now = 0
    BY DEF RateInit
  <2>3. Answered = {} /\ Admitted = {}
    BY <2>2 DEF Answered, Admitted
  <2>4. RateTypeOK
    <3>1. bucket \in [tokens : 0..burstCapacity, last : -1..MaxNow]
      <4>1. burstCapacity \in 0..burstCapacity /\ -1 \in -1..MaxNow
        BY <2>0
      <4> QED BY <4>1 DEF RateInit, NoBucket
    <3>2. 0 \in 0..MaxNow /\ 0 \in Nat
      BY <2>0
    <3> QED BY <3>1, <3>2 DEF RateInit, RateTypeOK
  <2>5. Times
    BY <2>0, <2>1, <2>2, <2>3 DEF RateInit, Times
  <2>6. \A a, b : Since(a) = {} /\ AdmittedIn(a, b) = {}
    BY <2>3 DEF Since, AdmittedIn
  <2>7. FitsSince
    BY <2>6 DEF FitsSince
  <2>8. FitsWithin
    <3> SUFFICES ASSUME NEW a \in 0..MaxNow, NEW b \in 0..MaxNow, a <= b
                 PROVE  Cardinality(AdmittedIn(a, b)) * Token <= (burstCapacity + (b - a)) + rewound
      BY DEF FitsWithin
    <3>1. Cardinality(AdmittedIn(a, b)) = 0
      BY <2>6, FS_EmptySet
    <3>2. 0 * Token = 0
      BY <2>0
    <3>3. 0 <= (burstCapacity + (b - a)) + rewound
      BY <2>0 DEF RateInit
    <3> QED BY <3>1, <3>2, <3>3
  <2>9. RetryHolds
    BY <2>2 DEF RetryHolds
  <2> QED BY <2>4, <2>5, <2>7, <2>8, <2>9 DEF RateInv
<1>2. RateInv => RateTypeOK /\ AdmissionBounded /\ RetryIsEnough
  <2> SUFFICES ASSUME RateInv PROVE RateTypeOK /\ AdmissionBounded /\ RetryIsEnough
    OBVIOUS
  <2>1. RateTypeOK /\ FitsWithin /\ RetryHolds
    BY DEF RateInv
  <2>2. AdmissionBounded
    <3> SUFFICES ASSUME NEW p \in Admitted, NEW q \in Admitted, request[p].now <= request[q].now
                 PROVE  Cardinality(AdmittedIn(request[p].now, request[q].now)) * Token
                          <= (burstCapacity + (request[q].now - request[p].now)) + rewound
      BY DEF AdmissionBounded
    <3>1. request[p].now \in 0..MaxNow /\ request[q].now \in 0..MaxNow
      <4>1. p \in Requests /\ q \in Requests
        BY DEF Admitted
      <4>2. request[p].now \in Nat /\ request[p].now <= MaxNow
            /\ request[q].now \in Nat /\ request[q].now <= MaxNow /\ MaxNow \in Nat
        BY <2>1, <4>1, RateTypes
      <4> QED BY <4>2
    <3> QED BY <2>1, <3>1 DEF FitsWithin
  <2>3. RetryIsEnough
    BY <2>1 DEF RetryHolds, RetryIsEnough
  <2> QED BY <2>1, <2>2, <2>3
<1> QED BY <1>1, <1>2, RateStep, PTL

\* The flags that are degraded follow the level, but for a change of configuration
\* under load or a stop; and whatever the order in which requests reach the bucket,
\* those admitted in any span of time fit into a full bucket, the refill of the span
\* and what was credited twice.
THEOREM IngressIsSafe == Spec => []IngressSafe
<1>1. Init => SheddingInit /\ RateInit
  BY DEF Init
<1>2. [Next]_vars => [SheddingNext]_sheddingVars
  BY DEF Next, vars, workers
<1>3. [Next]_vars => [RateNext]_rateVars
  BY DEF Next, vars, ingress
<1>4. (SheddingTypeOK /\ ShedFollowsLevel) /\ (RateTypeOK /\ AdmissionBounded /\ RetryIsEnough)
        => IngressSafe
  BY DEF IngressSafe
<1> QED BY <1>1, <1>2, <1>3, <1>4, SheddingInvariance, RateInvariance, PTL DEF Spec

-----------------------------------------------------------------------------
(***************************************************************************)
(* Cache                                                                   *)
(***************************************************************************)
EntryRecord == [key : CacheKeys, stamp : Nat \ {0}, expired : BOOLEAN]
CallRecord ==
  [op : Ops, key : CacheKeys, stamp : Nat,
   pc : {"idle", "connect", "command", "load", "done", "threw"}]

CacheTypes ==
  /\ memory \in Seq(EntryRecord) /\ Len(memory) <= maxEntries
  /\ redis \in [CacheKeys -> Nat] /\ stamps \in [CacheKeys -> Nat]
  /\ settled \in [CacheKeys -> Nat]
  /\ call \in [CacheCalls -> CallRecord]
  /\ raced \subseteq CacheKeys

CacheFlags == redisClient \in BOOLEAN /\ redisUnavailable \in BOOLEAN /\ late \in BOOLEAN

\* A call with a stamp writes.
Writing(c) == CacheOpen(c) /\ call[c].stamp # 0
StampsOfWrites ==
  \A c \in CacheCalls :
    /\ call[c].stamp # 0 <=> call[c].op \in {"set", "delete"}
    /\ call[c].pc = "idle" => call[c].stamp = 0
    /\ call[c].pc = "load" => call[c].stamp # 0

\* Each call takes at most one stamp, and nothing has a stamp that was not taken.
Stamped(k) == {c \in CacheCalls : call[c].key = k /\ call[c].stamp # 0}
StampsCounted ==
  /\ \A k \in CacheKeys : stamps[k] = Cardinality(Stamped(k))
  /\ \A c \in CacheCalls : call[c].stamp <= stamps[call[c].key]

StampsTaken ==
  /\ \A k \in CacheKeys : redis[k] <= stamps[k] /\ settled[k] <= stamps[k]
  /\ \A i \in 1..Len(memory) : memory[i].stamp <= stamps[memory[i].key]

\* Writes of a key that do not overlap: the open one has the newest stamp.
OneWriter ==
  /\ \A c, d \in CacheCalls :
       Writing(c) /\ Writing(d) /\ call[c].key = call[d].key /\ c # d => call[c].key \in raced
  /\ \A c \in CacheCalls : Writing(c) => call[c].stamp = stamps[call[c].key] \/ call[c].key \in raced

\* The memory holds a key once.
KeysOnce(m) == \A i, j \in 1..Len(m) : m[i].key = m[j].key => i = j

\* While the flag is down the memory is empty and Redis has no value older than the
\* newest write that returned; the memory never has one.
MemoryIdle == ~late /\ ~redisUnavailable => memory = <<>>
RedisFresh ==
  ~late /\ ~redisUnavailable =>
    \A k \in CacheKeys \ raced : redis[k] = 0 \/ redis[k] >= settled[k]
MemoryFresh ==
  ~late => \A i \in 1..Len(memory) :
    memory[i].key \in raced \/ memory[i].stamp >= settled[memory[i].key]

\* The memory does not have a key that is being written to Redis.
Uncached ==
  ~late => \A c \in CacheCalls :
    Writing(c) /\ call[c].pc \in {"connect", "command"} =>
      call[c].key \in raced \/ \A i \in 1..Len(memory) : memory[i].key # call[c].key

CacheInv ==
  /\ CacheTypes /\ CacheFlags
  /\ StampsOfWrites /\ StampsCounted /\ StampsTaken /\ OneWriter
  /\ KeysOnce(memory) /\ MemoryIdle /\ RedisFresh /\ MemoryFresh /\ Uncached

GoodMemory(m) == m \in Seq(EntryRecord) /\ Len(m) <= maxEntries /\ KeysOnce(m)

\* Memory m2 has no entry but those of m; m has none of key k.
IsOld(e, m) == \E j \in 1..Len(m) : m[j].key = e.key /\ m[j].stamp = e.stamp
AllOld(m2, m) == \A i \in 1..Len(m2) : IsOld(m2[i], m)
Without(m, k) == \A i \in 1..Len(m) : m[i].key # k

\* RemoveAt takes one element out and keeps the order of the others.
LEMMA RemoveAtKeeps ==
  ASSUME NEW S, NEW m \in Seq(S), NEW i \in 1..Len(m)
  PROVE  /\ RemoveAt(m, i) \in Seq(S) /\ Len(RemoveAt(m, i)) = Len(m) - 1
         /\ \A j \in 1..(Len(m) - 1) : RemoveAt(m, i)[j] = IF j < i THEN m[j] ELSE m[j + 1]
<1> DEFINE a == SubSeq(m, 1, i - 1)
           b == SubSeq(m, i + 1, Len(m))
<1>1. Len(m) \in Nat /\ \A j \in 1..Len(m) : m[j] \in S
  BY ElementOfSeq, LenProperties
<1>2. a \in Seq(S) /\ Len(a) = i - 1 /\ \A j \in 1..(i - 1) : a[j] = m[j]
  <2>1. \A j \in 1..(i - 1) : m[j] \in S
    BY <1>1
  <2>2. /\ a \in Seq(S) /\ Len(a) = (IF 1 <= i - 1 THEN i - 1 - 1 + 1 ELSE 0)
        /\ \A j \in 1..(i - 1 - 1 + 1) : a[j] = m[1 + j - 1]
    BY <2>1, SubSeqProperties
  <2> HIDE DEF a
  <2> QED BY <2>2
<1>3. /\ b \in Seq(S) /\ Len(b) = Len(m) - i
      /\ \A j \in 1..(Len(m) - i) : b[j] = m[i + j]
  <2>1. \A j \in (i + 1)..Len(m) : m[j] \in S
    BY <1>1
  <2>2. /\ b \in Seq(S) /\ Len(b) = (IF i + 1 <= Len(m) THEN Len(m) - (i + 1) + 1 ELSE 0)
        /\ \A j \in 1..(Len(m) - (i + 1) + 1) : b[j] = m[i + 1 + j - 1]
    BY <1>1, <2>1, SubSeqProperties
  <2> HIDE DEF b
  <2> QED BY <1>1, <2>2
<1>4. RemoveAt(m, i) = a \o b
  BY DEF RemoveAt
<1> HIDE DEF a, b
<1>5. /\ a \o b \in Seq(S) /\ Len(a \o b) = Len(a) + Len(b)
      /\ \A j \in 1..(Len(a) + Len(b)) : (a \o b)[j] = IF j <= Len(a) THEN a[j] ELSE b[j - Len(a)]
  BY <1>2, <1>3, ConcatProperties
<1>6. ASSUME NEW j \in 1..(Len(m) - 1) PROVE (a \o b)[j] = IF j < i THEN m[j] ELSE m[j + 1]
  <2>1. j \in 1..(Len(a) + Len(b))
    BY <1>1, <1>2, <1>3
  <2>2. CASE j < i
    BY <1>1, <1>2, <1>5, <2>1, <2>2
  <2>3. CASE ~(j < i)
    <3>1. j - Len(a) \in 1..(Len(m) - i) /\ i + (j - Len(a)) = j + 1 /\ ~(j <= Len(a))
      BY <1>1, <1>2, <2>3
    <3>2. (a \o b)[j] = b[j - Len(a)]
      BY <1>5, <2>1, <3>1
    <3>3. b[j - Len(a)] = m[i + (j - Len(a))]
      BY <1>3, <3>1
    <3> QED BY <2>3, <3>1, <3>2, <3>3
  <2> QED BY <2>2, <2>3
<1> QED BY <1>1, <1>2, <1>3, <1>4, <1>5, <1>6

\* delete() on the memory leaves no entry of the key and adds none.
LEMMA MemoryDeletes ==
  ASSUME NEW k \in CacheKeys, GoodMemory(memory)
  PROVE  /\ GoodMemory(memoryDelete(k)) /\ AllOld(memoryDelete(k), memory)
         /\ Without(memoryDelete(k), k)
<1>1. memory \in Seq(EntryRecord) /\ Len(memory) \in Nat /\ maxEntries \in Nat
  BY CacheAssumption, LenProperties DEF GoodMemory
<1>2. CASE Entry(k) = {}
  BY <1>1, <1>2 DEF memoryDelete, Entry, AllOld, IsOld, Without
<1>3. CASE Entry(k) # {}
  <2> DEFINE i == CHOOSE x \in Entry(k) : TRUE
             d == RemoveAt(memory, i)
  <2>1. i \in 1..Len(memory) /\ memory[i].key = k
    BY <1>3 DEF Entry
  <2>2. memoryDelete(k) = d
    BY <1>3 DEF memoryDelete
  <2> HIDE DEF i
  <2>3. /\ d \in Seq(EntryRecord) /\ Len(d) = Len(memory) - 1
        /\ \A j \in 1..(Len(memory) - 1) : d[j] = IF j < i THEN memory[j] ELSE memory[j + 1]
    BY <1>1, <2>1, RemoveAtKeeps
  <2> HIDE DEF d
  <2> DEFINE at(j) == IF j < i THEN j ELSE j + 1
  <2>4. \A j \in 1..Len(d) : at(j) \in 1..Len(memory) /\ at(j) # i /\ d[j] = memory[at(j)]
    <3> SUFFICES ASSUME NEW j \in 1..Len(d)
                 PROVE  at(j) \in 1..Len(memory) /\ at(j) # i /\ d[j] = memory[at(j)]
      OBVIOUS
    <3>1. j \in 1..(Len(memory) - 1) /\ d[j] = IF j < i THEN memory[j] ELSE memory[j + 1]
      BY <2>3
    <3>2. CASE j < i
      BY <1>1, <2>1, <3>1, <3>2
    <3>3. CASE ~(j < i)
      BY <1>1, <2>1, <3>1, <3>3
    <3> QED BY <3>2, <3>3
  <2>5. \A j, h \in 1..Len(d) : at(j) = at(h) => j = h
    BY <2>1
  <2> HIDE DEF at
  <2>6. \A j, h \in 1..Len(memory) : memory[j].key = memory[h].key => j = h
    BY DEF GoodMemory, KeysOnce
  <2>7. KeysOnce(d)
    BY <2>4, <2>5, <2>6 DEF KeysOnce
  <2>8. Without(d, k)
    BY <2>1, <2>4, <2>6 DEF Without
  <2>9. AllOld(d, memory)
    BY <2>4 DEF AllOld, IsOld
  <2>10. Len(d) <= maxEntries
    BY <1>1, <2>3 DEF GoodMemory
  <2> QED BY <2>2, <2>3, <2>7, <2>8, <2>9, <2>10 DEF GoodMemory
<1> QED BY <1>2, <1>3

\* So a get() that drops an expired entry adds none.
LEMMA MemoryGets ==
  ASSUME NEW k \in CacheKeys, GoodMemory(memory)
  PROVE  GoodMemory(afterMemoryGet(k)) /\ AllOld(afterMemoryGet(k), memory)
<1>1. AllOld(memory, memory)
  BY DEF AllOld, IsOld
<1> QED BY <1>1, MemoryDeletes DEF afterMemoryGet

\* set() adds the entry it was called for, and makes room within the limit.
LEMMA MemorySets ==
  ASSUME NEW k \in CacheKeys, NEW s \in Nat \ {0}, GoodMemory(memory)
  PROVE  /\ GoodMemory(memorySet(k, s))
         /\ \A i \in 1..Len(memorySet(k, s)) :
              \/ memorySet(k, s)[i].key = k /\ memorySet(k, s)[i].stamp = s
              \/ memorySet(k, s)[i].key # k /\ IsOld(memorySet(k, s)[i], memory)
<1> DEFINE kept == IF Len(memory) >= maxEntries THEN Tail(memory) ELSE memory
           new == [key |-> k, stamp |-> s, expired |-> FALSE]
           over == [i \in 1..Len(kept) |-> IF kept[i].key = k THEN new ELSE kept[i]]
           after == Append(kept, new)
<1>1. /\ memory \in Seq(EntryRecord) /\ Len(memory) \in Nat /\ maxEntries \in Nat \ {0}
      /\ Len(memory) <= maxEntries
  BY CacheAssumption, LenProperties DEF GoodMemory
<1>2. new \in EntryRecord /\ new.key = k /\ new.stamp = s
  BY DEF EntryRecord
<1>3. memorySet(k, s) = IF \E i \in 1..Len(kept) : kept[i].key = k THEN over ELSE after
  BY DEF memorySet
<1>4. KeysOnce(memory)
  BY DEF GoodMemory
<1>5. /\ kept \in Seq(EntryRecord) /\ Len(kept) \in Nat /\ Len(kept) < maxEntries
      /\ KeysOnce(kept) /\ AllOld(kept, memory)
  <2>1. CASE Len(memory) >= maxEntries
    <3>1. memory # <<>> /\ kept = Tail(memory)
      BY <1>1, <2>1, EmptySeq
    <3> HIDE DEF kept
    <3>2. /\ kept \in Seq(EntryRecord) /\ Len(kept) = Len(memory) - 1
          /\ \A i \in 1..Len(kept) : kept[i] = memory[i + 1]
      BY <1>1, <3>1, HeadTailProperties
    <3>3. Len(kept) \in Nat /\ Len(kept) < maxEntries
      BY <1>1, <2>1, <3>2
    <3>4. \A i \in 1..Len(kept) : i + 1 \in 1..Len(memory)
      BY <1>1, <3>2
    <3>5. \A i, j \in 1..Len(kept) : i + 1 = j + 1 => i = j
      BY <3>3
    <3>6. KeysOnce(kept)
      BY <1>4, <3>2, <3>4, <3>5 DEF KeysOnce
    <3>7. AllOld(kept, memory)
      BY <3>2, <3>4 DEF AllOld, IsOld
    <3> QED BY <3>2, <3>3, <3>6, <3>7
  <2>2. CASE ~(Len(memory) >= maxEntries)
    <3>1. kept = memory
      BY <2>2
    <3>2. AllOld(memory, memory)
      BY DEF AllOld, IsOld
    <3> QED BY <1>1, <1>4, <2>2, <3>1, <3>2
  <2> QED BY <2>1, <2>2
<1> HIDE DEF kept, new
<1>6. \A i \in 1..Len(kept) : kept[i] \in EntryRecord
  BY <1>5, ElementOfSeq
<1>7. CASE \E i \in 1..Len(kept) : kept[i].key = k
  <2>1. over \in Seq(EntryRecord)
    <3>1. \A i \in 1..Len(kept) : (IF kept[i].key = k THEN new ELSE kept[i]) \in EntryRecord
      BY <1>2, <1>6
    <3> QED BY <1>5, <3>1, IsASeq
  <2>2. DOMAIN over = 1..Len(kept)
    OBVIOUS
  <2>3. Len(over) \in Nat /\ DOMAIN over = 1..Len(over)
    BY <2>1, LenProperties
  <2>4. Len(over) = Len(kept)
    <3> HIDE DEF over
    <3> QED BY <1>5, <2>2, <2>3
  <2>5. \A i \in 1..Len(kept) : over[i] = IF kept[i].key = k THEN new ELSE kept[i]
    OBVIOUS
  <2>6. memorySet(k, s) = over
    BY <1>3, <1>7
  <2> HIDE DEF over
  <2>7. \A i \in 1..Len(kept) : over[i].key = kept[i].key
    BY <1>2, <2>5
  <2>8. KeysOnce(over)
    BY <1>5, <2>4, <2>7 DEF KeysOnce
  <2>9. \A i \in 1..Len(over) : \/ over[i].key = k /\ over[i].stamp = s
                                \/ over[i].key # k /\ IsOld(over[i], memory)
    BY <1>2, <1>5, <2>4, <2>5 DEF AllOld
  <2>10. Len(over) <= maxEntries
    BY <1>1, <1>5, <2>4
  <2> QED BY <2>1, <2>6, <2>8, <2>9, <2>10 DEF GoodMemory
<1>8. CASE ~\E i \in 1..Len(kept) : kept[i].key = k
  <2>1. /\ after \in Seq(EntryRecord) /\ Len(after) = Len(kept) + 1
        /\ \A i \in 1..(Len(kept) + 1) : after[i] = IF i <= Len(kept) THEN kept[i] ELSE new
    BY <1>2, <1>5, AppendProperties
  <2>2. memorySet(k, s) = after
    BY <1>3, <1>8
  <2> HIDE DEF after
  <2>3. \A i \in 1..Len(after) : \/ i \in 1..Len(kept) /\ after[i] = kept[i]
                                 \/ i = Len(kept) + 1 /\ after[i] = new
    BY <1>5, <2>1
  <2>4. KeysOnce(after)
    BY <1>2, <1>5, <1>8, <2>3 DEF KeysOnce
  <2>5. \A i \in 1..Len(after) : \/ after[i].key = k /\ after[i].stamp = s
                                 \/ after[i].key # k /\ IsOld(after[i], memory)
    BY <1>2, <1>5, <1>8, <2>3 DEF AllOld
  <2>6. Len(after) <= maxEntries
    BY <1>1, <1>5, <2>1
  <2> QED BY <2>1, <2>2, <2>4, <2>5, <2>6 DEF GoodMemory
<1> QED BY <1>7, <1>8

\* An entry that expires keeps its key and its stamp.
LEMMA MemoryExpires ==
  ASSUME NEW k \in CacheKeys, GoodMemory(memory)
  PROVE  LET x == [i \in 1..Len(memory) |->
                     IF memory[i].key = k THEN [memory[i] EXCEPT !.expired = TRUE] ELSE memory[i]]
         IN  GoodMemory(x) /\ AllOld(x, memory)
<1> DEFINE x == [i \in 1..Len(memory) |->
                   IF memory[i].key = k THEN [memory[i] EXCEPT !.expired = TRUE] ELSE memory[i]]
<1>1. memory \in Seq(EntryRecord) /\ Len(memory) \in Nat
  BY LenProperties DEF GoodMemory
<1>2. \A i \in 1..Len(memory) : memory[i] \in EntryRecord
  BY <1>1, ElementOfSeq
<1>3. \A i \in 1..Len(memory) :
        x[i] \in EntryRecord /\ x[i].key = memory[i].key /\ x[i].stamp = memory[i].stamp
  BY <1>2 DEF EntryRecord
<1>4. x \in Seq(EntryRecord)
  <2>1. \A i \in 1..Len(memory) :
          (IF memory[i].key = k THEN [memory[i] EXCEPT !.expired = TRUE] ELSE memory[i]) \in EntryRecord
    BY <1>3
  <2> QED BY <1>1, <2>1, IsASeq
<1>5. DOMAIN x = 1..Len(memory)
  OBVIOUS
<1>6. Len(x) \in Nat /\ DOMAIN x = 1..Len(x)
  BY <1>4, LenProperties
<1> HIDE DEF x
<1>7. Len(x) = Len(memory)
  BY <1>1, <1>5, <1>6
<1>8. KeysOnce(x) /\ AllOld(x, memory)
  BY <1>3, <1>7 DEF GoodMemory, KeysOnce, AllOld, IsOld
<1>9. GoodMemory(x) /\ AllOld(x, memory)
  BY <1>4, <1>7, <1>8 DEF GoodMemory
<1> QED BY <1>9 DEF x

\* How call c may change: it goes on with the stamp it has, or takes the next of its key.
GoesOn(c) ==
  /\ call'[c].stamp = call[c].stamp /\ UNCHANGED <<stamps, raced>>
  /\ call[c].stamp # 0 => call'[c].key = call[c].key
  /\ Writing(c)' => Writing(c)
TakesStamp(c) ==
  /\ call[c].stamp = 0 /\ call'[c].stamp = stamps[call'[c].key] + 1
  /\ Stamp(c, call'[c].key)
CallMoves(c) ==
  /\ call' = [call EXCEPT ![c] = call'[c]]
  /\ call'[c] \in CallRecord /\ call'[c].pc # "idle"
  /\ call'[c].stamp # 0 <=> call'[c].op \in {"set", "delete"}
  /\ call'[c].pc = "load" => call'[c].stamp # 0
  /\ GoesOn(c) \/ TakesStamp(c)

\* What the types say, one fact at a time.
LEMMA CacheFacts ==
  ASSUME CacheInv
  PROVE  /\ GoodMemory(memory) /\ redis \in [CacheKeys -> Nat] /\ stamps \in [CacheKeys -> Nat]
         /\ settled \in [CacheKeys -> Nat] /\ call \in [CacheCalls -> CallRecord]
         /\ raced \subseteq CacheKeys
         /\ \A k \in CacheKeys : redis[k] \in Nat /\ stamps[k] \in Nat /\ settled[k] \in Nat
         /\ \A c \in CacheCalls :
              /\ call[c] \in CallRecord /\ call[c].key \in CacheKeys /\ call[c].stamp \in Nat
              /\ call[c].op \in Ops
         /\ \A i \in 1..Len(memory) :
              /\ memory[i] \in EntryRecord /\ memory[i].key \in CacheKeys
              /\ memory[i].stamp \in Nat \ {0}
<1>1. CacheTypes /\ KeysOnce(memory)
  BY DEF CacheInv
<1>2. GoodMemory(memory)
  BY <1>1 DEF CacheTypes, GoodMemory
<1>3. \A i \in 1..Len(memory) : memory[i] \in EntryRecord
  BY <1>1, ElementOfSeq DEF CacheTypes
<1>4. \A i \in 1..Len(memory) : memory[i].key \in CacheKeys /\ memory[i].stamp \in Nat \ {0}
  BY <1>3 DEF EntryRecord
<1>5. \A c \in CacheCalls : call[c] \in CallRecord
  BY <1>1 DEF CacheTypes
<1>6. \A c \in CacheCalls : call[c].key \in CacheKeys /\ call[c].stamp \in Nat /\ call[c].op \in Ops
  BY <1>5 DEF CallRecord
<1>7. \A k \in CacheKeys : redis[k] \in Nat /\ stamps[k] \in Nat /\ settled[k] \in Nat
  BY <1>1 DEF CacheTypes
<1> QED BY <1>1, <1>2, <1>3, <1>4, <1>5, <1>6, <1>7 DEF CacheTypes

\* A write that begins adds one to its key and races with the open writes of it.
LEMMA StampEffect ==
  ASSUME CacheInv, NEW c \in CacheCalls, NEW k \in CacheKeys, Stamp(c, k)
  PROVE  /\ stamps' \in [CacheKeys -> Nat] /\ stamps'[k] = stamps[k] + 1
         /\ \A j \in CacheKeys : j # k => stamps'[j] = stamps[j]
         /\ raced \subseteq raced' /\ raced' \subseteq raced \cup {k}
         /\ (\E d \in CacheCalls \ {c} : Writing(d) /\ call[d].key = k) => k \in raced'
<1>1. /\ stamps \in [CacheKeys -> Nat] /\ \A j \in CacheKeys : stamps[j] \in Nat
      /\ \A d \in CacheCalls : call[d].stamp \in Nat
  BY CacheFacts
<1>2. stamps' = [stamps EXCEPT ![k] = stamps[k] + 1]
  BY DEF Stamp
<1>3. /\ stamps' \in [CacheKeys -> Nat] /\ stamps'[k] = stamps[k] + 1
      /\ \A j \in CacheKeys : j # k => stamps'[j] = stamps[j]
  BY <1>1, <1>2
<1>4. \A d \in CacheCalls : Writing(d) <=> CacheOpen(d) /\ call[d].stamp > 0
  <2>1. \A n \in Nat : n # 0 <=> n > 0
    OBVIOUS
  <2> QED BY <1>1, <2>1 DEF Writing
<1>5. raced' = IF \E d \in CacheCalls \ {c} : CacheOpen(d) /\ call[d].key = k /\ call[d].stamp > 0
               THEN raced \cup {k} ELSE raced
  BY DEF Stamp
<1> QED BY <1>3, <1>4, <1>5

\* The part of the invariant that is about calls and stamps.
StampInv ==
  /\ call \in [CacheCalls -> CallRecord] /\ stamps \in [CacheKeys -> Nat]
  /\ raced \subseteq CacheKeys /\ StampsOfWrites /\ StampsCounted /\ OneWriter

\* However a call moves, the stamps stay counted and the open writes in order.
LEMMA CallMoveKeepsStamps ==
  ASSUME CacheInv, NEW c \in CacheCalls, CallMoves(c)
  PROVE  /\ StampInv' /\ raced \subseteq raced'
         /\ \A k \in CacheKeys : stamps'[k] >= stamps[k]
         /\ \A d \in CacheCalls \ {c} : call'[d] = call[d] /\ (Writing(d)' <=> Writing(d))
<1> DEFINE n == call'[c]
<1>0. PICK k \in CacheKeys : k = n.key
  BY DEF CallMoves, CallRecord
<1>1. /\ call \in [CacheCalls -> CallRecord] /\ stamps \in [CacheKeys -> Nat]
      /\ raced \subseteq CacheKeys /\ \A j \in CacheKeys : stamps[j] \in Nat
      /\ \A d \in CacheCalls : call[d].key \in CacheKeys /\ call[d].stamp \in Nat
  BY CacheFacts
<1>2. StampsOfWrites /\ StampsCounted /\ OneWriter
  BY DEF CacheInv
<1>3. /\ n \in CallRecord /\ n.pc # "idle" /\ k = n.key /\ n.stamp \in Nat
      /\ n.stamp # 0 <=> n.op \in {"set", "delete"}
      /\ n.pc = "load" => n.stamp # 0
  BY <1>0 DEF CallMoves, CallRecord
<1>4. \A d \in CacheCalls : d # c => call'[d] = call[d]
  BY <1>1 DEF CallMoves
<1>5. call' \in [CacheCalls -> CallRecord]
  <2>1. call' = [call EXCEPT ![c] = n]
    BY DEF CallMoves
  <2> HIDE DEF n
  <2> QED BY <1>1, <1>3, <2>1
<1>6. StampsOfWrites'
  <2> SUFFICES ASSUME NEW d \in CacheCalls
               PROVE  /\ call'[d].stamp # 0 <=> call'[d].op \in {"set", "delete"}
                      /\ call'[d].pc = "idle" => call'[d].stamp = 0
                      /\ call'[d].pc = "load" => call'[d].stamp # 0
    BY DEF StampsOfWrites
  <2>1. CASE d = c
    BY <1>3, <2>1
  <2>2. CASE d # c
    BY <1>2, <1>4, <2>2 DEF StampsOfWrites
  <2> QED BY <2>1, <2>2
<1>7. \A d \in CacheCalls : d # c => (Writing(d)' <=> Writing(d))
  BY <1>4 DEF Writing, CacheOpen
<1>8. CASE GoesOn(c)
  <2>1. /\ n.stamp = call[c].stamp /\ stamps' = stamps /\ raced' = raced
        /\ call[c].stamp # 0 => k = call[c].key
        /\ Writing(c)' => Writing(c)
    BY <1>0, <1>8 DEF GoesOn
  <2>2. ASSUME NEW d \in CacheCalls PROVE /\ call'[d].stamp = call[d].stamp
                                          /\ call[d].stamp # 0 => call'[d].key = call[d].key
                                          /\ Writing(d)' => Writing(d)
    <3>1. CASE d = c
      BY <1>0, <2>1, <3>1
    <3>2. CASE d # c
      BY <1>4, <1>7, <3>2
    <3> QED BY <3>1, <3>2
  <2>3. \A j \in CacheKeys : Stamped(j)' = Stamped(j)
    BY <2>2 DEF Stamped
  <2>4. ASSUME NEW d \in CacheCalls PROVE call'[d].stamp <= stamps'[call'[d].key]
    <3>1. CASE call[d].stamp = 0
      <4>1. call'[d].key \in CacheKeys
        BY <1>5 DEF CallRecord
      <4>2. stamps'[call'[d].key] \in Nat /\ call'[d].stamp = 0
        BY <1>1, <2>1, <2>2, <3>1, <4>1
      <4> QED BY <4>2
    <3>2. CASE call[d].stamp # 0
      <4>1. call[d].stamp <= stamps[call[d].key]
        BY <1>2 DEF StampsCounted
      <4>2. /\ call'[d].stamp = call[d].stamp /\ call'[d].key = call[d].key
            /\ stamps'[call'[d].key] = stamps[call[d].key]
        BY <2>1, <2>2, <3>2
      <4> QED BY <4>1, <4>2
    <3> QED BY <3>1, <3>2
  <2>5. StampsCounted'
    BY <1>2, <2>1, <2>3, <2>4 DEF StampsCounted
  <2>6. \A d \in CacheCalls : Writing(d)' => /\ Writing(d) /\ call'[d].key = call[d].key
                                             /\ call'[d].stamp = call[d].stamp
    BY <2>2 DEF Writing
  <2>7. OneWriter'
    BY <1>2, <2>1, <2>6 DEF OneWriter
  <2>8. \A j \in CacheKeys : stamps'[j] >= stamps[j]
    BY <1>1, <2>1
  <2> QED BY <1>1, <1>4, <1>5, <1>6, <1>7, <2>1, <2>5, <2>7, <2>8 DEF StampInv
<1>9. CASE TakesStamp(c)
  <2>1. call[c].stamp = 0 /\ n.stamp = stamps[k] + 1 /\ Stamp(c, k)
    BY <1>0, <1>9 DEF TakesStamp
  <2>2. /\ stamps' \in [CacheKeys -> Nat] /\ stamps'[k] = stamps[k] + 1
        /\ \A j \in CacheKeys : j # k => stamps'[j] = stamps[j]
        /\ raced \subseteq raced' /\ raced' \subseteq raced \cup {k}
        /\ (\E d \in CacheCalls \ {c} : Writing(d) /\ call[d].key = k) => k \in raced'
    BY <1>3, <2>1, StampEffect
  <2>3. n.stamp # 0 /\ call'[c].key = k /\ call'[c].stamp = stamps'[k]
    BY <1>1, <1>3, <2>1, <2>2
  <2>4. Stamped(k)' = Stamped(k) \cup {c} /\ c \notin Stamped(k)
    BY <1>4, <2>1, <2>3 DEF Stamped
  <2>5. \A j \in CacheKeys : j # k => Stamped(j)' = Stamped(j)
    BY <1>4, <2>1, <2>3 DEF Stamped
  <2>6. IsFiniteSet(Stamped(k))
    BY CacheAssumption, FS_Subset DEF Stamped
  <2>7. Cardinality(Stamped(k)') = Cardinality(Stamped(k)) + 1
    BY <2>4, <2>6, FS_AddElement
  <2>8. \A j \in CacheKeys : stamps'[j] = Cardinality(Stamped(j)')
    BY <1>2, <1>3, <2>2, <2>5, <2>7 DEF StampsCounted
  <2>9. \A j \in CacheKeys : stamps'[j] >= stamps[j]
    BY <1>1, <2>2
  <2>10. ASSUME NEW d \in CacheCalls PROVE call'[d].stamp <= stamps'[call'[d].key]
    <3>1. CASE d = c
      BY <1>3, <2>2, <2>3, <3>1
    <3>2. CASE d # c
      <4>1. call'[d] = call[d] /\ call[d].stamp <= stamps[call[d].key] /\ call[d].key \in CacheKeys
        BY <1>1, <1>2, <1>4, <3>2 DEF StampsCounted
      <4> QED BY <1>1, <2>2, <2>9, <4>1
    <3> QED BY <3>1, <3>2
  <2>11. StampsCounted'
    BY <2>8, <2>10 DEF StampsCounted
  <2>12. \A d \in CacheCalls : Writing(d)' /\ d # c /\ call'[d].key = k => k \in raced'
    BY <1>4, <1>7, <2>2
  <2>13. ASSUME NEW d \in CacheCalls, NEW e \in CacheCalls, Writing(d)', Writing(e)',
                call'[d].key = call'[e].key, d # e
         PROVE  call'[d].key \in raced'
    <3>1. CASE d = c \/ e = c
      BY <2>3, <2>12, <2>13, <3>1
    <3>2. CASE d # c /\ e # c
      BY <1>2, <1>4, <1>7, <2>2, <2>13, <3>2 DEF OneWriter
    <3> QED BY <3>1, <3>2
  <2>14. ASSUME NEW d \in CacheCalls, Writing(d)'
         PROVE  call'[d].stamp = stamps'[call'[d].key] \/ call'[d].key \in raced'
    <3>1. CASE d = c
      BY <2>3, <3>1
    <3>2. CASE d # c /\ call'[d].key = k
      BY <2>12, <2>14, <3>2
    <3>3. CASE d # c /\ call'[d].key # k
      <4>1. /\ Writing(d) /\ call'[d] = call[d] /\ call[d].key \in CacheKeys
            /\ call[d].stamp = stamps[call[d].key] \/ call[d].key \in raced
        BY <1>1, <1>2, <1>4, <1>7, <2>14, <3>3 DEF OneWriter
      <4> QED BY <2>2, <3>3, <4>1
    <3> QED BY <3>1, <3>2, <3>3
  <2>15. OneWriter'
    BY <2>13, <2>14 DEF OneWriter
  <2>16. raced' \subseteq CacheKeys
    BY <1>1, <1>3, <2>2
  <2> QED BY <1>4, <1>5, <1>6, <1>7, <2>2, <2>9, <2>11, <2>15, <2>16 DEF StampInv
<1> QED BY <1>8, <1>9 DEF CallMoves

\* The backends after a step of a call with stamp s for key k: the flag is down only
\* where it was down and the memory has gained nothing; a backend has gained at most
\* the stamp, and the memory only while no other write of the key is open; and the
\* write that returns leaves no older value of its key behind.
BackendsFollow(c, k, s) ==
  /\ ~late' => ~late
  /\ ~late' /\ ~redisUnavailable' => ~redisUnavailable /\ AllOld(memory', memory)
  /\ \A i \in 1..Len(memory') :
       \/ IsOld(memory'[i], memory)
       \/ /\ memory'[i].key = k /\ memory'[i].stamp = s
          /\ \A d \in CacheCalls \ {c} : Writing(d) /\ call[d].key = k => k \in raced'
  /\ \A j \in CacheKeys :
       \/ redis'[j] = redis[j] \/ redis'[j] = 0
       \/ j = k /\ redis'[j] = s
  /\ \A j \in CacheKeys : settled'[j] = settled[j] \/ (j = k /\ settled'[j] = s)
  /\ \A j \in CacheKeys :
       \/ /\ settled'[j] = settled[j] /\ (redisUnavailable' \/ redis'[j] \in {redis[j], 0})
          /\ \A i \in 1..Len(memory') : memory'[i].key = j => IsOld(memory'[i], memory)
       \/ j \in raced'
       \/ /\ ~redisUnavailable' => redis'[j] = 0 \/ redis'[j] >= settled'[j]
          /\ ~late' => \A i \in 1..Len(memory') :
               memory'[i].key = j => memory'[i].stamp >= settled'[j]

\* The part of the invariant that is about what the backends hold.
BackendTypes ==
  /\ GoodMemory(memory) /\ redis \in [CacheKeys -> Nat] /\ settled \in [CacheKeys -> Nat]
  /\ CacheFlags

\* Backends that follow the step keep to the invariant.
LEMMA BackendsStayFresh ==
  ASSUME CacheInv, BackendTypes', NEW c, NEW k \in CacheKeys, NEW s \in Nat,
         BackendsFollow(c, k, s), StampInv', s <= stamps'[k], raced \subseteq raced',
         \A j \in CacheKeys : stamps'[j] >= stamps[j],
         \A d \in CacheCalls \ {c} : call'[d] = call[d] /\ (Writing(d)' <=> Writing(d)),
         c \in CacheCalls /\ ~late' /\ Writing(c)' /\ call'[c].pc \in {"connect", "command"} =>
           call'[c].key \in raced' \/ Without(memory', call'[c].key)
  PROVE  CacheInv'
<1>1. /\ \A j \in CacheKeys : redis[j] \in Nat /\ stamps[j] \in Nat /\ settled[j] \in Nat
      /\ \A i \in 1..Len(memory) : memory[i].key \in CacheKeys /\ memory[i].stamp \in Nat \ {0}
      /\ \A d \in CacheCalls : call[d].key \in CacheKeys
  BY CacheFacts
<1>2. /\ \A j \in CacheKeys : redis'[j] \in Nat /\ settled'[j] \in Nat /\ stamps'[j] \in Nat
      /\ memory' \in Seq(EntryRecord)
  BY DEF BackendTypes, GoodMemory, StampInv
<1>3. \A i \in 1..Len(memory') : memory'[i].key \in CacheKeys /\ memory'[i].stamp \in Nat \ {0}
  <2>1. \A i \in 1..Len(memory') : memory'[i] \in EntryRecord
    BY <1>2, ElementOfSeq
  <2> QED BY <2>1 DEF EntryRecord
<1>4. ASSUME NEW i \in 1..Len(memory'), IsOld(memory'[i], memory)
      PROVE  \E h \in 1..Len(memory) : /\ memory[h].key = memory'[i].key
                                       /\ memory[h].stamp = memory'[i].stamp
  BY <1>4 DEF IsOld
<1>5. StampsTaken'
  <2>1. StampsTaken
    BY DEF CacheInv
  <2>2. ASSUME NEW j \in CacheKeys PROVE redis'[j] <= stamps'[j]
    <3>1. redis[j] <= stamps[j] /\ stamps'[j] >= stamps[j]
      BY <2>1 DEF StampsTaken
    <3>2. redis'[j] = redis[j] \/ redis'[j] = 0 \/ (j = k /\ redis'[j] = s)
      BY DEF BackendsFollow
    <3> QED BY <1>1, <1>2, <3>1, <3>2
  <2>3. ASSUME NEW j \in CacheKeys PROVE settled'[j] <= stamps'[j]
    <3>1. settled[j] <= stamps[j] /\ stamps'[j] >= stamps[j]
      BY <2>1 DEF StampsTaken
    <3>2. settled'[j] = settled[j] \/ (j = k /\ settled'[j] = s)
      BY DEF BackendsFollow
    <3> QED BY <1>1, <1>2, <3>1, <3>2
  <2>4. ASSUME NEW i \in 1..Len(memory') PROVE memory'[i].stamp <= stamps'[memory'[i].key]
    <3>1. CASE IsOld(memory'[i], memory)
      <4>1. PICK h \in 1..Len(memory) : /\ memory[h].key = memory'[i].key
                                        /\ memory[h].stamp = memory'[i].stamp
        BY <1>4, <3>1
      <4>2. memory[h].stamp <= stamps[memory[h].key] /\ memory[h].key \in CacheKeys
        BY <1>1, <2>1 DEF StampsTaken
      <4>3. stamps'[memory[h].key] >= stamps[memory[h].key]
        BY <4>2
      <4>4. memory[h].stamp \in Nat /\ stamps'[memory[h].key] \in Nat /\ stamps[memory[h].key] \in Nat
        BY <1>1, <1>2, <4>2
      <4>5. memory[h].stamp <= stamps'[memory[h].key]
        BY <4>2, <4>3, <4>4
      <4> QED BY <4>1, <4>5
    <3>2. CASE memory'[i].key = k /\ memory'[i].stamp = s
      BY <3>2
    <3> QED BY <3>1, <3>2 DEF BackendsFollow
  <2> QED BY <2>2, <2>3, <2>4 DEF StampsTaken
<1>6. MemoryIdle'
  <2> SUFFICES ASSUME ~late', ~redisUnavailable' PROVE memory' = <<>>
    BY DEF MemoryIdle
  <2>1. ~late /\ ~redisUnavailable /\ AllOld(memory', memory)
    BY DEF BackendsFollow
  <2>2. memory = <<>>
    BY <2>1 DEF CacheInv, MemoryIdle
  <2>3. Len(memory) = 0
    BY <2>2
  <2>4. Len(memory') = 0
    <3>1. Len(memory') \in Nat
      BY <1>2, LenProperties
    <3>2. \A i \in 1..Len(memory') : FALSE
      BY <2>1, <2>3 DEF AllOld, IsOld
    <3> QED BY <3>1, <3>2
  <2> QED BY <1>2, <2>4, EmptySeq
<1>7. RedisFresh'
  <2> SUFFICES ASSUME ~late', ~redisUnavailable', NEW j \in CacheKeys, j \notin raced'
               PROVE  redis'[j] = 0 \/ redis'[j] >= settled'[j]
    BY DEF RedisFresh
  <2>1. ~late /\ ~redisUnavailable /\ j \notin raced
    BY DEF BackendsFollow
  <2>2. redis[j] = 0 \/ redis[j] >= settled[j]
    BY <2>1 DEF CacheInv, RedisFresh
  <2>3. \/ settled'[j] = settled[j] /\ redis'[j] \in {redis[j], 0}
        \/ redis'[j] = 0 \/ redis'[j] >= settled'[j]
    BY DEF BackendsFollow
  <2> QED BY <2>2, <2>3
<1>8. MemoryFresh'
  <2> SUFFICES ASSUME ~late', NEW i \in 1..Len(memory'), memory'[i].key \notin raced'
               PROVE  memory'[i].stamp >= settled'[memory'[i].key]
    BY DEF MemoryFresh
  <2>1. ~late /\ memory'[i].key \notin raced
    BY DEF BackendsFollow
  <2>2. PICK j \in CacheKeys : j = memory'[i].key
    BY <1>3
  <2>3. \/ settled'[j] = settled[j] /\ IsOld(memory'[i], memory)
        \/ memory'[i].stamp >= settled'[j]
    BY <2>2 DEF BackendsFollow
  <2>4. CASE settled'[j] = settled[j] /\ IsOld(memory'[i], memory)
    <3>1. PICK h \in 1..Len(memory) : /\ memory[h].key = memory'[i].key
                                      /\ memory[h].stamp = memory'[i].stamp
      BY <1>4, <2>4
    <3>2. memory[h].stamp >= settled[memory[h].key]
      BY <2>1, <3>1 DEF CacheInv, MemoryFresh
    <3> QED BY <2>2, <2>4, <3>1, <3>2
  <2> QED BY <2>2, <2>3, <2>4
<1>9. Uncached'
  <2> SUFFICES ASSUME ~late', NEW d \in CacheCalls, Writing(d)',
                      call'[d].pc \in {"connect", "command"}, call'[d].key \notin raced',
                      NEW i \in 1..Len(memory'), memory'[i].key = call'[d].key
               PROVE  FALSE
    BY DEF Uncached
  <2>1. CASE d = c
    BY <2>1 DEF Without
  <2>2. CASE d # c
    <3>1. /\ call'[d] = call[d] /\ Writing(d) /\ call[d].pc \in {"connect", "command"}
          /\ call[d].key \notin raced /\ call[d].key \notin raced' /\ memory'[i].key = call[d].key
      BY <2>2
    <3>2. ~late
      BY DEF BackendsFollow
    <3>3. \A h \in 1..Len(memory) : memory[h].key # call[d].key
      BY <3>1, <3>2 DEF CacheInv, Uncached
    <3>4. CASE IsOld(memory'[i], memory)
      BY <1>4, <3>1, <3>3, <3>4
    <3>5. CASE memory'[i].key = k /\ \A e \in CacheCalls \ {c} : Writing(e) /\ call[e].key = k => k \in raced'
      BY <2>2, <3>1, <3>5
    <3> QED BY <3>4, <3>5 DEF BackendsFollow
  <2> QED BY <2>1, <2>2
<1>10. CacheTypes' /\ KeysOnce(memory)' /\ CacheFlags'
  BY DEF BackendTypes, GoodMemory, StampInv, CacheTypes
<1> QED BY <1>5, <1>6, <1>7, <1>8, <1>9, <1>10 DEF CacheInv, StampInv

\* One call moves, and the backends follow.
LEMMA CallAndBackends ==
  ASSUME CacheInv, NEW c \in CacheCalls, CallMoves(c), BackendTypes',
         NEW k \in CacheKeys, NEW s \in Nat, call'[c].key = k, call'[c].stamp = s,
         BackendsFollow(c, k, s),
         ~late' /\ Writing(c)' /\ call'[c].pc \in {"connect", "command"} =>
           k \in raced' \/ Without(memory', k)
  PROVE  CacheInv'
<1>1. /\ StampInv' /\ raced \subseteq raced'
      /\ \A j \in CacheKeys : stamps'[j] >= stamps[j]
      /\ \A d \in CacheCalls \ {c} : call'[d] = call[d] /\ (Writing(d)' <=> Writing(d))
  BY CallMoveKeepsStamps
<1>2. s <= stamps'[k]
  BY <1>1 DEF StampInv, StampsCounted
<1> QED BY <1>1, <1>2, BackendsStayFresh

\* The backends gain nothing.
LEMMA QuietBackends ==
  ASSUME CacheInv, NEW c, NEW k \in CacheKeys, NEW s \in Nat,
         GoodMemory(memory'), AllOld(memory', memory), CacheFlags',
         redis' \in [CacheKeys -> Nat],
         \A j \in CacheKeys : \/ redis'[j] \in {redis[j], 0}
                              \/ j = k /\ redis'[j] = s /\ redisUnavailable',
         UNCHANGED settled, ~late' => ~late /\ (redisUnavailable => redisUnavailable')
  PROVE  BackendTypes' /\ BackendsFollow(c, k, s)
<1>1. \A i \in 1..Len(memory') : IsOld(memory'[i], memory)
  BY DEF AllOld
<1>2. BackendTypes'
  BY CacheFacts DEF BackendTypes
<1>3. BackendsFollow(c, k, s)
  BY <1>1 DEF BackendsFollow
<1> QED BY <1>2, <1>3

\* settled grows to the stamp of the write that returns.
LEMMA SettleEffect ==
  ASSUME CacheInv, NEW r, NEW k \in CacheKeys, NEW s \in Nat, r.key = k, r.stamp = s, Settle(r)
  PROVE  /\ settled' \in [CacheKeys -> Nat] /\ \A j \in CacheKeys : j # k => settled'[j] = settled[j]
         /\ settled'[k] \in {settled[k], s} /\ (s >= settled[k] => settled'[k] = s)
<1>1. settled \in [CacheKeys -> Nat] /\ settled[k] \in Nat
  BY CacheFacts
<1> DEFINE v == IF s > settled[k] THEN s ELSE settled[k]
<1>2. settled' = [settled EXCEPT ![k] = v]
  BY DEF Settle
<1>3. v \in Nat /\ v \in {settled[k], s} /\ (s >= settled[k] => v = s)
  BY <1>1
<1> HIDE DEF v
<1> QED BY <1>1, <1>2, <1>3

\* The write of a key that no other overlaps is the newest there is.
LEMMA NewestWrite ==
  ASSUME CacheInv, NEW c \in CacheCalls, Writing(c)
  PROVE  call[c].key \in raced \/ call[c].stamp >= settled[call[c].key]
<1>1. call[c].key \in CacheKeys /\ \A j \in CacheKeys : stamps[j] \in Nat /\ settled[j] \in Nat
  BY CacheFacts
<1>2. call[c].stamp = stamps[call[c].key] \/ call[c].key \in raced
  BY DEF CacheInv, OneWriter
<1>3. settled[call[c].key] <= stamps[call[c].key]
  BY <1>1 DEF CacheInv, StampsTaken
<1> QED BY <1>1, <1>2, <1>3

\* A write returns and the memory has gained nothing: no older value of its key is left.
LEMMA ReturnsWithout ==
  ASSUME CacheInv, NEW c \in CacheCalls, NEW k \in CacheKeys, NEW s \in Nat,
         NEW r, r.key = k, r.stamp = s, Settle(r), CacheFlags',
         GoodMemory(memory'), AllOld(memory', memory), late' = late,
         redisUnavailable => redisUnavailable',
         redis' \in [CacheKeys -> Nat], \A j \in CacheKeys : j # k => redis'[j] = redis[j],
         redis'[k] \in {0, s} \/ (redis'[k] = redis[k] /\ redisUnavailable'),
         k \in raced' \/ s >= settled[k], k \in raced' \/ late' \/ Without(memory', k)
  PROVE  BackendTypes' /\ BackendsFollow(c, k, s)
<1>1. \A i \in 1..Len(memory') : IsOld(memory'[i], memory)
  BY DEF AllOld
<1>2. /\ settled' \in [CacheKeys -> Nat] /\ \A j \in CacheKeys : j # k => settled'[j] = settled[j]
      /\ settled'[k] \in {settled[k], s} /\ (s >= settled[k] => settled'[k] = s)
  BY SettleEffect
<1>3. BackendTypes'
  BY <1>2 DEF BackendTypes
<1>4. ASSUME NEW j \in CacheKeys
      PROVE  \/ /\ settled'[j] = settled[j] /\ (redisUnavailable' \/ redis'[j] \in {redis[j], 0})
                /\ \A i \in 1..Len(memory') : memory'[i].key = j => IsOld(memory'[i], memory)
             \/ j \in raced'
             \/ /\ ~redisUnavailable' => redis'[j] = 0 \/ redis'[j] >= settled'[j]
                /\ ~late' => \A i \in 1..Len(memory') :
                     memory'[i].key = j => memory'[i].stamp >= settled'[j]
  <2>1. CASE j # k
    BY <1>1, <1>2, <2>1
  <2>2. CASE j = k /\ j \notin raced'
    <3>1. settled'[j] = s /\ (late' \/ Without(memory', j))
      BY <1>2, <2>2
    <3>2. ~redisUnavailable' => redis'[j] \in {0, s}
      BY <2>2
    <3>3. s >= s
      OBVIOUS
    <3> QED BY <3>1, <3>2, <3>3 DEF Without
  <2> QED BY <2>1, <2>2
<1>5. \A j \in CacheKeys : settled'[j] = settled[j] \/ (j = k /\ settled'[j] = s)
  BY <1>2
<1>6. \A j \in CacheKeys : redis'[j] = redis[j] \/ redis'[j] = 0 \/ (j = k /\ redis'[j] = s)
  OBVIOUS
<1> QED BY <1>1, <1>3, <1>4, <1>5, <1>6 DEF BackendsFollow

\* A set() returns that wrote the memory, with the flag up.
LEMMA ReturnsFromMemory ==
  ASSUME CacheInv, NEW c \in CacheCalls, NEW k \in CacheKeys, NEW s \in Nat \ {0},
         NEW r, r.key = k, r.stamp = s, Settle(r), CacheFlags',
         memory' = memorySet(k, s), late' = late, redisUnavailable' = TRUE,
         redis' \in [CacheKeys -> Nat], \A j \in CacheKeys : j # k => redis'[j] = redis[j],
         redis'[k] \in {redis[k], 0, s}, k \in raced' \/ s >= settled[k],
         \A d \in CacheCalls \ {c} : Writing(d) /\ call[d].key = k => k \in raced'
  PROVE  BackendTypes' /\ BackendsFollow(c, k, s)
<1>1. GoodMemory(memory)
  BY CacheFacts
<1>2. /\ GoodMemory(memory')
      /\ \A i \in 1..Len(memory') : \/ memory'[i].key = k /\ memory'[i].stamp = s
                                    \/ memory'[i].key # k /\ IsOld(memory'[i], memory)
  BY <1>1, MemorySets
<1>3. /\ settled' \in [CacheKeys -> Nat] /\ \A j \in CacheKeys : j # k => settled'[j] = settled[j]
      /\ settled'[k] \in {settled[k], s} /\ (s >= settled[k] => settled'[k] = s)
  BY SettleEffect
<1>4. BackendTypes'
  BY <1>2, <1>3 DEF BackendTypes
<1>5. ASSUME NEW j \in CacheKeys
      PROVE  \/ /\ settled'[j] = settled[j] /\ (redisUnavailable' \/ redis'[j] \in {redis[j], 0})
                /\ \A i \in 1..Len(memory') : memory'[i].key = j => IsOld(memory'[i], memory)
             \/ j \in raced'
             \/ /\ ~redisUnavailable' => redis'[j] = 0 \/ redis'[j] >= settled'[j]
                /\ ~late' => \A i \in 1..Len(memory') :
                     memory'[i].key = j => memory'[i].stamp >= settled'[j]
  <2>1. CASE j # k
    BY <1>2, <1>3, <2>1
  <2>2. CASE j = k /\ j \notin raced'
    <3>1. settled'[j] = s
      BY <1>3, <2>2
    <3>2. s >= s
      OBVIOUS
    <3> QED BY <1>2, <2>2, <3>1, <3>2
  <2> QED BY <2>1, <2>2
<1>6. \A j \in CacheKeys : settled'[j] = settled[j] \/ (j = k /\ settled'[j] = s)
  BY <1>3
<1>7. \A j \in CacheKeys : redis'[j] = redis[j] \/ redis'[j] = 0 \/ (j = k /\ redis'[j] = s)
  OBVIOUS
<1> QED BY <1>2, <1>4, <1>5, <1>6, <1>7 DEF BackendsFollow

CallPlaces == {"connect", "command", "load", "done", "threw"}

\* Only the program counter of the record changes.
LEMMA BecomesEffect ==
  ASSUME CacheInv, NEW c \in CacheCalls, NEW r \in CallRecord, NEW p \in CallPlaces,
         Becomes(c, r, p)
  PROVE  /\ call' = [call EXCEPT ![c] = call'[c]] /\ call'[c] \in CallRecord
         /\ call'[c].pc = p /\ call'[c].op = r.op /\ call'[c].key = r.key
         /\ call'[c].stamp = r.stamp
<1> DEFINE n == [r EXCEPT !.pc = p]
<1>1. n \in CallRecord /\ n.pc = p /\ n.op = r.op /\ n.key = r.key /\ n.stamp = r.stamp
  BY DEF CallRecord, CallPlaces
<1>2. call' = [call EXCEPT ![c] = n]
  BY DEF Becomes
<1> HIDE DEF n
<1>3. call'[c] = n
  BY <1>2, CacheFacts
<1> QED BY <1>1, <1>2, <1>3

\* A call goes on with its own record, or one that does not write begins.
LEMMA GoesOnWith ==
  ASSUME CacheInv, NEW c \in CacheCalls, NEW r \in CallRecord, NEW p \in CallPlaces,
         Becomes(c, r, p), p # "load", UNCHANGED <<stamps, raced>>,
         \/ r = call[c] /\ CacheOpen(c)
         \/ call[c].stamp = 0 /\ r.stamp = 0 /\ r.op \notin {"set", "delete"}
  PROVE  CallMoves(c)
<1>1. /\ call' = [call EXCEPT ![c] = call'[c]] /\ call'[c] \in CallRecord
      /\ call'[c].pc = p /\ call'[c].op = r.op /\ call'[c].key = r.key
      /\ call'[c].stamp = r.stamp
  BY BecomesEffect
<1>2. p # "idle"
  BY DEF CallPlaces
<1>3. r.stamp # 0 <=> r.op \in {"set", "delete"}
  BY DEF CacheInv, StampsOfWrites
<1>4. GoesOn(c)
  BY <1>1 DEF GoesOn, Writing
<1> QED BY <1>1, <1>2, <1>3, <1>4 DEF CallMoves

\* A write begins.
LEMMA TakesStampWith ==
  ASSUME CacheInv, NEW c \in CacheCalls, NEW r \in CallRecord, NEW p \in CallPlaces,
         Becomes(c, r, p), Stamp(c, r.key), call[c].stamp = 0,
         r.stamp = stamps[r.key] + 1, r.op \in {"set", "delete"}
  PROVE  CallMoves(c) /\ (r.key \in raced' \/ r.stamp >= settled[r.key]) /\ r.stamp # 0
<1>1. /\ call' = [call EXCEPT ![c] = call'[c]] /\ call'[c] \in CallRecord
      /\ call'[c].pc = p /\ call'[c].op = r.op /\ call'[c].key = r.key
      /\ call'[c].stamp = r.stamp
  BY BecomesEffect
<1>2. p # "idle"
  BY DEF CallPlaces
<1>3. r.key \in CacheKeys
  BY DEF CallRecord
<1>4. stamps[r.key] \in Nat /\ settled[r.key] \in Nat /\ settled[r.key] <= stamps[r.key]
  BY <1>3, CacheFacts DEF CacheInv, StampsTaken
<1>5. r.stamp # 0 /\ r.stamp >= settled[r.key]
  BY <1>4
<1> QED BY <1>1, <1>2, <1>5 DEF CallMoves, TakesStamp

\* The record a call begins with.
LEMMA FreshRecord ==
  ASSUME CacheInv, NEW o \in Ops, NEW k \in CacheKeys
  PROVE  /\ Fresh(o, k) \in CallRecord /\ Fresh(o, k).op = o /\ Fresh(o, k).key = k
         /\ o \in {"set", "delete"} => Fresh(o, k).stamp = stamps[k] + 1
         /\ o \notin {"set", "delete"} => Fresh(o, k).stamp = 0
<1>1. stamps[k] \in Nat
  BY CacheFacts
<1>2. (IF o \in {"set", "delete"} THEN stamps[k] + 1 ELSE 0) \in Nat
  BY <1>1
<1>3. Fresh(o, k) \in CallRecord
  BY <1>2 DEF Fresh, CallRecord
<1> QED BY <1>3 DEF Fresh

\* What a get() or the first half of a getOrSet() answers: the call moves, away from Redis.
LEMMA AnswerMoves ==
  ASSUME CacheInv, NEW c \in CacheCalls, NEW r \in CallRecord, NEW found, Answer(c, r, found),
         r.op \in {"get", "getOrSet"}, r.stamp = 0, call[c].stamp = 0
  PROVE  /\ CallMoves(c) /\ call'[c].key = r.key /\ call'[c].stamp \in Nat
         /\ call'[c].pc \notin {"connect", "command"}
<1>1. CASE r.op = "getOrSet" /\ ~found
  <2> DEFINE w == [r EXCEPT !.op = "set", !.stamp = stamps[r.key] + 1]
  <2>1. r.key \in CacheKeys
    BY DEF CallRecord
  <2>2. stamps[r.key] + 1 \in Nat
    BY <2>1, CacheFacts
  <2>3. w \in CallRecord /\ w.op = "set" /\ w.key = r.key /\ w.stamp = stamps[r.key] + 1
    BY <2>2 DEF CallRecord, Ops
  <2>4. Becomes(c, w, "load") /\ Stamp(c, r.key)
    BY <1>1 DEF Answer
  <2> HIDE DEF w
  <2>5. "load" \in CallPlaces
    BY DEF CallPlaces
  <2>6. CallMoves(c)
    BY <2>3, <2>4, <2>5, TakesStampWith
  <2>7. call'[c].key = w.key /\ call'[c].pc = "load" /\ call'[c].stamp = w.stamp
    BY <2>3, <2>4, <2>5, BecomesEffect
  <2> QED BY <2>2, <2>3, <2>6, <2>7
<1>2. CASE ~(r.op = "getOrSet" /\ ~found)
  <2>1. Becomes(c, r, "done") /\ UNCHANGED <<stamps, raced>>
    BY <1>2 DEF Answer
  <2>2. "done" \in CallPlaces
    BY DEF CallPlaces
  <2>3. CallMoves(c)
    BY <2>1, <2>2, GoesOnWith
  <2>4. call'[c].key = r.key /\ call'[c].pc = "done" /\ call'[c].stamp = r.stamp
    BY <2>1, <2>2, BecomesEffect
  <2> QED BY <2>3, <2>4
<1> QED BY <1>1, <1>2

\* A call moves and the backends gain nothing.
LEMMA QuietMove ==
  ASSUME CacheInv, NEW c \in CacheCalls, CallMoves(c), GoodMemory(memory'), AllOld(memory', memory),
         CacheFlags', redis' \in [CacheKeys -> Nat], UNCHANGED settled,
         \A j \in CacheKeys :
           \/ redis'[j] \in {redis[j], 0}
           \/ j = call'[c].key /\ redis'[j] = call'[c].stamp /\ redisUnavailable',
         ~late' => ~late /\ (redisUnavailable => redisUnavailable'),
         ~late' /\ Writing(c)' /\ call'[c].pc \in {"connect", "command"} =>
           call'[c].key \in raced' \/ Without(memory', call'[c].key)
  PROVE  CacheInv'
<1>1. PICK k \in CacheKeys, s \in Nat : call'[c].key = k /\ call'[c].stamp = s
  BY DEF CallMoves, CallRecord
<1>2. \A j \in CacheKeys : \/ redis'[j] \in {redis[j], 0}
                           \/ j = k /\ redis'[j] = s /\ redisUnavailable'
  BY <1>1
<1>3. BackendTypes' /\ BackendsFollow(c, k, s)
  BY <1>2, QuietBackends
<1> QED BY <1>1, <1>3, CallAndBackends

\* A step that leaves Redis alone adds nothing to it.
LEMMA RedisStays ==
  ASSUME CacheInv, UNCHANGED redis
  PROVE  redis' \in [CacheKeys -> Nat] /\ \A j \in CacheKeys : redis'[j] \in {redis[j], 0}
BY CacheFacts

\* With the flag down and no late connection the memory is empty.
LEMMA EmptyMemory ==
  ASSUME CacheInv, ~late, ~redisUnavailable, NEW m, AllOld(m, memory), NEW k
  PROVE  Without(m, k)
<1>1. memory = <<>>
  BY DEF CacheInv, MemoryIdle
<1>2. Len(memory) = 0
  BY <1>1
<1> QED BY <1>2 DEF AllOld, IsOld, Without

\* A call that turns to Redis with the flag down.
LEMMA ToRedisMoves ==
  ASSUME CacheInv, NEW c \in CacheCalls, CallMoves(c), ~redisUnavailable,
         GoodMemory(memory'), AllOld(memory', memory),
         UNCHANGED <<redis, redisClient, redisUnavailable, settled, late>>
  PROVE  CacheInv'
<1>1. CacheFlags'
  BY DEF CacheInv, CacheFlags
<1>2. ~late' => Without(memory', call'[c].key)
  BY EmptyMemory
<1> QED BY <1>1, <1>2, RedisStays, QuietMove

\* The memory has no entry but its own.
LEMMA MemoryIsOld == AllOld(memory, memory)
BY DEF AllOld, IsOld

\* getRedisClient() leads to a place of a call.
LEMMA RedisPlace == (IF redisClient THEN "command" ELSE "connect") \in CallPlaces
BY DEF CallPlaces

\* A get() or getOrSet() that reads the memory, with the flag up afterwards.
LEMMA FromMemoryMoves ==
  ASSUME CacheInv, NEW c \in CacheCalls, NEW r \in CallRecord, FromMemory(c, r),
         r.op \in {"get", "getOrSet"}, r.stamp = 0, call[c].stamp = 0,
         redisUnavailable' = TRUE, UNCHANGED <<redis, redisClient, settled, late>>
  PROVE  CacheInv'
<1>1. r.key \in CacheKeys /\ GoodMemory(memory)
  BY CacheFacts DEF CallRecord
<1>2. GoodMemory(memory') /\ AllOld(memory', memory)
  BY <1>1, MemoryGets DEF FromMemory
<1>3. CallMoves(c) /\ call'[c].pc \notin {"connect", "command"}
  BY AnswerMoves DEF FromMemory
<1>4. CacheFlags'
  BY DEF CacheInv, CacheFlags
<1> QED BY <1>2, <1>3, <1>4, RedisStays, QuietMove

\* A write that returns leaves the backends in order.
LEMMA ReturnMoves ==
  ASSUME CacheInv, NEW c \in CacheCalls, NEW r \in CallRecord, Becomes(c, r, "done"), CallMoves(c),
         BackendTypes', BackendsFollow(c, r.key, r.stamp)
  PROVE  CacheInv'
<1>1. r.key \in CacheKeys /\ r.stamp \in Nat /\ "done" \in CallPlaces
  BY DEF CallRecord, CallPlaces
<1>2. call'[c].key = r.key /\ call'[c].stamp = r.stamp /\ call'[c].pc = "done"
  BY <1>1, BecomesEffect
<1> QED BY <1>1, <1>2, CallAndBackends

\* set(), and the end of getOrSet().
LEMMA WriteMoves ==
  ASSUME CacheInv, NEW c \in CacheCalls, NEW r \in CallRecord, Write(c, r), r.stamp # 0,
         \A p \in CallPlaces \ {"load"} : Becomes(c, r, p) => CallMoves(c),
         r.key \in raced' \/ r.stamp >= settled[r.key],
         \A d \in CacheCalls \ {c} : Writing(d) /\ call[d].key = r.key => r.key \in raced'
  PROVE  CacheInv'
<1>1. UNCHANGED <<redis, redisClient, redisUnavailable, late>>
  BY DEF Write
<1>2. GoodMemory(memory) /\ r.key \in CacheKeys /\ r.stamp \in Nat \ {0} /\ CacheFlags'
  BY <1>1, CacheFacts DEF CallRecord, CacheInv, CacheFlags
<1>3. CASE ~redisUnavailable
  <2> DEFINE p == IF redisClient THEN "command" ELSE "connect"
  <2>1. Becomes(c, r, p) /\ UNCHANGED <<memory, settled>>
    BY <1>3 DEF Write, ToRedis
  <2>2. p \in CallPlaces \ {"load"}
    BY DEF CallPlaces
  <2>3. CallMoves(c)
    BY <2>1, <2>2
  <2> QED BY <1>1, <1>2, <1>3, <2>1, <2>3, MemoryIsOld, ToRedisMoves
<1>4. CASE redisUnavailable
  <2>1. memory' = memorySet(r.key, r.stamp) /\ Becomes(c, r, "done") /\ Settle(r)
    BY <1>4 DEF Write
  <2>2. CallMoves(c)
    BY <2>1 DEF CallPlaces
  <2>3. /\ redis' \in [CacheKeys -> Nat] /\ redis'[r.key] \in {redis[r.key], 0, r.stamp}
        /\ \A j \in CacheKeys : j # r.key => redis'[j] = redis[j]
    BY <1>1, CacheFacts
  <2>4. redisUnavailable' = TRUE
    BY <1>1, <1>4 DEF CacheInv, CacheFlags
  <2>5. BackendTypes' /\ BackendsFollow(c, r.key, r.stamp)
    BY <1>1, <1>2, <2>1, <2>3, <2>4, ReturnsFromMemory
  <2> QED BY <2>1, <2>2, <2>5, ReturnMoves
<1> QED BY <1>3, <1>4

\* get(), and the first half of getOrSet(), keep the invariant.
LEMMA cacheGetInv ==
  ASSUME CacheInv, NEW c \in CacheCalls, NEW k \in CacheKeys, cacheGet(c, k)
  PROVE  CacheInv'
<1>1. PICK o \in {"get", "getOrSet"} :
        IF ~redisUnavailable
        THEN ToRedis(c, Fresh(o, k)) /\ UNCHANGED <<memory, stamps, raced>>
        ELSE FromMemory(c, Fresh(o, k))
  BY DEF cacheGet
<1>2. call[c].stamp = 0 /\ UNCHANGED <<redis, redisClient, redisUnavailable, settled, late>>
  BY DEF cacheGet, CacheInv, StampsOfWrites
<1> DEFINE r == Fresh(o, k)
<1>3. r \in CallRecord /\ r.op = o /\ r.key = k /\ r.stamp = 0
  BY FreshRecord DEF Ops
<1> HIDE DEF r
<1>4. CASE ~redisUnavailable
  <2> DEFINE p == IF redisClient THEN "command" ELSE "connect"
  <2>1. Becomes(c, r, p) /\ UNCHANGED <<memory, stamps, raced>>
    BY <1>1, <1>4 DEF ToRedis, r
  <2>2. p \in CallPlaces /\ p # "load"
    BY DEF CallPlaces
  <2> HIDE DEF p
  <2>3. CallMoves(c)
    BY <1>2, <1>3, <2>1, <2>2, GoesOnWith
  <2>4. GoodMemory(memory')
    BY <2>1, CacheFacts
  <2> QED BY <1>2, <1>4, <2>1, <2>3, <2>4, MemoryIsOld, ToRedisMoves
<1>5. CASE redisUnavailable
  <2>1. redisUnavailable' = TRUE
    BY <1>2, <1>5 DEF CacheInv, CacheFlags
  <2>2. FromMemory(c, r)
    BY <1>1, <1>5 DEF r
  <2> QED BY <1>2, <1>3, <2>1, <2>2, FromMemoryMoves
<1> QED BY <1>4, <1>5

\* set() keeps the invariant.
LEMMA cacheSetInv ==
  ASSUME CacheInv, NEW c \in CacheCalls, NEW k \in CacheKeys, cacheSet(c, k)
  PROVE  CacheInv'
<1>1. call[c].stamp = 0 /\ Stamp(c, k) /\ Write(c, Fresh("set", k))
  BY DEF cacheSet, CacheInv, StampsOfWrites
<1> DEFINE r == Fresh("set", k)
<1>2. r \in CallRecord /\ r.op = "set" /\ r.key = k /\ r.stamp = stamps[k] + 1
  BY FreshRecord DEF Ops
<1>3. Write(c, r)
  BY <1>1
<1> HIDE DEF r
<1>4. \A p \in CallPlaces \ {"load"} : Becomes(c, r, p) => CallMoves(c)
  BY <1>1, <1>2, TakesStampWith
<1>5. \A d \in CacheCalls \ {c} : Writing(d) /\ call[d].key = r.key => r.key \in raced'
  BY <1>1, <1>2, StampEffect
<1>6. r.stamp # 0 /\ (r.key \in raced' \/ r.stamp >= settled[r.key])
  <2>1. stamps[k] \in Nat /\ settled[k] \in Nat /\ settled[k] <= stamps[k]
    BY CacheFacts DEF CacheInv, StampsTaken
  <2> QED BY <1>2, <2>1
<1> QED BY <1>2, <1>3, <1>4, <1>5, <1>6, WriteMoves

\* The loader of getOrSet() keeps it, whether it answers or throws.
LEMMA getOrSetInv ==
  ASSUME CacheInv, NEW c \in CacheCalls, getOrSet(c)
  PROVE  CacheInv'
<1>1. /\ call[c] \in CallRecord /\ call[c].stamp # 0 /\ UNCHANGED <<stamps, raced>>
      /\ CacheOpen(c) /\ Writing(c)
  BY CacheFacts DEF getOrSet, CacheInv, StampsOfWrites, CacheOpen, Writing
<1>2. \A p \in CallPlaces \ {"load"} : Becomes(c, call[c], p) => CallMoves(c)
  BY <1>1, GoesOnWith
<1>3. CASE Write(c, call[c])
  <2>1. call[c].key \in raced' \/ call[c].stamp >= settled[call[c].key]
    BY <1>1, NewestWrite
  <2>2. \A d \in CacheCalls \ {c} : Writing(d) /\ call[d].key = call[c].key => call[c].key \in raced'
    BY <1>1 DEF CacheInv, OneWriter
  <2> QED BY <1>1, <1>2, <1>3, <2>1, <2>2, WriteMoves
<1>4. CASE /\ Becomes(c, call[c], "threw")
           /\ UNCHANGED <<memory, redis, redisClient, redisUnavailable, settled, late>>
  <2>1. "threw" \in CallPlaces \ {"load"}
    BY DEF CallPlaces
  <2>2. CallMoves(c)
    BY <1>2, <1>4, <2>1
  <2>3. call'[c].pc = "threw"
    BY <1>1, <1>4, <2>1, BecomesEffect
  <2>4. GoodMemory(memory') /\ CacheFlags' /\ AllOld(memory', memory)
    BY <1>4, CacheFacts, MemoryIsOld DEF CacheInv, CacheFlags
  <2> QED BY <1>4, <2>2, <2>3, <2>4, RedisStays, QuietMove
<1> QED BY <1>3, <1>4 DEF getOrSet

\* delete() keeps it: it empties the memory of the key first.
LEMMA cacheDeleteInv ==
  ASSUME CacheInv, NEW c \in CacheCalls, NEW k \in CacheKeys, cacheDelete(c, k)
  PROVE  CacheInv'
<1> DEFINE r == Fresh("delete", k)
<1>1. /\ call[c].stamp = 0 /\ Stamp(c, k) /\ memory' = memoryDelete(k)
      /\ IF ~redisUnavailable THEN ToRedis(c, r) /\ UNCHANGED settled
         ELSE Becomes(c, r, "done") /\ Settle(r)
      /\ UNCHANGED <<redis, redisClient, redisUnavailable, late>>
  BY DEF cacheDelete, CacheInv, StampsOfWrites
<1>2. r \in CallRecord /\ r.op = "delete" /\ r.key = k /\ r.stamp = stamps[k] + 1
  BY FreshRecord DEF Ops
<1> HIDE DEF r
<1>3. \A p \in CallPlaces : Becomes(c, r, p) => CallMoves(c)
  BY <1>1, <1>2, TakesStampWith
<1>4. GoodMemory(memory') /\ AllOld(memory', memory) /\ Without(memory', k)
  BY <1>1, CacheFacts, MemoryDeletes
<1>5. CASE ~redisUnavailable
  <2>1. CallMoves(c) /\ UNCHANGED settled
    BY <1>1, <1>3, <1>5, RedisPlace DEF ToRedis
  <2> QED BY <1>1, <1>4, <1>5, <2>1, ToRedisMoves
<1>6. CASE redisUnavailable
  <2>1. Becomes(c, r, "done") /\ Settle(r) /\ "done" \in CallPlaces
    BY <1>1, <1>6 DEF CallPlaces
  <2>2. stamps[k] \in Nat /\ settled[k] \in Nat /\ settled[k] <= stamps[k]
    BY CacheFacts DEF CacheInv, StampsTaken
  <2>3. r.stamp \in Nat /\ r.stamp >= settled[k]
    BY <1>2, <2>2
  <2>4. CacheFlags' /\ redisUnavailable'
    BY <1>1, <1>6 DEF CacheInv, CacheFlags
  <2>5. /\ redis' \in [CacheKeys -> Nat] /\ \A j \in CacheKeys : redis'[j] = redis[j]
    BY <1>1, CacheFacts
  <2>6. BackendTypes' /\ BackendsFollow(c, k, r.stamp)
    BY <1>1, <1>2, <1>4, <2>1, <2>3, <2>4, <2>5, ReturnsWithout
  <2> QED BY <1>2, <1>3, <2>1, <2>6, ReturnMoves
<1> QED BY <1>5, <1>6

\* A connection that comes up keeps it, or is marked late.
LEMMA getRedisClientInv ==
  ASSUME CacheInv, NEW c \in CacheCalls, getRedisClient(c)
  PROVE  CacheInv'
<1>1. /\ call[c].pc = "connect" /\ Becomes(c, call[c], "command")
      /\ redisClient' = TRUE /\ redisUnavailable' = FALSE /\ late' = (late \/ redisUnavailable)
      /\ UNCHANGED <<memory, redis, stamps, settled, raced>>
  BY DEF getRedisClient
<1>2. "command" \in CallPlaces /\ CacheOpen(c) /\ call[c] \in CallRecord
  BY <1>1, CacheFacts DEF CallPlaces, CacheOpen
<1>3. CallMoves(c)
  BY <1>1, <1>2, GoesOnWith
<1>4. call'[c].key = call[c].key /\ call'[c].stamp = call[c].stamp
  BY <1>1, <1>2, BecomesEffect
<1>5. CacheFlags' /\ (~late' => ~late /\ ~redisUnavailable)
  BY <1>1 DEF CacheInv, CacheFlags
<1>6. GoodMemory(memory') /\ AllOld(memory', memory)
  BY <1>1, CacheFacts, MemoryIsOld
<1>7. ~late' => Without(memory', call'[c].key)
  BY <1>5, <1>6, EmptyMemory
<1> QED BY <1>1, <1>3, <1>5, <1>6, <1>7, RedisStays, QuietMove

\* What a command leaves in Redis.
LEMMA ApplyEffect ==
  ASSUME CacheInv, NEW c \in CacheCalls, Apply(c)
  PROVE  /\ redis' \in [CacheKeys -> Nat]
         /\ \A j \in CacheKeys : j # call[c].key => redis'[j] = redis[j]
         /\ call[c].op = "set" => redis'[call[c].key] = call[c].stamp
         /\ call[c].op = "delete" => redis'[call[c].key] = 0
         /\ call[c].op \notin {"set", "delete"} => redis' = redis
<1>1. /\ redis \in [CacheKeys -> Nat] /\ call[c].key \in CacheKeys /\ call[c].stamp \in Nat
  BY CacheFacts
<1>2. CASE call[c].op = "set"
  <2>1. redis' = [redis EXCEPT ![call[c].key] = call[c].stamp]
    BY <1>2 DEF Apply
  <2> QED BY <1>1, <1>2, <2>1
<1>3. CASE call[c].op = "delete"
  <2>1. redis' = [redis EXCEPT ![call[c].key] = 0]
    BY <1>3 DEF Apply
  <2> QED BY <1>1, <1>3, <2>1
<1>4. CASE call[c].op \notin {"set", "delete"}
  <2>1. redis' = redis
    BY <1>4 DEF Apply
  <2> QED BY <1>1, <1>4, <2>1
<1> QED BY <1>2, <1>3, <1>4

\* A call that fails, connecting or in its command, whatever the command did.
LEMMA CatchInv ==
  ASSUME CacheInv, NEW c \in CacheCalls, Catch(c), call[c].pc \in {"connect", "command"},
         Apply(c) \/ UNCHANGED redis, UNCHANGED <<redisClient, late>>
  PROVE  CacheInv'
<1> DEFINE r == call[c]
<1>1. /\ r \in CallRecord /\ r.key \in CacheKeys /\ r.stamp \in Nat /\ r.op \in Ops
      /\ GoodMemory(memory) /\ \A j \in CacheKeys : redis[j] \in Nat
  BY CacheFacts
<1>2. CacheOpen(c) /\ (r.stamp # 0 <=> r.op \in {"set", "delete"})
  BY DEF CacheOpen, CacheInv, StampsOfWrites
<1>3. redisUnavailable' = TRUE /\ CacheFlags'
  BY DEF Catch, CacheInv, CacheFlags
<1>4. /\ redis' \in [CacheKeys -> Nat]
      /\ \A j \in CacheKeys : j # r.key => redis'[j] = redis[j]
      /\ redis'[r.key] \in {redis[r.key], 0, r.stamp}
      /\ r.op \notin {"set", "delete"} => redis' = redis
      /\ r.op = "delete" => redis'[r.key] \in {redis[r.key], 0}
  BY ApplyEffect, CacheFacts
<1>5. \A p \in CallPlaces \ {"load"} : Becomes(c, r, p) /\ UNCHANGED <<stamps, raced>> => CallMoves(c)
  BY <1>1, <1>2, GoesOnWith
<1>6. r.stamp # 0 => /\ r.key \in raced \/ r.stamp >= settled[r.key]
                     /\ \A d \in CacheCalls \ {c} : Writing(d) /\ call[d].key = r.key => r.key \in raced
                     /\ r.key \in raced \/ late \/ Without(memory, r.key)
  <2> SUFFICES ASSUME r.stamp # 0
               PROVE  /\ r.key \in raced \/ r.stamp >= settled[r.key]
                      /\ \A d \in CacheCalls \ {c} : Writing(d) /\ call[d].key = r.key => r.key \in raced
                      /\ r.key \in raced \/ late \/ Without(memory, r.key)
    OBVIOUS
  <2>1. Writing(c)
    BY <1>2 DEF Writing
  <2>2. r.key \in raced \/ r.stamp >= settled[r.key]
    BY <2>1, NewestWrite
  <2>3. \A d \in CacheCalls \ {c} : Writing(d) /\ call[d].key = r.key => r.key \in raced
    BY <2>1 DEF CacheInv, OneWriter
  <2>4. r.key \in raced \/ late \/ Without(memory, r.key)
    BY <2>1 DEF CacheInv, Uncached, Without
  <2> QED BY <2>2, <2>3, <2>4
<1>7. "done" \in CallPlaces \ {"load"} /\ "threw" \in CallPlaces \ {"load"}
  BY DEF CallPlaces
<1>8. CASE r.op = "delete"
  <2>1. Becomes(c, r, "done") /\ Settle(r) /\ UNCHANGED <<memory, stamps, raced>>
    BY <1>8 DEF Catch
  <2>2. CallMoves(c) /\ r.stamp # 0
    BY <1>2, <1>5, <1>7, <1>8, <2>1
  <2> HIDE DEF r
  <2>3. BackendTypes' /\ BackendsFollow(c, r.key, r.stamp)
    BY <1>1, <1>3, <1>4, <1>6, <1>8, <2>1, <2>2, MemoryIsOld, ReturnsWithout
  <2> QED BY <1>1, <2>1, <2>2, <2>3, ReturnMoves
<1>9. CASE r.op # "delete" /\ redisUnavailable
  <2>1. Becomes(c, r, "threw") /\ UNCHANGED <<memory, stamps, settled, raced>>
    BY <1>9 DEF Catch
  <2>2. CallMoves(c)
    BY <1>5, <1>7, <2>1
  <2>3. call'[c].pc = "threw" /\ call'[c].key = r.key /\ call'[c].stamp = r.stamp
    BY <1>1, <1>7, <2>1, BecomesEffect
  <2> HIDE DEF r
  <2>4. \A j \in CacheKeys :
           \/ redis'[j] \in {redis[j], 0}
           \/ j = call'[c].key /\ redis'[j] = call'[c].stamp /\ redisUnavailable'
    BY <1>3, <1>4, <2>3
  <2>5. GoodMemory(memory') /\ AllOld(memory', memory)
    BY <1>1, <2>1, MemoryIsOld
  <2> QED BY <1>3, <1>4, <2>1, <2>2, <2>3, <2>4, <2>5, QuietMove
<1>10. CASE r.op = "set" /\ ~redisUnavailable
  <2>1. /\ memory' = memorySet(r.key, r.stamp) /\ Becomes(c, r, "done") /\ Settle(r)
        /\ UNCHANGED <<stamps, raced>>
    BY <1>10 DEF Catch
  <2>2. CallMoves(c) /\ r.stamp # 0
    BY <1>2, <1>5, <1>7, <1>10, <2>1
  <2> HIDE DEF r
  <2>3. BackendTypes' /\ BackendsFollow(c, r.key, r.stamp)
    BY <1>1, <1>3, <1>4, <1>6, <2>1, <2>2, ReturnsFromMemory
  <2> QED BY <1>1, <2>1, <2>2, <2>3, ReturnMoves
<1>11. CASE r.op \in {"get", "getOrSet"} /\ ~redisUnavailable
  <2>1. FromMemory(c, r) /\ UNCHANGED settled
    BY <1>11 DEF Catch
  <2>2. r.stamp = 0 /\ redis' = redis
    BY <1>2, <1>4, <1>11
  <2> QED BY <1>1, <1>3, <1>11, <2>1, <2>2, FromMemoryMoves
<1> QED BY <1>1, <1>8, <1>9, <1>10, <1>11 DEF Ops

\* A command that Redis answers keeps it.
LEMMA CommandInv ==
  ASSUME CacheInv, NEW c \in CacheCalls, Command(c)
  PROVE  CacheInv'
<1> DEFINE r == call[c]
<1>1. r \in CallRecord /\ r.key \in CacheKeys /\ r.stamp \in Nat /\ r.op \in Ops /\ GoodMemory(memory)
  BY CacheFacts
<1>2. /\ r.pc = "command" /\ Apply(c)
      /\ UNCHANGED <<memory, redisClient, redisUnavailable, late>> /\ CacheFlags'
  BY DEF Command, CacheInv, CacheFlags
<1>3. CacheOpen(c) /\ (r.stamp # 0 <=> r.op \in {"set", "delete"})
  BY <1>2 DEF CacheOpen, CacheInv, StampsOfWrites
<1>4. CASE r.op \in {"set", "delete"}
  <2>1. Becomes(c, r, "done") /\ Settle(r) /\ UNCHANGED <<stamps, raced>>
    BY <1>4 DEF Command
  <2>2. "done" \in CallPlaces
    BY DEF CallPlaces
  <2>3. CallMoves(c)
    BY <1>1, <1>3, <2>1, <2>2, GoesOnWith
  <2>4. Writing(c)
    BY <1>3, <1>4 DEF Writing
  <2>5. r.key \in raced' \/ r.stamp >= settled[r.key]
    BY <2>1, <2>4, NewestWrite
  <2>6. r.key \in raced' \/ late' \/ Without(memory', r.key)
    BY <1>2, <2>1, <2>4 DEF CacheInv, Uncached, Without
  <2>7. /\ redis' \in [CacheKeys -> Nat] /\ redis'[r.key] \in {0, r.stamp}
        /\ \A j \in CacheKeys : j # r.key => redis'[j] = redis[j]
    BY <1>2, <1>4, ApplyEffect
  <2> HIDE DEF r
  <2>8. BackendTypes' /\ BackendsFollow(c, r.key, r.stamp)
    BY <1>1, <1>2, <2>1, <2>5, <2>6, <2>7, MemoryIsOld, ReturnsWithout
  <2> QED BY <1>1, <2>1, <2>3, <2>8, ReturnMoves
<1>5. CASE r.op \notin {"set", "delete"}
  <2>1. Answer(c, r, redis[r.key] # 0) /\ UNCHANGED settled /\ redis' = redis
    BY <1>2, <1>5, ApplyEffect DEF Command
  <2>2. r.op \in {"get", "getOrSet"} /\ r.stamp = 0
    BY <1>1, <1>3, <1>5 DEF Ops
  <2>3. CallMoves(c) /\ call'[c].pc \notin {"connect", "command"}
    BY <1>1, <2>1, <2>2, AnswerMoves
  <2>4. GoodMemory(memory') /\ AllOld(memory', memory)
    BY <1>1, <1>2, MemoryIsOld
  <2> QED BY <1>2, <2>1, <2>3, <2>4, RedisStays, QuietMove
<1> QED BY <1>4, <1>5

\* A step of no call: the flag is raised, or an entry expires.
LEMMA QuietStep ==
  ASSUME CacheInv, UNCHANGED <<call, stamps, cacheHistory>>, CacheFlags',
         GoodMemory(memory'), AllOld(memory', memory), redisUnavailable => redisUnavailable',
         redis' \in [CacheKeys -> Nat], \A j \in CacheKeys : redis'[j] \in {redis[j], 0}
  PROVE  CacheInv'
<1>1. PICK k \in CacheKeys : TRUE
  BY CacheAssumption
<1>2. PICK c : c \notin CacheCalls
  BY NoSetContainsEverything
<1>3. UNCHANGED <<call, stamps, settled, raced, late>>
  BY DEF cacheHistory
<1>4. BackendTypes' /\ BackendsFollow(c, k, 0)
  BY <1>3, QuietBackends
<1>5. StampInv'
  <2>1. StampInv
    BY CacheFacts DEF CacheInv, StampInv
  <2>2. \A j \in CacheKeys : Stamped(j)' = Stamped(j)
    BY <1>3 DEF Stamped
  <2>3. StampsCounted'
    BY <1>3, <2>1, <2>2 DEF StampInv, StampsCounted
  <2>4. OneWriter'
    BY <1>3, <2>1 DEF StampInv, OneWriter, Writing, CacheOpen
  <2>5. StampsOfWrites'
    BY <1>3, <2>1 DEF StampInv, StampsOfWrites
  <2> QED BY <1>3, <2>1, <2>3, <2>4, <2>5 DEF StampInv
<1>6. \A j \in CacheKeys : stamps'[j] >= stamps[j]
  BY <1>3, CacheFacts
<1>7. 0 <= stamps'[k]
  BY <1>3, CacheFacts
<1>8. \A d \in CacheCalls \ {c} : call'[d] = call[d] /\ (Writing(d)' <=> Writing(d))
  BY <1>3 DEF Writing, CacheOpen
<1> QED BY <1>2, <1>3, <1>4, <1>5, <1>6, <1>7, <1>8, BackendsStayFresh

\* A time to live that ends keeps it.
LEMMA EntryExpiresInv ==
  ASSUME CacheInv, NEW k \in CacheKeys, EntryExpires(k)
  PROVE  CacheInv'
<1>1. UNCHANGED <<redisClient, redisUnavailable, call, stamps, cacheHistory>>
  BY DEF EntryExpires
<1>2. CacheFlags' /\ GoodMemory(memory) /\ redis \in [CacheKeys -> Nat]
  BY <1>1, CacheFacts DEF CacheInv, CacheFlags, cacheHistory
<1>3. CASE redis' = [redis EXCEPT ![k] = 0] /\ UNCHANGED memory
  <2>1. redis' \in [CacheKeys -> Nat] /\ \A j \in CacheKeys : redis'[j] \in {redis[j], 0}
    BY <1>2, <1>3
  <2> QED BY <1>1, <1>2, <1>3, <2>1, MemoryIsOld, QuietStep
<1>4. CASE /\ memory' = [i \in 1..Len(memory) |->
                IF memory[i].key = k THEN [memory[i] EXCEPT !.expired = TRUE] ELSE memory[i]]
           /\ UNCHANGED redis
  <2>1. GoodMemory(memory') /\ AllOld(memory', memory)
    BY <1>2, <1>4, MemoryExpires
  <2> QED BY <1>1, <1>2, <1>4, <2>1, RedisStays, QuietStep
<1> QED BY <1>3, <1>4 DEF EntryExpires

\* Through every failure, retry and change of backend, with any number of calls and
\* keys, a get() finds no value older than the newest write of its key that has
\* returned, but for overlapping writes and a connection that comes up late.
THEOREM CacheIsSafe == Spec => []CacheSafe
<1>1. Init => CacheInv
  <2> SUFFICES ASSUME CacheInit PROVE CacheInv
    BY DEF Init
  <2> DEFINE k0 == CHOOSE k \in CacheKeys : TRUE
             r == [op |-> "get", key |-> k0, stamp |-> 0, pc |-> "idle"]
  <2>1. k0 \in CacheKeys
    BY CacheAssumption
  <2> HIDE DEF k0
  <2>2. r \in CallRecord /\ r.stamp = 0 /\ r.op = "get" /\ r.pc = "idle"
    BY <2>1 DEF CallRecord, Ops
  <2>3. call = [c \in CacheCalls |-> r]
    BY DEF CacheInit, k0
  <2> HIDE DEF r
  <2>4. call \in [CacheCalls -> CallRecord] /\ \A c \in CacheCalls : call[c] = r
    BY <2>2, <2>3
  <2>5. memory = <<>> /\ Len(memory) = 0 /\ memory \in Seq(EntryRecord)
    BY DEF CacheInit
  <2>6. CacheTypes /\ CacheFlags
    <3>1. /\ redis \in [CacheKeys -> Nat] /\ stamps \in [CacheKeys -> Nat]
          /\ settled \in [CacheKeys -> Nat] /\ raced \subseteq CacheKeys /\ CacheFlags
      BY DEF CacheInit, CacheFlags
    <3>2. Len(memory) <= maxEntries
      BY <2>5, CacheAssumption
    <3> QED BY <2>4, <2>5, <3>1, <3>2 DEF CacheTypes
  <2>7. StampsOfWrites
    BY <2>2, <2>4 DEF StampsOfWrites
  <2>8. StampsCounted
    <3>1. \A k \in CacheKeys : Stamped(k) = {} /\ stamps[k] = 0
      BY <2>2, <2>4 DEF Stamped, CacheInit
    <3>2. \A c \in CacheCalls : call[c].stamp = 0 /\ call[c].key \in CacheKeys
      BY <2>2, <2>4 DEF CallRecord
    <3> QED BY <3>1, <3>2, FS_EmptySet DEF StampsCounted
  <2>9. StampsTaken
    BY <2>5 DEF StampsTaken, CacheInit
  <2>10. OneWriter /\ Uncached
    BY <2>2, <2>4 DEF OneWriter, Uncached, Writing
  <2>11. KeysOnce(memory) /\ MemoryIdle /\ RedisFresh /\ MemoryFresh
    BY <2>5 DEF KeysOnce, MemoryIdle, RedisFresh, MemoryFresh, CacheInit
  <2> QED BY <2>6, <2>7, <2>8, <2>9, <2>10, <2>11 DEF CacheInv
<1>2. CacheInv /\ [Next]_vars => CacheInv'
  <2> SUFFICES ASSUME CacheInv, [Next]_vars PROVE CacheInv'
    OBVIOUS
  <2>1. CASE UNCHANGED cacheVars
    <3>1. /\ UNCHANGED <<call, stamps, cacheHistory, memory, redis>> /\ CacheFlags'
          /\ redisUnavailable' = redisUnavailable
      BY <2>1 DEF cacheVars, cacheHistory, CacheInv, CacheFlags
    <3>2. GoodMemory(memory')
      BY <3>1, CacheFacts
    <3> QED BY <3>1, <3>2, MemoryIsOld, RedisStays, QuietStep
  <2>2. CASE CacheNext
    <3>1. ASSUME NEW c \in CacheCalls, NEW k \in CacheKeys,
                 cacheGet(c, k) \/ cacheSet(c, k) \/ cacheDelete(c, k)
          PROVE  CacheInv'
      BY <3>1, cacheGetInv, cacheSetInv, cacheDeleteInv
    <3>2. ASSUME NEW c \in CacheCalls, getOrSet(c) \/ getRedisClient(c) \/ Command(c) PROVE CacheInv'
      BY <3>2, getOrSetInv, getRedisClientInv, CommandInv
    <3>3. ASSUME NEW c \in CacheCalls, ConnectFails(c) \/ CommandFails(c) PROVE CacheInv'
      BY <3>3, CatchInv DEF ConnectFails, CommandFails
    <3>4. ASSUME NEW k \in CacheKeys, EntryExpires(k) PROVE CacheInv'
      BY <3>4, EntryExpiresInv
    <3>5. CASE ErrorEvent
      <4>1. /\ UNCHANGED <<call, stamps, cacheHistory, memory, redis>> /\ CacheFlags'
            /\ redisUnavailable' = TRUE
        BY <3>5 DEF ErrorEvent, cacheHistory, CacheInv, CacheFlags
      <4>2. GoodMemory(memory')
        BY <4>1, CacheFacts
      <4> QED BY <4>1, <4>2, MemoryIsOld, RedisStays, QuietStep
    <3> QED BY <2>2, <3>1, <3>2, <3>3, <3>4, <3>5 DEF CacheNext
  <2> QED BY <2>1, <2>2 DEF Next, vars, ingress
<1>3. CacheInv => CacheTypeOK /\ NoStaleValue
  <2> SUFFICES ASSUME CacheInv PROVE CacheTypeOK /\ NoStaleValue
    OBVIOUS
  <2> DEFINE N == Cardinality(CacheCalls)
  <2>1. ASSUME NEW k \in CacheKeys PROVE stamps[k] <= N
    <3>1. Stamped(k) \subseteq CacheCalls /\ stamps[k] = Cardinality(Stamped(k))
      BY DEF Stamped, CacheInv, StampsCounted
    <3> QED BY <3>1, FS_Subset, CacheAssumption
  <2>2. N \in Nat
    BY CacheAssumption, FS_CardinalityType
  <2> HIDE DEF N
  <2>3. /\ GoodMemory(memory) /\ redis \in [CacheKeys -> Nat] /\ stamps \in [CacheKeys -> Nat]
        /\ settled \in [CacheKeys -> Nat] /\ call \in [CacheCalls -> CallRecord]
        /\ raced \subseteq CacheKeys
        /\ \A k \in CacheKeys : redis[k] \in Nat /\ stamps[k] \in Nat /\ settled[k] \in Nat
        /\ \A c \in CacheCalls : call[c] \in CallRecord /\ call[c].key \in CacheKeys /\ call[c].stamp \in Nat
        /\ \A i \in 1..Len(memory) :
             memory[i] \in EntryRecord /\ memory[i].key \in CacheKeys /\ memory[i].stamp \in Nat \ {0}
    BY CacheFacts
  <2>4. StampsTaken /\ StampsCounted
    BY DEF CacheInv
  <2>5. ASSUME NEW k \in CacheKeys PROVE redis[k] \in 0..N /\ stamps[k] \in 0..N /\ settled[k] \in 0..N
    <3>1. redis[k] <= stamps[k] /\ settled[k] <= stamps[k] /\ stamps[k] <= N
      BY <2>1, <2>4 DEF StampsTaken
    <3> QED BY <2>2, <2>3, <3>1
  <2>6. ASSUME NEW i \in 1..Len(memory)
        PROVE  memory[i] \in [key : CacheKeys, stamp : 1..N, expired : BOOLEAN]
    <3>1. memory[i].stamp <= stamps[memory[i].key] /\ stamps[memory[i].key] <= N
      BY <2>1, <2>3, <2>4 DEF StampsTaken
    <3>2. memory[i].stamp \in 1..N
      BY <2>2, <2>3, <3>1
    <3> QED BY <2>3, <3>2 DEF EntryRecord
  <2>7. ASSUME NEW c \in CacheCalls
        PROVE  call[c] \in [op : Ops, key : CacheKeys, stamp : 0..N,
                            pc : {"idle", "connect", "command", "load", "done", "threw"}]
    <3>1. call[c].stamp <= stamps[call[c].key] /\ stamps[call[c].key] <= N
      BY <2>1, <2>3, <2>4 DEF StampsCounted
    <3>2. call[c].stamp \in 0..N
      BY <2>2, <2>3, <3>1
    <3> QED BY <2>3, <3>2 DEF CallRecord
  <2>8. /\ redis \in [CacheKeys -> 0..N] /\ stamps \in [CacheKeys -> 0..N]
        /\ settled \in [CacheKeys -> 0..N]
        /\ call \in [CacheCalls -> [op : Ops, key : CacheKeys, stamp : 0..N,
                            pc : {"idle", "connect", "command", "load", "done", "threw"}]]
    BY <2>3, <2>5, <2>7
  <2>9. CacheTypeOK
    <3>1. /\ Len(memory) <= maxEntries
          /\ {redisClient, redisUnavailable, late} \subseteq BOOLEAN
      BY <2>3 DEF GoodMemory, CacheInv, CacheFlags
    <3>2. {stamps, settled} \subseteq [CacheKeys -> 0..N]
      BY <2>8
    <3> QED BY <2>3, <2>6, <2>8, <3>1, <3>2 DEF CacheTypeOK, N
  <2>10. ASSUME NEW k \in CacheKeys \ raced, ~late, NEW s \in Visible(k) PROVE s >= settled[k]
    <3>1. CASE redisUnavailable
      <4>1. PICK i \in 1..Len(memory) : memory[i].key = k /\ s = memory[i].stamp
        BY <2>10, <3>1 DEF Visible, memoryGet, Entry
      <4> QED BY <2>10, <4>1 DEF CacheInv, MemoryFresh
    <3>2. CASE ~redisUnavailable
      <4>1. s = redis[k] /\ s # 0
        BY <2>10, <3>2 DEF Visible
      <4> QED BY <2>10, <3>2, <4>1 DEF CacheInv, RedisFresh
    <3> QED BY <3>1, <3>2
  <2> QED BY <2>9, <2>10 DEF NoStaleValue
<1>4. CacheInv => CacheSafe
  BY <1>3 DEF CacheSafe
<1> QED BY <1>1, <1>2, <1>4, PTL DEF Spec
=============================================================================
