---------------------------- MODULE StateArchival ----------------------------
(***************************************************************************)
(* StateArchivalListener of src/src/blockchain/state_archival.ts over the  *)
(* TransactionBuilder: ticks that the interval starts without waiting for  *)
(* the last one, and manual renewals, for the critical keys of one         *)
(* contract.  They fit into one batch.  Time is counted in one unit for    *)
(* ledgers and milliseconds, and goes on while a tick retries.             *)
(***************************************************************************)
EXTENDS Naturals, FiniteSets

CONSTANTS
  DataKeys,          \* the critical keys of the contract
  Ticks,             \* calls of tick()
  Manual,            \* calls of renewNow()
  DEFAULT_TTL_LEDGERS, RENEWAL_THRESHOLD_LEDGERS,
  minRenewalGap,
  retryDelays,       \* how many retries
  MaxLedger          \* bound: the clock

ASSUME ArchivalAssumption ==
  /\ {DEFAULT_TTL_LEDGERS, RENEWAL_THRESHOLD_LEDGERS, minRenewalGap, retryDelays,
      MaxLedger} \subseteq Nat
  /\ minRenewalGap < MaxLedger /\ DEFAULT_TTL_LEDGERS > 0
  /\ Ticks \cap Manual = {}

Renewals == Ticks \cup Manual

VARIABLES
  ledger,        \* the clock; a row never renewed counts as renewed at 0
  liveUntil,     \* on chain: the ledger at which each key is archived
  lastRenewedAt, \* state_archival_watchlist
  renewal,       \* each call
  extendedAt,    \* history: when each key was last extended on chain
  excused,       \* history: keys renewed by hand, by overlapping calls, after a lost
                 \* answer or without their row
  early          \* history: other keys extended again within minRenewalGap

archivalVars == <<ledger, liveUntil, lastRenewedAt, renewal, extendedAt, excused, early>>

Start == minRenewalGap + 1
NoRenewal == [pc |-> "idle", now |-> 0, rows |-> [k \in DataKeys |-> 0], todo |-> {},
              due |-> {}, attempts |-> 0]

\* registerNode() has put the keys on the watchlist; they were never renewed and
\* are about to be archived.
ArchivalInit ==
  /\ ledger = Start
  /\ liveUntil = [k \in DataKeys |-> Start + 1]
  /\ lastRenewedAt = [k \in DataKeys |-> 0]
  /\ renewal = [r \in Renewals |-> NoRenewal]
  /\ extendedAt = [k \in DataKeys |-> 0] /\ excused = {} /\ early = {}

ArchivalTypeOK ==
  /\ ledger \in Start..MaxLedger
  /\ liveUntil \in [DataKeys -> 0..(MaxLedger + DEFAULT_TTL_LEDGERS)]
  /\ {lastRenewedAt, extendedAt} \subseteq [DataKeys -> 0..MaxLedger]
  /\ renewal \in [Renewals ->
       [pc : {"idle", "query", "send", "apply", "done"}, now : 0..MaxLedger,
        rows : [DataKeys -> 0..MaxLedger], todo : SUBSET DataKeys, due : SUBSET DataKeys,
        attempts : 0..(retryDelays + 1)]]
  /\ excused \subseteq DataKeys /\ early \subseteq DataKeys

-----------------------------------------------------------------------------
(* tick: the watchlist, one query per key, then the batch. *)

LedgerCloses ==
  /\ ledger < MaxLedger /\ ledger' = ledger + 1
  /\ UNCHANGED <<liveUntil, lastRenewedAt, renewal, extendedAt, excused, early>>

Renewing(r) == renewal[r].pc \in {"query", "send", "apply"}
Done(r) == renewal' = [renewal EXCEPT ![r] = [NoRenewal EXCEPT !.pc = "done"]]

tick(r) ==
  /\ r \in Ticks /\ renewal[r].pc = "idle"
  /\ renewal' = [renewal EXCEPT ![r] = [NoRenewal EXCEPT
       !.pc = "query", !.now = ledger, !.rows = lastRenewedAt, !.todo = DataKeys]]
  /\ excused' = IF \E q \in Renewals : Renewing(q) THEN DataKeys ELSE excused
  /\ UNCHANGED <<ledger, liveUntil, lastRenewedAt, extendedAt, early>>

\* What decides: the live TTL, and the row as it was when the tick read it.
isDue(r, k) ==
  /\ liveUntil[k] - ledger < RENEWAL_THRESHOLD_LEDGERS
  /\ renewal[r].now - renewal[r].rows[k] > minRenewalGap

\* An archived key has no entry, and is skipped like one whose query fails.
getLedgerEntry(r) ==
  /\ renewal[r].pc = "query"
  /\ \E k \in renewal[r].todo, answered \in BOOLEAN :
       LET todo == renewal[r].todo \ {k}
           due == IF answered /\ liveUntil[k] > ledger /\ isDue(r, k)
                    THEN renewal[r].due \cup {k} ELSE renewal[r].due
       IN  IF todo = {} /\ due = {} THEN Done(r)
           ELSE renewal' = [renewal EXCEPT ![r].todo = todo, ![r].due = due,
                              ![r].pc = IF todo = {} THEN "send" ELSE "query"]
  /\ UNCHANGED <<ledger, liveUntil, lastRenewedAt, extendedAt, excused, early>>

renewNow(r) ==
  /\ r \in Manual /\ renewal[r].pc = "idle"
  /\ renewal' = [renewal EXCEPT ![r] = [NoRenewal EXCEPT !.pc = "send", !.due = DataKeys]]
  /\ excused' = DataKeys
  /\ UNCHANGED <<ledger, liveUntil, lastRenewedAt, extendedAt, early>>

-----------------------------------------------------------------------------
(* submitBatchRenewal and applyRenewalResult. *)

\* The transaction takes effect on all its keys, unless one is archived.
Extend(r) ==
  LET due == renewal[r].due IN
  /\ \A k \in due : liveUntil[k] > ledger
  /\ liveUntil' = [k \in DataKeys |->
       IF k \in due THEN ledger + DEFAULT_TTL_LEDGERS ELSE liveUntil[k]]
  /\ extendedAt' = [k \in DataKeys |-> IF k \in due THEN ledger ELSE extendedAt[k]]
  /\ early' = early \cup {k \in due \ excused :
       extendedAt[k] > 0 /\ ledger - extendedAt[k] <= minRenewalGap}

sendTransaction(r) ==
  /\ renewal[r].pc = "send"
  /\ Extend(r)
  /\ renewal' = [renewal EXCEPT ![r].pc = "apply"]
  /\ UNCHANGED <<ledger, lastRenewedAt, excused>>

\* A mutant: a batch that failed for good is recorded as renewed.
sendTransactionFails_Recorded(r) ==
  /\ renewal[r].pc = "send"
  /\ renewal' = [renewal EXCEPT ![r].attempts = @ + 1,
       ![r].pc = IF renewal[r].attempts = retryDelays THEN "apply" ELSE "send"]
  /\ UNCHANGED <<ledger, liveUntil, lastRenewedAt, extendedAt, excused, early>>

\* No success is reported: by the chain, or because the answer is lost.  The
\* next try follows a delay; after the last one the result holds no pointer.
sendTransactionFails(r) ==
  /\ renewal[r].pc = "send"
  /\ \/ UNCHANGED <<liveUntil, extendedAt, early, excused>>
     \/ Extend(r) /\ excused' = excused \cup renewal[r].due
  /\ IF renewal[r].attempts = retryDelays THEN Done(r)
     ELSE renewal' = [renewal EXCEPT ![r].attempts = @ + 1]
  /\ UNCHANGED <<ledger, lastRenewedAt>>

\* The rows are written in one transaction, which may fail: the tick ends.
applyRenewalResult(r) ==
  /\ renewal[r].pc = "apply"
  /\ \/ /\ lastRenewedAt' = [k \in DataKeys |->
             IF k \in renewal[r].due THEN ledger ELSE lastRenewedAt[k]]
        /\ UNCHANGED excused
     \/ UNCHANGED lastRenewedAt /\ excused' = excused \cup renewal[r].due
  /\ Done(r)
  /\ UNCHANGED <<ledger, liveUntil, extendedAt, early>>

ArchivalNext ==
  \/ LedgerCloses
  \/ \E r \in Renewals :
       \/ tick(r) \/ getLedgerEntry(r) \/ renewNow(r)
       \/ sendTransaction(r) \/ sendTransactionFails(r) \/ applyRenewalResult(r)

-----------------------------------------------------------------------------
(* Properties. *)

\* The watchlist never claims a renewal the chain has not seen, which would keep
\* the next ticks from renewing; and a key is not renewed twice within the gap,
\* unless by hand, by ticks that overlap, or because an answer or a row was lost.
RenewalsSpaced ==
  /\ \A k \in DataKeys : lastRenewedAt[k] > 0 => extendedAt[k] > 0
  /\ early = {}
=============================================================================
