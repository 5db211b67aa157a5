--------------------------- MODULE NonceSequencer ---------------------------
(***************************************************************************)
(* NonceSequencer of src/staking/slashing_sequencer.ts over NonceStore of  *)
(* src/database/nonce_store.ts: nonces are reserved in memory, logged to a *)
(* file in batches, and counted off by a water mark that is written when   *)
(* a confirmation meets a full batch.  Each request is submitted through   *)
(* process() of DeadLetterQueue.  The process may crash and restart.       *)
(*                                                                         *)
(* onSlashingRequest() is synchronous up to the submission and from its    *)
(* result on.  A write may fail with nothing, a part or all of it in the   *)
(* file; a crash in the middle of one is such a failure with a crash next. *)
(* Spans and the metrics counters are left out.                            *)
(***************************************************************************)
EXTENDS DeadLetterQueue, Sequences, SequencesExt

CONSTANTS
  WAL_FLUSH_INTERVAL,
  flushThreshold,
  NoNonce,            \* nonce of a request that has not arrived
  MaxCrashes          \* bound

\* A request is the position in which it arrives.
ASSUME SequencerAssumption ==
  /\ IsFiniteSet(Messages) /\ Messages = 1..Cardinality(Messages)
  /\ WAL_FLUSH_INTERVAL \in Nat \ {0} /\ flushThreshold \in Nat \ {0}
  /\ NoNonce \notin Nat /\ MaxCrashes \in Nat

VARIABLES
  up,             \* the constructor has returned
  headPointer, waterMark, walFlushCounter,
  nonce,          \* nonce of each request
  status,         \* status of each request's WalEntry, an object in memory
  buffer,         \* NonceStore.buffer: the requests whose entries it holds
  wal,            \* the entries of the file, in no order, each with its request
  walOpen,        \* the last line of the file has no end
  walState,       \* cut: a write of the mark or of a purge failed part way;
                  \* unreadable: some line does not parse
  waterMarkFile,  \* 0 also when the file does not parse
  resent,         \* requests whose entries were sent again and have no answer yet
  interrupted,    \* requests that the last crash met in flight, flushed already
  crashes

walFile == <<wal, walOpen, walState, waterMarkFile>>
sequencerVars == <<up, headPointer, waterMark, walFlushCounter, nonce, status, buffer, walFile,
                   resent, interrupted, crashes>>

Statuses == {"pending", "confirmed", "failed"}

SequencerTypeOK ==
  /\ up \in BOOLEAN /\ walOpen \in BOOLEAN /\ crashes \in 0..MaxCrashes
  /\ walState \in {"whole", "cut", "unreadable"}
  /\ {headPointer, waterMark, walFlushCounter, waterMarkFile} \subseteq Nat
  /\ nonce \in [Messages -> Nat \cup {NoNonce}] /\ status \in [Messages -> Statuses]
  /\ buffer \in Seq(Messages)
  /\ wal \subseteq [by : Messages, status : Statuses]
  /\ {resent, interrupted} \subseteq SUBSET Messages

SequencerInit ==
  /\ up = TRUE /\ crashes = 0
  /\ headPointer = 0 /\ waterMark = 0 /\ walFlushCounter = 0
  /\ nonce = [m \in Messages |-> NoNonce]
  /\ status = [m \in Messages |-> "pending"]
  /\ buffer = <<>> /\ wal = {} /\ walOpen = FALSE /\ walState = "whole" /\ waterMarkFile = 0
  /\ resent = {} /\ interrupted = {}

InFlight(m) == nonce[m] # NoNonce /\ proc[m].pc \in {"handler", "insert"}

-----------------------------------------------------------------------------
\* flush(): appends an entry as it is now; entries of earlier flushes keep the
\* status they were written with.
Lines(requests) == {[by |-> m, status |-> status[m]] : m \in Range(requests)}

\* An entry appended to a line without end makes that line unreadable.
Flush(requests) ==
  /\ wal' = wal \cup Lines(requests)
  /\ walOpen' = (walOpen /\ requests = <<>>)
  /\ walState' = IF walOpen /\ requests # <<>> THEN "unreadable" ELSE walState

\* An append throws: the first k entries are in the file, the last of them perhaps
\* without its end, and perhaps a part of the next.
FlushFails(requests, least) ==
  \E k \in least..Len(requests), part \in BOOLEAN :
    /\ wal' = wal \cup Lines(SubSeq(requests, 1, k))
    /\ walOpen' \in (IF k = 0 THEN {walOpen} ELSE BOOLEAN)
    /\ walState' = IF part \/ (walOpen /\ k > 0) THEN "unreadable" ELSE walState

\* reserveNonce() flushes on every WAL_FLUSH_INTERVAL-th reservation, before the
\* new entry is appended; append() flushes when the buffer is full.
FlushDue == (walFlushCounter + 1) % WAL_FLUSH_INTERVAL = 0
Flushed == IF FlushDue THEN buffer ELSE <<>>
Filled(m) == Append(IF FlushDue THEN <<>> ELSE buffer, m)
Full(m) == Len(Filled(m)) >= flushThreshold

reserveNonce(m) ==
  /\ up
  /\ nonce[m] = NoNonce /\ \A k \in Messages : k < m => nonce[k] # NoNonce
  /\ nonce' = [nonce EXCEPT ![m] = headPointer]
  /\ headPointer' = headPointer + 1
  /\ walFlushCounter' = walFlushCounter + 1
  /\ UNCHANGED <<up, waterMark, status, waterMarkFile, resent, interrupted, crashes>>

onSlashingRequest(m) ==
  /\ reserveNonce(m)
  /\ process(m)
  /\ Flush(Flushed \o (IF Full(m) THEN Filled(m) ELSE <<>>))
  /\ buffer' = IF Full(m) THEN <<>> ELSE Filled(m)

\* The flush of reserveNonce() or of append() throws, and with it the request: its
\* nonce is used up, nothing is submitted, and the buffer keeps what it held.
ReservationThrows(m) ==
  /\ reserveNonce(m)
  /\ \/ Flushed # <<>> /\ FlushFails(Flushed, 0) /\ buffer' = buffer
     \/ /\ Full(m) /\ FlushFails(Flushed \o Filled(m), Len(Flushed))
        /\ buffer' = Filled(m)
  /\ UNCHANGED dlqVars

\* Fault: the purge drops the entry next to the water mark as well.
purgeConfirmed_OffByOne(upTo) ==
  {e \in wal : e.status # "confirmed" /\ nonce[e.by] > upTo + 1}

\* purgeConfirmed(): what is left of the file.
purgeConfirmed(upTo) == {e \in wal : e.status # "confirmed" /\ nonce[e.by] > upTo}

\* The two writes of a confirmation that meets a full batch.  The purge throws on a
\* file it cannot parse, and joins the lines it keeps without a final end of line.
MarkAndPurge ==
  /\ waterMarkFile' = waterMark'
  /\ IF walState = "unreadable" THEN UNCHANGED <<wal, walOpen, walState>>
     ELSE /\ wal' = purgeConfirmed(waterMark')
          /\ walOpen' = (wal' # {})
          /\ UNCHANGED walState

\* The mark's write throws: the file is as it was, or does not parse.
MarkThrows ==
  \/ UNCHANGED walFile
  \/ /\ waterMarkFile' = 0
     /\ walState' = IF walState = "whole" THEN "cut" ELSE walState
     /\ UNCHANGED <<wal, walOpen>>

\* The mark is written and the rewriting of the file throws: it is cut short,
\* between two lines or inside of one.
PurgeThrows ==
  /\ walState # "unreadable"
  /\ waterMarkFile' = waterMark'
  /\ \E part \in BOOLEAN :
       /\ wal' \in SUBSET purgeConfirmed(waterMark')
       /\ walOpen' = (part \/ wal' # {})
       /\ walState' = IF part THEN "unreadable" ELSE "cut"

\* advanceWaterMark() counts the confirmations, whichever nonces they are of.
advanceWaterMark ==
  /\ waterMark' = waterMark + 1
  /\ IF walFlushCounter % WAL_FLUSH_INTERVAL # 0 THEN UNCHANGED walFile
     ELSE MarkAndPurge \/ MarkThrows \/ PurgeThrows

Confirmed(m) ==
  /\ up /\ HandlerReturns(m)
  /\ status' = [status EXCEPT ![m] = "confirmed"]
  /\ advanceWaterMark
  /\ UNCHANGED <<up, headPointer, walFlushCounter, nonce, buffer, resent, interrupted, crashes>>

Submitting(m) == up /\ HandlerThrows(m) /\ UNCHANGED sequencerVars

Failed(m) ==
  /\ up /\ insert(m)
  /\ status' = [status EXCEPT ![m] = "failed"]
  /\ UNCHANGED <<up, headPointer, waterMark, walFlushCounter, nonce, buffer, walFile,
                 resent, interrupted, crashes>>

Crash ==
  /\ up /\ crashes < MaxCrashes
  /\ crashes' = crashes + 1
  /\ up' = FALSE
  /\ buffer' = <<>> /\ resent' = {}
  /\ interrupted' = {m \in Messages : InFlight(m)} \ Range(buffer)
  /\ proc' = [m \in Messages |-> IF proc[m].pc \in {"handler", "insert"}
                                 THEN [proc[m] EXCEPT !.pc = "crashed"] ELSE proc[m]]
  /\ UNCHANGED <<headPointer, waterMark, walFlushCounter, nonce, status, walFile,
                 row, expired, operator, accepted, dlqHistory>>

\* The constructor: a file it cannot parse makes it throw.  What the file calls
\* pending is sent again: the empty txHash of the entry, with no nonce.
Restart ==
  /\ ~up /\ walState # "unreadable"
  /\ up' = TRUE /\ walState' = "whole" /\ interrupted' = {}
  /\ waterMark' = waterMarkFile /\ headPointer' = waterMarkFile
  /\ walFlushCounter' = 0
  /\ resent' = {e.by : e \in {l \in wal : l.status = "pending"}}
  /\ UNCHANGED <<nonce, status, buffer, wal, walOpen, waterMarkFile, crashes, dlqVars>>

\* The answer is recorded in a copy of the entry, which nobody reads.
resubmitEntry(m) ==
  /\ up /\ m \in resent
  /\ resent' = resent \ {m}
  /\ UNCHANGED <<up, headPointer, waterMark, walFlushCounter, nonce, status, buffer, walFile,
                 interrupted, crashes, dlqVars>>

-----------------------------------------------------------------------------
RequestStep(m) == Confirmed(m) \/ Submitting(m) \/ Failed(m)

SequencerNext ==
  \/ \E m \in Messages :
       onSlashingRequest(m) \/ ReservationThrows(m) \/ RequestStep(m) \/ resubmitEntry(m)
  \/ Crash \/ Restart

-----------------------------------------------------------------------------
\* The log covers what is in flight: an entry that has left the buffer while its
\* request awaits its submission, or that a crash then met, is in the file, written
\* by this very request and still pending, however reservations, flushes that fail
\* half-way, confirmations and purges are interleaved.  Excepted are entries that
\* the persisted water mark has passed, confirmed or not, for it only counts, and a
\* file that a failed write of the mark or of a purge cut short or a glued line made
\* unreadable: there, and in the buffer, a crash loses what was in flight.  (And
\* what is recovered is sent again as an empty transaction.)
WalCoversInFlight ==
  walState = "whole" =>
    \A m \in Messages :
      /\ m \in interrupted \/ (InFlight(m) /\ m \notin Range(buffer))
      /\ nonce[m] > waterMarkFile
      => [by |-> m, status |-> "pending"] \in wal

\* The water mark never overtakes the reservations, so the nonces a restart goes on
\* with are not ahead of what was reserved; and no two requests of one life of the
\* process await their submission with one nonce.  (A later life gives out again the
\* nonces above the mark, confirmed ones among them.)
NonceOrder ==
  /\ waterMarkFile <= waterMark /\ waterMark <= headPointer
  /\ \A k, m \in Messages : k # m /\ InFlight(k) /\ InFlight(m) => nonce[k] # nonce[m]
=============================================================================
