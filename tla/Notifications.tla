---------------------------- MODULE Notifications ----------------------------
(***************************************************************************)
(* SlashingNotifier.deliverChannel() of src/notifications for one slashing *)
(* event and one channel: calls in several processes over the row of       *)
(* notification_delivery, and the idempotent sender each process keeps in  *)
(* memory.  notifySlashing() runs the two channels side by side; they      *)
(* share nothing.                                                          *)
(*                                                                         *)
(* One step is one SQL statement, or what runs between two awaits.         *)
(***************************************************************************)
EXTENDS Naturals

CONSTANTS
  Notifiers,    \* calls of notifySlashing() for the event
  Processes,    \* processes that notify
  processOf,    \* the process of each call
  maxRetries    \* 3 by default

ASSUME NotifyAssumption == processOf \in [Notifiers -> Processes] /\ maxRetries \in Nat

VARIABLES
  delivery,    \* status of the row; none: there is no row
  notifier,    \* each call
  processed,   \* processes whose sender has the notification in its set
  acked,       \* history: sends acknowledged to each process since its start
  sent,        \* history: sends acknowledged to any process
  lostMark,    \* history: markDelivered() failed after an acknowledged send
  orphaned     \* history: the call that had the delivery ended without a mark

notifyVars == <<delivery, notifier, processed, acked, sent, lostMark, orphaned>>

\* pc of a call that has claimed the delivery, and of one that is under way.
Holding == {"send", "sending", "mark", "fail"}
Notifying == Holding \cup {"get", "claim"}

NotifyTypeOK ==
  /\ delivery \in {"none", "delivering", "delivered", "failed"}
  /\ notifier \in [Notifiers ->
       [pc : {"idle", "delivered", "skipped", "threw", "crashed"} \cup Notifying,
        attempt : 0..maxRetries]]
  /\ processed \subseteq Processes
  /\ acked \in [Processes -> Nat]
  /\ sent \in Nat
  /\ lostMark \in BOOLEAN /\ orphaned \in BOOLEAN

NotifyInit ==
  /\ delivery = "none"
  /\ notifier = [c \in Notifiers |-> [pc |-> "idle", attempt |-> 0]]
  /\ processed = {}
  /\ acked = [p \in Processes |-> 0]
  /\ sent = 0
  /\ lostMark = FALSE /\ orphaned = FALSE

-----------------------------------------------------------------------------
At(c, label) == notifier[c].pc = label
NotifyGoto(c, label) == notifier' = [notifier EXCEPT ![c].pc = label]
senders == <<processed, acked, sent>>

notifySlashing(c) ==
  /\ At(c, "idle")
  /\ NotifyGoto(c, "get")
  /\ UNCHANGED <<delivery, senders, lostMark, orphaned>>

\* getDelivery(): an event that is delivered is skipped; the query may fail.
getDelivery(c) ==
  /\ At(c, "get")
  /\ \/ NotifyGoto(c, IF delivery = "delivered" THEN "skipped" ELSE "claim")
     \/ NotifyGoto(c, "threw")
  /\ UNCHANGED <<delivery, senders, lostMark, orphaned>>

\* Fault: the claim does not look at the status.
Claimed_Always == TRUE

\* INSERT, or UPDATE WHERE status IN ('pending', 'failed').
Claimed == delivery \in {"none", "failed"}

claimDelivery(c) ==
  /\ At(c, "claim")
  /\ delivery' = IF Claimed THEN "delivering" ELSE delivery
  /\ NotifyGoto(c, IF Claimed THEN "send" ELSE "skipped")
  /\ UNCHANGED <<senders, lostMark, orphaned>>

\* The statement rejects, before or after its commit: the call throws.
claimRejects(c) ==
  /\ At(c, "claim")
  /\ \/ UNCHANGED <<delivery, orphaned>>
     \/ Claimed /\ delivery' = "delivering" /\ orphaned' = TRUE
  /\ NotifyGoto(c, "threw")
  /\ UNCHANGED <<senders, lostMark>>

\* IdempotentEmailService, IdempotentWebhookService: up to the await.
Send(c) ==
  /\ At(c, "send")
  /\ NotifyGoto(c, IF processOf[c] \in processed THEN "mark" ELSE "sending")
  /\ UNCHANGED <<delivery, senders, lostMark, orphaned>>

Sent(c) ==
  /\ At(c, "sending")
  /\ processed' = processed \cup {processOf[c]}
  /\ acked' = [acked EXCEPT ![processOf[c]] = @ + 1]
  /\ sent' = sent + 1
  /\ NotifyGoto(c, "mark")
  /\ UNCHANGED <<delivery, lostMark, orphaned>>

\* The mail server or the webhook fails or times out.
SendFails(c) ==
  /\ At(c, "sending")
  /\ NotifyGoto(c, "fail")
  /\ UNCHANGED <<delivery, senders, lostMark, orphaned>>

\* markDelivered() does not look at who has the delivery.
markDelivered(c) ==
  /\ At(c, "mark")
  /\ delivery' = "delivered"
  /\ NotifyGoto(c, "delivered")
  /\ UNCHANGED <<senders, lostMark, orphaned>>

\* It rejects, before or after its commit: the catch block takes over.
markDeliveredRejects(c) ==
  /\ At(c, "mark")
  /\ \/ UNCHANGED delivery
     \/ delivery' = "delivered"
  /\ lostMark' = TRUE
  /\ NotifyGoto(c, "fail")
  /\ UNCHANGED <<senders, orphaned>>

\* The catch block: markFailed(), then another attempt or the exception.
markFailed(c) ==
  /\ At(c, "fail")
  /\ delivery' = "failed"
  /\ notifier' = [notifier EXCEPT ![c] =
       IF @.attempt = maxRetries THEN [@ EXCEPT !.pc = "threw"]
       ELSE [pc |-> "claim", attempt |-> @.attempt + 1]]
  /\ UNCHANGED <<senders, lostMark, orphaned>>

\* markFailed() rejects and leaves the loop.
markFailedRejects(c) ==
  /\ At(c, "fail")
  /\ \/ delivery' = "failed" /\ UNCHANGED orphaned
     \/ UNCHANGED delivery /\ orphaned' = (delivery = "delivering" \/ orphaned)
  /\ NotifyGoto(c, "threw")
  /\ UNCHANGED <<senders, lostMark>>

\* A process dies with its calls and its sets; it may be started again.
NotifierCrash(p) ==
  LET hit == {c \in Notifiers : processOf[c] = p /\ notifier[c].pc \in Notifying} IN
  /\ hit # {}
  /\ notifier' = [c \in Notifiers |-> IF c \in hit THEN [notifier[c] EXCEPT !.pc = "crashed"]
                                      ELSE notifier[c]]
  /\ orphaned' = \/ orphaned
                 \/ delivery = "delivering" /\ \E c \in hit : notifier[c].pc \in Holding
  /\ processed' = processed \ {p}
  /\ acked' = [acked EXCEPT ![p] = 0]
  /\ UNCHANGED <<delivery, sent, lostMark>>

-----------------------------------------------------------------------------
NotifyStep(c) ==
  \/ getDelivery(c) \/ claimDelivery(c) \/ claimRejects(c) \/ Send(c) \/ Sent(c)
  \/ SendFails(c) \/ markDelivered(c) \/ markDeliveredRejects(c)
  \/ markFailed(c) \/ markFailedRejects(c)

NotifyNext ==
  \/ \E c \in Notifiers : notifySlashing(c) \/ NotifyStep(c)
  \/ \E p \in Processes : NotifierCrash(p)

\* Awaits settle: the database, the mail server and the webhook's timeout answer.
NotifyFairness == \A c \in Notifiers : WF_notifyVars(NotifyStep(c))

NotifySpec == NotifyInit /\ [][NotifyNext]_notifyVars /\ NotifyFairness

-----------------------------------------------------------------------------
\* The status is the lock of the delivery: however calls of several processes
\* overlap and fail, one of them at a time sends or marks.
OneSender ==
  \A c, d \in Notifiers :
    notifier[c].pc \in Holding /\ notifier[d].pc \in Holding => c = d

\* A process has at most one acknowledged send until it restarts, although retries
\* and other calls claim the delivery again after a markDelivered() that failed;
\* without such a failure there is no second acknowledged send anywhere.
NoDuplicateSend ==
  /\ \A p \in Processes : acked[p] <= 1
  /\ sent > 1 => lostMark

\* A delivery in progress is worked on, so no later call skips it in vain, unless
\* a crash or a failed statement has orphaned it.
DeliveringIsWorkedOn ==
  delivery = "delivering" =>
    orphaned \/ \E c \in Notifiers : notifier[c].pc \in Holding

\* A delivery in progress is delivered or failed at last, unless orphaned.
DeliverySettles ==
  delivery = "delivering" ~> (delivery # "delivering" \/ orphaned)
=============================================================================
