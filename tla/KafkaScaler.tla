----------------------------- MODULE KafkaScaler -----------------------------
(***************************************************************************)
(* KafkaConsumerMonitor and KafkaAutoScaler of src/src/queue for one       *)
(* consumer group with one partition: checks, the lag changes they report, *)
(* and the evaluations every registered listener starts.  An evaluation    *)
(* awaits the consumer count, when it is not cached, and the scaling.      *)
(* Checks overlap, so one may end with metrics older than the last one's:  *)
(* the lag a check ends with is any value.  Lags are in hundreds.          *)
(***************************************************************************)
EXTENDS Integers, FiniteSets

CONSTANTS
  Evaluations,        \* evaluate() calls that may be in flight at once
  Lags,               \* the values the lag takes
  minConsumers, maxConsumers, initialConsumers,
  scaleUpThreshold, scaleDownThreshold, scaleUpBy, scaleDownBy,
  scaleCooldown, maxConsecutiveScaleDowns,
  lagWarning, lagCritical, partitionWarning, partitionCritical,
  MaxTime             \* bound: the clock

ASSUME KafkaAssumption ==
  /\ {minConsumers, maxConsumers, initialConsumers, scaleUpBy, scaleDownBy, scaleCooldown,
      maxConsecutiveScaleDowns, MaxTime} \subseteq Nat
  /\ 1 <= minConsumers /\ minConsumers <= initialConsumers
  /\ initialConsumers <= maxConsumers /\ scaleCooldown <= MaxTime
  /\ IsFiniteSet(Evaluations)

VARIABLES
  consumers,      \* how many consumers the group really has
  summary,        \* totalLag of the stored summary; -1: none yet
  scalerRunning, listeners,
  evaluation,     \* each evaluate(): [pc, lag, to, now]
  cachedCount,    \* currentConsumerCounts; 0: not cached
  lastScaleTime, scaleDowns,
  time,
  crossing,       \* history: two evaluations were in flight at once
  countLost,      \* history: a scaling took effect and was reported as failed
  hasty           \* history: the stamp of a scaling is within the cooldown of the last

kafkaVars == <<consumers, summary, scalerRunning, listeners, evaluation,
               cachedCount, lastScaleTime, scaleDowns, time, crossing, countLost, hasty>>

NoEvaluation == [pc |-> "idle", lag |-> 0, to |-> 0, now |-> 0]

\* Both have been started, and no group has been looked at.
KafkaInit ==
  /\ consumers = initialConsumers
  /\ summary = 0 - 1
  /\ scalerRunning = TRUE /\ listeners = 1
  /\ evaluation = [e \in Evaluations |-> NoEvaluation]
  /\ cachedCount = 0 /\ lastScaleTime = 0 /\ scaleDowns = 0 /\ time = scaleCooldown
  /\ crossing = FALSE /\ countLost = FALSE /\ hasty = FALSE

KafkaTypeOK ==
  /\ consumers \in Nat /\ summary \in Lags \cup {0 - 1}
  /\ {scalerRunning, crossing, countLost, hasty} \subseteq BOOLEAN /\ listeners \in 1..2
  /\ evaluation \in [Evaluations ->
       [pc : {"idle", "count", "scale"}, lag : Lags \cup {0}, to : Nat, now : Nat]]
  /\ {cachedCount, lastScaleTime} \subseteq Nat
  /\ scaleDowns \in 0..maxConsecutiveScaleDowns /\ time \in scaleCooldown..MaxTime

-----------------------------------------------------------------------------
(* The monitor. *)

TimePasses ==
  /\ time < MaxTime /\ time' = time + 1
  /\ UNCHANGED <<consumers, summary, scalerRunning, listeners, evaluation,
                 cachedCount, lastScaleTime, scaleDowns, crossing, countLost, hasty>>

\* With one partition its lag is the total and the maximum.
determineStatus(l) ==
  IF l >= lagCritical \/ l >= partitionCritical THEN "critical"
  ELSE IF l >= lagWarning \/ l >= partitionWarning THEN "warning" ELSE "healthy"

Reported(l) ==
  \/ summary < 0 \/ determineStatus(l) # determineStatus(summary)
  \/ l - summary > lagWarning \/ summary - l > lagWarning

Started(s) ==
  evaluation' = [e \in Evaluations |->
    IF e \in s THEN [NoEvaluation EXCEPT !.pc = "count", !.lag = summary'] ELSE evaluation[e]]
Pending == {e \in Evaluations : evaluation[e].pc # "idle"}

\* The fetches have answered; every listener starts an evaluation.  A check
\* whose fetch rejects is logged and changes nothing.
checkGroup(l) ==
  /\ summary' = l
  /\ IF Reported(l) /\ scalerRunning
       THEN \E s \in SUBSET (Evaluations \ Pending) :
              /\ Cardinality(s) = listeners /\ Started(s)
              /\ crossing' = (crossing \/ Cardinality(s \cup Pending) > 1)
       ELSE UNCHANGED <<evaluation, crossing>>
  /\ UNCHANGED <<consumers, scalerRunning, listeners, cachedCount, lastScaleTime,
                 scaleDowns, time, countLost, hasty>>

-----------------------------------------------------------------------------
(* The scaler. *)

stop ==
  /\ scalerRunning /\ scalerRunning' = FALSE
  /\ UNCHANGED <<consumers, summary, listeners, evaluation, cachedCount,
                 lastScaleTime, scaleDowns, time, crossing, countLost, hasty>>

\* start() after stop() registers one more listener; two are enough to model.
start ==
  /\ ~scalerRunning /\ scalerRunning' = TRUE
  /\ listeners' = 2
  /\ UNCHANGED <<consumers, summary, evaluation, cachedCount, lastScaleTime,
                 scaleDowns, time, crossing, countLost, hasty>>

\* A mutant: the step is not cut off at the limits.
Target_Unlimited(from, direction) ==
  IF direction = "up" THEN from + scaleUpBy ELSE from - scaleDownBy

Target(from, direction) ==
  IF direction = "up"
    THEN IF from + scaleUpBy > maxConsumers THEN maxConsumers ELSE from + scaleUpBy
    ELSE IF from - scaleDownBy < minConsumers THEN minConsumers ELSE from - scaleDownBy

InCooldown == time - lastScaleTime < scaleCooldown

\* The lag a decision is made on is the report's; the count is the cached one.
Direction(l, n) ==
  IF l >= scaleUpThreshold /\ n < maxConsumers THEN "up"
  ELSE IF l > scaleDownThreshold \/ n <= minConsumers THEN "reset"
  ELSE IF scaleDowns < maxConsecutiveScaleDowns THEN "down" ELSE "none"

\* getConsumerCount answers, from the cache or from the group: no await follows
\* until the scaling.
evaluateLag(e) ==
  LET n == IF cachedCount > 0 THEN cachedCount ELSE consumers
      d == Direction(evaluation[e].lag, n) IN
  /\ evaluation[e].pc = "count"
  /\ cachedCount' = n
  /\ IF InCooldown THEN UNCHANGED scaleDowns
     ELSE scaleDowns' = IF d = "reset" THEN 0 ELSE IF d = "down" THEN scaleDowns + 1
                        ELSE scaleDowns
  /\ evaluation' = [evaluation EXCEPT ![e] =
       IF ~InCooldown /\ d \in {"up", "down"} /\ Target(n, d) # n
         THEN [evaluation[e] EXCEPT !.pc = "scale", !.to = Target(n, d), !.now = time]
         ELSE NoEvaluation]
  /\ UNCHANGED <<consumers, summary, scalerRunning, listeners,
                 lastScaleTime, time, crossing, countLost, hasty>>

\* The count cannot be read: zero, and the evaluation returns.
countFails(e) ==
  /\ evaluation[e].pc = "count" /\ cachedCount = 0
  /\ evaluation' = [evaluation EXCEPT ![e] = NoEvaluation]
  /\ UNCHANGED <<consumers, summary, scalerRunning, listeners, cachedCount,
                 lastScaleTime, scaleDowns, time, crossing, countLost, hasty>>

\* The stamp is the time before the await.
scaleConsumerGroup(e) ==
  /\ evaluation[e].pc = "scale"
  /\ consumers' = evaluation[e].to /\ cachedCount' = evaluation[e].to
  /\ lastScaleTime' = evaluation[e].now
  /\ hasty' = (hasty \/ evaluation[e].now - lastScaleTime < scaleCooldown)
  /\ evaluation' = [evaluation EXCEPT ![e] = NoEvaluation]
  /\ UNCHANGED <<summary, scalerRunning, listeners, scaleDowns, time,
                 crossing, countLost>>

\* A rejection changes nothing here, whether or not the group was scaled.
scaleFails(e) ==
  /\ evaluation[e].pc = "scale"
  /\ \/ UNCHANGED <<consumers, countLost>>
     \/ consumers' = evaluation[e].to /\ countLost' = TRUE
  /\ evaluation' = [evaluation EXCEPT ![e] = NoEvaluation]
  /\ UNCHANGED <<summary, scalerRunning, listeners, cachedCount,
                 lastScaleTime, scaleDowns, time, crossing, hasty>>

KafkaNext ==
  \/ TimePasses \/ start \/ stop
  \/ \E l \in Lags : checkGroup(l)
  \/ \E e \in Evaluations :
       evaluateLag(e) \/ countFails(e) \/ scaleConsumerGroup(e) \/ scaleFails(e)

-----------------------------------------------------------------------------
(* Properties. *)

\* Whatever evaluations overlap and whatever counts are stale, the group keeps
\* between its limits.  The cached count is the group's, and scalings are a
\* cooldown apart, unless two evaluations were in flight at once (the cooldown
\* is checked before the scaling is awaited and stamped after it) or a scaling
\* that took effect was reported as failed.
ScaledWithinLimits ==
  /\ minConsumers <= consumers /\ consumers <= maxConsumers
  /\ crossing \/ (~hasty /\ (countLost \/ cachedCount \in {0, consumers}))
=============================================================================
