------------------------------ MODULE Shedding ------------------------------
(***************************************************************************)
(* Load shedding of src/src/core/ingress: the capacity shedder's periodic  *)
(* evaluation, the feature-flag cache it overrides, and the configuration  *)
(* callbacks that rewrite both.  A metric snapshot is the level the        *)
(* thresholds give it.  FLAG_CACHE is read through getStatus, which fills  *)
(* it, so a flag's entry is always present.  A key of flagsToShed that no  *)
(* flag has is refused by setOverride, and left out.                       *)
(***************************************************************************)
EXTENDS Naturals

CONSTANTS
  Flags,           \* registered flags
  cooldownPeriod,  \* ticks of calm before shedding ends
  MaxTicks,        \* bound: the clock
  MaxChanges       \* bound: configuration changes

ASSUME SheddingAssumption ==
  {cooldownPeriod, MaxTicks, MaxChanges} \subseteq Nat

Levels == {"none", "light", "medium", "critical"}
Status == {"enabled", "disabled", "degraded"}
defaultStatus == "enabled"
ShedStatus == {"unlisted", "disabled", "degraded"}

VARIABLES
  level,           \* currentLevel
  lastElevatedAt,
  shedderClock,    \* Date.now(), in ticks
  flagsToShed,     \* shedderConfig.flagsToShed: what each flag becomes under load
  overrides,       \* feature_flags.overrides of the configuration
  cache,           \* FLAG_CACHE
  initialized,     \* the evaluation timer is on
  changes,         \* configuration changes so far
  rewritten        \* the configuration changed, or shedding was stopped, after
                   \* the last level change

sheddingVars == <<level, lastElevatedAt, shedderClock, flagsToShed, overrides, cache,
                  initialized, changes, rewritten>>

\* getFlagFromConfig, or the registered default.
configured(o, f) == IF o[f] \in Status THEN o[f] ELSE defaultStatus

\* initGracefulDegradation: flags are registered and cached, then the shedder starts.
SheddingInit ==
  /\ level = "none" /\ lastElevatedAt = 0 /\ shedderClock = 0
  /\ flagsToShed \in [Flags -> ShedStatus]
  /\ overrides \in [Flags -> {"unset", "disabled"}]
  /\ cache = [f \in Flags |-> configured(overrides, f)]
  /\ initialized = TRUE /\ changes = 0 /\ rewritten = FALSE

SheddingTypeOK ==
  /\ level \in Levels /\ cache \in [Flags -> Status]
  /\ lastElevatedAt \in 0..MaxTicks /\ shedderClock \in 0..MaxTicks
  /\ flagsToShed \in [Flags -> ShedStatus]
  /\ overrides \in [Flags -> Status \cup {"unset"}]
  /\ initialized \in BOOLEAN /\ rewritten \in BOOLEAN /\ changes \in 0..MaxChanges

-----------------------------------------------------------------------------
(* applyShedding: setOverride for every listed flag while a level is up,   *)
(* resetOverride when it is down.                                          *)

applyShedding(l) ==
  [f \in Flags |->
     IF flagsToShed[f] = "unlisted" THEN cache[f]
     ELSE IF l # "none" THEN flagsToShed[f] ELSE configured(overrides, f)]

\* The return to "none" waits until the cooldown has passed since the level
\* last changed to an elevated one.
CoolingDown(l) == l = "none" /\ shedderClock - lastElevatedAt < cooldownPeriod

\* By the timer, or by evaluateNow(), which works after a stop as well: the collector
\* stays.
evaluate ==
  /\ \E l \in Levels \ {level} :
       /\ ~CoolingDown(l)
       /\ lastElevatedAt' = IF l # "none" THEN shedderClock ELSE lastElevatedAt
       /\ level' = l
       /\ cache' = applyShedding(l)
  /\ rewritten' = FALSE
  /\ UNCHANGED <<shedderClock, flagsToShed, overrides, initialized, changes>>

SheddingTick ==
  /\ shedderClock < MaxTicks /\ shedderClock' = shedderClock + 1
  /\ UNCHANGED <<level, lastElevatedAt, flagsToShed, overrides, cache, initialized,
                 changes, rewritten>>

\* A reload or a hot update.  'feature_flags' and 'capacity_shedding' are
\* objects of a fresh configuration, so both callbacks run on every change:
\* the first puts every flag back to its configured status, shed or not, the
\* second reads the list of flags to shed.
ConfigChange ==
  /\ changes < MaxChanges /\ changes' = changes + 1
  /\ \E o \in [Flags -> {"unset", "disabled"}], s \in [Flags -> ShedStatus] :
       /\ overrides' = o
       /\ flagsToShed' = s
       /\ cache' = [f \in Flags |-> configured(o, f)]
  /\ rewritten' = TRUE
  /\ UNCHANGED <<level, lastElevatedAt, shedderClock, initialized>>

\* Stopping forgets the level and leaves the overrides in the cache.
stopCapacityShedder ==
  /\ initialized' = FALSE
  /\ level' = "none"
  /\ rewritten' = TRUE
  /\ UNCHANGED <<lastElevatedAt, shedderClock, flagsToShed, overrides, cache, changes>>

initCapacityShedder ==
  /\ ~initialized /\ initialized' = TRUE
  /\ UNCHANGED <<level, lastElevatedAt, shedderClock, flagsToShed, overrides, cache,
                 changes, rewritten>>

SheddingNext ==
  evaluate \/ SheddingTick \/ ConfigChange \/ stopCapacityShedder \/ initCapacityShedder

-----------------------------------------------------------------------------
(* Properties. *)

\* Flags follow the level: while the shedder reports a level every listed flag has
\* its shed status, and once it reports none every flag is back to what the
\* configuration says.  A configuration change under load, or a stop, breaks this
\* until the next change of level; even then, no flag has a status that neither
\* the configuration nor the list gives it, and one that is not listed is never shed.
ShedFollowsLevel ==
  \A f \in Flags :
    LET shed == IF flagsToShed[f] = "unlisted" THEN configured(overrides, f) ELSE flagsToShed[f] IN
    /\ cache[f] \in {configured(overrides, f), shed}
    /\ rewritten \/ cache[f] = IF level # "none" THEN shed ELSE configured(overrides, f)
=============================================================================
