----------------------------- MODULE MCBackground -----------------------------
(***************************************************************************)
(* Model-checking instance of the stores and background workers: the       *)
(* dead-letter queue, the nonce sequencer over it, migrations, rewards,    *)
(* secret rotation, state archival, the Kafka scaler, configuration audit, *)
(* load shedding, the rate limiter, the cache and the drift auditor.  Two *)
(* share state: the sequencer submits through the queue, and the table     *)
(* reward_tx is shared with the two-phase protocol, whose steps on it are  *)
(* part of RewardDistributor.  Each component is explored with the others  *)
(* at rest: the state space is the sum of theirs, not the product.         *)
(***************************************************************************)
EXTENDS NonceSequencer, MigrationManager, RewardDistributor, SecretRotation,
        StateArchival, KafkaScaler, ConfigAudit, Shedding, RateLimiter, CacheLayer,
        DriftAuditor

\* Three files, the first two with one version, like the repository's two of 011; the
\* last is like 012: the only one with an @down, which tolerates a schema without it.
Versions == <<1, 1, 2>>

VARIABLE focus   \* the component that moves

stores == <<dlqVars, sequencerVars, migrationVars, rewardVars, secretVars>>
workers == <<archivalVars, kafkaVars, configAuditVars, sheddingVars>>
ingress == <<rateVars, cacheVars, driftVars>>
vars == <<stores, workers, ingress, focus>>

Init ==
  /\ focus \in {"dlq", "sequencer", "migrations", "rewards", "secrets", "archival", "kafka",
                "config audit", "shedding", "rate limiter", "cache", "drift"}
  /\ DlqInit /\ SequencerInit /\ MigrationInit /\ RewardInit /\ SecretInit
  /\ ArchivalInit /\ KafkaInit /\ ConfigAuditInit /\ SheddingInit
  /\ RateInit /\ CacheInit /\ DriftInit
  /\ focus # "shedding" => \A f \in Flags : flagsToShed[f] = "unlisted" /\ overrides[f] = "unset"
  /\ focus # "rate limiter" => store = "memory"
  /\ focus # "dlq" => \A o \in Operators : operator[o].id = 1

Next ==
  /\ UNCHANGED focus
  /\ \/ /\ focus = "dlq" /\ DlqNext({1, 2} \cap Messages)
        /\ UNCHANGED <<sequencerVars, migrationVars, rewardVars, secretVars, workers, ingress>>
     \/ /\ focus = "sequencer" /\ SequencerNext
        /\ UNCHANGED <<migrationVars, rewardVars, secretVars, workers, ingress>>
     \/ /\ focus = "migrations" /\ MigrationNext
        /\ UNCHANGED <<dlqVars, sequencerVars, rewardVars, secretVars, workers, ingress>>
     \/ /\ focus = "rewards" /\ RewardNext
        /\ UNCHANGED <<dlqVars, sequencerVars, migrationVars, secretVars, workers, ingress>>
     \/ /\ focus = "secrets" /\ SecretNext
        /\ UNCHANGED <<dlqVars, sequencerVars, migrationVars, rewardVars, workers, ingress>>
     \/ /\ focus = "archival" /\ ArchivalNext
        /\ UNCHANGED <<stores, kafkaVars, configAuditVars, sheddingVars, ingress>>
     \/ /\ focus = "kafka" /\ KafkaNext
        /\ UNCHANGED <<stores, archivalVars, configAuditVars, sheddingVars, ingress>>
     \/ /\ focus = "config audit" /\ ConfigAuditNext
        /\ UNCHANGED <<stores, archivalVars, kafkaVars, sheddingVars, ingress>>
     \/ /\ focus = "shedding" /\ SheddingNext
        /\ UNCHANGED <<stores, archivalVars, kafkaVars, configAuditVars, ingress>>
     \/ /\ focus = "rate limiter" /\ RateNext
        /\ UNCHANGED <<stores, workers, cacheVars, driftVars>>
     \/ /\ focus = "cache" /\ CacheNext
        /\ UNCHANGED <<stores, workers, rateVars, driftVars>>
     \/ /\ focus = "drift" /\ DriftNext
        /\ UNCHANGED <<stores, workers, rateVars, cacheVars>>

Spec == Init /\ [][Next]_vars

-----------------------------------------------------------------------------
\* A component at rest stays in its initial state, which its own behaviours begin
\* with; its property is evaluated in those.
Moves(components) == focus \in components

\* The dead-letter queue neither loses a failed message nor handles one twice.
DeadLetterSafe ==
  Moves({"dlq", "sequencer"}) => DlqTypeOK /\ FailureIsKept /\ HandledOnce

\* The log covers what is in flight, and nonces are given out in order.
SequencerSafe == Moves({"sequencer"}) => SequencerTypeOK /\ WalCoversInFlight /\ NonceOrder

\* The migrations table tells the truth and has no gap.
SchemaSafe == Moves({"migrations"}) => MigrationTypeOK /\ AppliedIsPresent /\ NoGap

\* The distributor neither creates nor loses rewards: only the rollback of a
\* transition takes payments back; and a pool's shares fit into it.
RewardSafe == Moves({"rewards"}) => RewardTypeOK /\ RewardConserved /\ AllocationFits

\* At rest a secret's labels, record and canary count agree.
SecretSafe == Moves({"secrets"}) => SecretTypeOK /\ SecretCoherent

\* The watchlist claims no renewal the chain has not seen, and renewals of a key
\* are a gap apart unless ticks overlapped or an answer was lost.
ArchivalSafe == Moves({"archival"}) => ArchivalTypeOK /\ RenewalsSpaced

\* The consumer group stays within its limits, and scalings a cooldown apart
\* unless two evaluations were in flight at once.
ScalerSafe == Moves({"kafka"}) => KafkaTypeOK /\ ScaledWithinLimits

\* There is never a second active baseline, nor none once one was captured, an
\* undisturbed rollback restores it, and the drift auditor's history has no hole.
BaselineSafe ==
  /\ Moves({"config audit"}) => ConfigAuditTypeOK /\ OneActiveBaseline /\ RollbackReverts
  /\ Moves({"drift"}) => DriftTypeOK /\ HistoryIsTail

\* The flags that are degraded are those the level sheds, unless the configuration
\* changed under load or the shedder was stopped; and what the rate limiter admits
\* fits into its bucket, up to what requests out of order credit twice.
IngressSafe ==
  /\ Moves({"shedding"}) => SheddingTypeOK /\ ShedFollowsLevel
  /\ Moves({"rate limiter"}) => RateTypeOK /\ AdmissionBounded /\ RetryIsEnough

\* The cache shows no value older than the newest write that has returned, but for
\* overlapping writes and a connection that comes up late.
CacheSafe == Moves({"cache"}) => CacheTypeOK /\ NoStaleValue
=============================================================================
