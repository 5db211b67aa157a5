------------------------------ MODULE MCServices ------------------------------
(***************************************************************************)
(* Model-checking instance of the services that owe their callers an       *)
(* outcome: certificate rotation, the mTLS manager, the configuration      *)
(* manager, the audit log, the connection pools and the shutdown.  They    *)
(* share no state, so each is explored with the others at rest: the state  *)
(* space is the sum of theirs, not the product.                            *)
(***************************************************************************)
EXTENDS AcmeRotation, Mtls, ConfigManager, AuditLog, PoolIsolation, Shutdown

\* One connection for each pool to begin with.
InitialMax == [t \in {"oltp", "olap"} |-> 1]

VARIABLE focus   \* the service that moves

vars == <<acmeVars, mtlsVars, configVars, auditVars, poolVars, shutdownVars, focus>>

Init ==
  /\ focus \in {"acme", "mtls", "config", "audit", "pools", "shutdown"}
  /\ AcmeInit /\ MtlsInit /\ ConfigInit /\ AuditInit /\ PoolInit /\ ShutdownInit
  /\ focus # "acme" => method = "http-01"
  /\ focus # "config" => remote = "valid"
  /\ focus # "audit" => errorListener
  /\ focus # "shutdown" => persist = "absent"

Next ==
  /\ UNCHANGED focus
  /\ \/ /\ focus = "acme" /\ AcmeNext
        /\ UNCHANGED <<mtlsVars, configVars, auditVars, poolVars, shutdownVars>>
     \/ /\ focus = "mtls" /\ MtlsNext
        /\ UNCHANGED <<acmeVars, configVars, auditVars, poolVars, shutdownVars>>
     \/ /\ focus = "config" /\ ConfigNext
        /\ UNCHANGED <<acmeVars, mtlsVars, auditVars, poolVars, shutdownVars>>
     \/ /\ focus = "audit" /\ AuditNext
        /\ UNCHANGED <<acmeVars, mtlsVars, configVars, poolVars, shutdownVars>>
     \/ /\ focus = "pools" /\ PoolNext
        /\ UNCHANGED <<acmeVars, mtlsVars, configVars, auditVars, shutdownVars>>
     \/ /\ focus = "shutdown" /\ ShutdownNext
        /\ UNCHANGED <<acmeVars, mtlsVars, configVars, auditVars, poolVars>>

\* No fair action of a service at rest is enabled.
Spec ==
  /\ Init /\ [][Next]_vars
  /\ AcmeFairness /\ MtlsFairness /\ ConfigFairness /\ AuditFairness /\ PoolFairness
  /\ ShutdownFairness

-----------------------------------------------------------------------------
\* The certificate and key on disk match, what is served is one whole pair, and the
\* mTLS manager uses one pair the policy allows.
CertificateSafe ==
  /\ AcmeTypeOK /\ PairOnDisk /\ ServesWholePair
  /\ MtlsTypeOK /\ PairInUse

\* A subscriber of a path holds the value that get() returns, unless the value
\* changed under a reload in flight that then restored it.
ConfigSafe == ConfigTypeOK /\ SubscriberCurrent

\* The audit queue stays within its capacity, and what it drops is counted.
AuditSafe == AuditTypeOK /\ LossIsCounted

\* A connection is checked out for a call that is under way or gives it back, and
\* no pool is resized to nothing; and a process exits with 0 only when its own
\* connections were served and its state persisted.
PoolSafe ==
  /\ PoolTypeOK /\ ConnectionsOwned
  /\ ShutdownTypeOK /\ CleanExit

=============================================================================
