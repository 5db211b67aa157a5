-------------------------------- MODULE Mtls --------------------------------
(***************************************************************************)
(* src/security/mtls.ts and its use in index.js: the manager that loads    *)
(* the workload certificate and its key, the watch and the poll that       *)
(* reload them, and the two ways a handshake gets its certificate.         *)
(* Another process (the workload API's agent) replaces the two files one   *)
(* after the other, also between the two reads of a load.                  *)
(*                                                                         *)
(* A pair is known by its version.  Metrics, the CA file and the check of  *)
(* the peer's identity are left out.                                       *)
(***************************************************************************)
EXTENDS Integers

CONSTANTS
  MaxVersion,   \* bound: rotations by the agent
  Refused       \* versions that break the validity or identity policy

ASSUME MtlsAssumption == MaxVersion \in Nat /\ Refused \subseteq 1..MaxVersion

VARIABLES
  onDisk,         \* version of the cert file and of the key file
  inUse,         \* version of the current secure context; -1 when none
  contentHash,    \* what was read at the last load that succeeded
  loading,        \* the load under way: who called it, and the certificate it has read
  rotationWatch,  \* "off", "on", or the bootstrap failed
  defaultCert     \* version in the options of the https server; -1 before it listens

mtlsVars == <<onDisk, inUse, contentHash, loading, rotationWatch, defaultCert>>

PairVersions == 0..MaxVersion
NotLoading == [by |-> "nobody", cert |-> -1]

MtlsTypeOK ==
  /\ onDisk \in [cert : PairVersions, key : PairVersions]
  /\ {inUse, defaultCert} \subseteq PairVersions \cup {-1}
  /\ contentHash \in [cert : PairVersions, key : PairVersions]
  /\ loading \in [by : {"nobody", "start", "serve", "reload"}, cert : PairVersions \cup {-1}]
  /\ rotationWatch \in {"off", "on", "failed"}

MtlsInit ==
  /\ onDisk = [cert |-> 0, key |-> 0] /\ contentHash = onDisk
  /\ inUse = -1 /\ loading = NotLoading /\ defaultCert = -1 /\ rotationWatch = "off"

-----------------------------------------------------------------------------
\* The agent, which begins no rotation before the last is done.
Rotate(file) ==
  /\ \/ onDisk.cert = onDisk.key /\ onDisk[file] < MaxVersion
     \/ \E other \in {"cert", "key"} : onDisk[other] > onDisk[file]
  /\ onDisk' = [onDisk EXCEPT ![file] = @ + 1]
  /\ UNCHANGED <<inUse, contentHash, loading, rotationWatch, defaultCert>>

\* index.js starts the watch, whose first act is a load.
startRotationWatch ==
  /\ rotationWatch = "off" /\ loading = NotLoading
  /\ loading' = [by |-> "start", cert |-> onDisk.cert]
  /\ UNCHANGED <<onDisk, inUse, contentHash, rotationWatch, defaultCert>>

\* The poll, or the watcher, which sees the certificate only: reloadIfChanged().
onChange ==
  /\ rotationWatch = "on" /\ loading = NotLoading /\ defaultCert # -1
  /\ loading' = [by |-> "reload", cert |-> onDisk.cert]
  /\ UNCHANGED <<onDisk, inUse, contentHash, rotationWatch, defaultCert>>

\* serverOptions() loads once more before the server listens.
serverOptions ==
  /\ rotationWatch = "on" /\ loading = NotLoading /\ defaultCert = -1
  /\ loading' = [by |-> "serve", cert |-> onDisk.cert]
  /\ UNCHANGED <<onDisk, inUse, contentHash, rotationWatch, defaultCert>>

\* What a load has read once it has read the key; the pair is refused when it is
\* against the policy or does not match (createSecureContext throws).
pairRead == [cert |-> loading.cert, key |-> onDisk.key]
pairGood == pairRead.cert \notin Refused /\ pairRead.cert = pairRead.key
unchanged == inUse # -1 /\ contentHash = pairRead

\* An error of a reload is logged; an error of the first two loads ends the
\* bootstrap.  The server keeps the certificate of its options for clients that
\* name no server.
Loaded(took) ==
  /\ inUse' = IF took THEN pairRead.cert ELSE inUse
  /\ rotationWatch' = CASE loading.by = "reload" -> rotationWatch
                         [] unchanged \/ pairGood -> "on"
                         [] OTHER -> "failed"
  /\ defaultCert' = IF loading.by = "serve" /\ (unchanged \/ pairGood) THEN inUse' ELSE defaultCert
  /\ loading' = NotLoading
  /\ UNCHANGED onDisk

\* The pair is taken over unless it is the one in use already or is refused.
loadPair ==
  /\ loading # NotLoading
  /\ Loaded(~unchanged /\ pairGood)
  /\ contentHash' = IF ~unchanged /\ pairGood THEN pairRead ELSE contentHash

stopRotationWatch ==
  /\ rotationWatch = "on" /\ loading = NotLoading
  /\ rotationWatch' = "off"
  /\ UNCHANGED <<onDisk, inUse, contentHash, loading, defaultCert>>

MtlsNext ==
  \/ \E file \in {"cert", "key"} : Rotate(file)
  \/ startRotationWatch \/ serverOptions \/ onChange \/ loadPair \/ stopRotationWatch

\* The poll goes on, and a load is synchronous.
MtlsFairness == WF_mtlsVars(serverOptions \/ onChange \/ loadPair)

-----------------------------------------------------------------------------
\* What is in use is one pair the policy allows, not newer than the disk, and the
\* manager knows it by what was read, so that the next change is noticed: however
\* the agent's writes fall between the reads.
PairInUse ==
  /\ inUse # -1 => /\ contentHash = [cert |-> inUse, key |-> inUse]
                    /\ inUse \notin Refused
                    /\ inUse <= onDisk.cert /\ inUse <= onDisk.key
  /\ defaultCert # -1 => defaultCert \notin Refused /\ defaultCert <= inUse

\* A pair that stays on disk and that the policy allows is in use at last, although
\* the watcher does not see the key: the poll finds it.
RotationIsLoaded ==
  \A v \in PairVersions \ Refused :
    (onDisk = [cert |-> v, key |-> v] /\ rotationWatch = "on") ~>
      (inUse = v \/ onDisk # [cert |-> v, key |-> v] \/ rotationWatch # "on")
=============================================================================
