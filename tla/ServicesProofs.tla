--------------------------- MODULE ServicesProofs ---------------------------
(***************************************************************************)
(* Proofs about the services of MCServices: certificates, configuration,   *)
(* the audit log, the connection pools and the shutdown, each for every    *)
(* value of its constants.  They share no state, so what is proved of the  *)
(* specification of each holds of all of them side by side.                *)
(***************************************************************************)
EXTENDS MCServices, FiniteSetTheorems, SequenceTheorems, TLAPS

AcmeSpec == AcmeInit /\ [][AcmeNext]_acmeVars
MtlsSpec == MtlsInit /\ [][MtlsNext]_mtlsVars
ConfigSpec == ConfigInit /\ [][ConfigNext]_configVars
PoolSpec == PoolInit /\ [][PoolNext]_poolVars
ShutdownSpec == ShutdownInit /\ [][ShutdownNext]_shutdownVars

-----------------------------------------------------------------------------
(***************************************************************************)
(* The shutdown                                                            *)
(***************************************************************************)

\* The callback of server.close() came after the last connection.
DrainedIsEmpty == shutdown_ \in {"draining", "persisting"} => activeConnections = {}

ShutdownInv == ShutdownTypeOK /\ DrainedIsEmpty /\ CleanExit

\* The invariant of the shutdown is inductive.
LEMMA ShutdownInvariance == ShutdownSpec => []ShutdownInv
<1>1. ShutdownInit => ShutdownInv
  BY DEF ShutdownInit, ShutdownInv, ShutdownTypeOK, DrainedIsEmpty, CleanExit
<1>2. ASSUME ShutdownInv, [ShutdownNext]_shutdownVars PROVE ShutdownInv'
  <2> USE <1>2 DEF ShutdownInv, ShutdownTypeOK, DrainedIsEmpty, CleanExit, Up
  <2>1. ASSUME NEW s \in Sockets, Accept(s) \/ Close(s) PROVE ShutdownInv'
    BY <2>1 DEF Accept, Close
  <2>2. CASE handleShutdown \/ serverClosed \/ Drained
    BY <2>2 DEF handleShutdown, serverClosed, Drained
  <2>3. CASE PersistEnds \/ Exit \/ ForceTimeout
    BY <2>3 DEF PersistEnds, Exit, ForceTimeout
  <2>4. CASE UNCHANGED shutdownVars
    BY <2>4 DEF shutdownVars
  <2> QED BY <2>1, <2>2, <2>3, <2>4 DEF ShutdownNext
<1> QED BY <1>1, <1>2, PTL DEF ShutdownSpec

-----------------------------------------------------------------------------
(***************************************************************************)
(* The mTLS manager                                                        *)
(***************************************************************************)

\* The certificate that a load has read was on disk.
ReadFromDisk ==
  loading # NotLoading => loading.by # "nobody" /\ loading.cert \in 0..onDisk.cert

MtlsInv == MtlsTypeOK /\ ReadFromDisk /\ PairInUse

\* The agent replaces one of the two files: versions only grow.
LEMMA RotateInv ==
  ASSUME MtlsInv, NEW f \in {"cert", "key"}, Rotate(f)
  PROVE  MtlsInv'
<1>1. /\ onDisk \in [cert : PairVersions, key : PairVersions]
      /\ onDisk.cert \in Nat /\ onDisk.key \in Nat
      /\ onDisk.cert <= MaxVersion /\ onDisk.key <= MaxVersion
  BY MtlsAssumption DEF MtlsInv, MtlsTypeOK, PairVersions
<1>2. /\ onDisk' \in [cert : PairVersions, key : PairVersions]
      /\ onDisk'.cert \in Nat /\ onDisk'.key \in Nat
      /\ onDisk.cert <= onDisk'.cert /\ onDisk.key <= onDisk'.key
  <2>1. CASE f = "cert"
    <3>1. onDisk'.cert = onDisk.cert + 1 /\ onDisk'.key = onDisk.key
          /\ onDisk.cert < MaxVersion
      BY <1>1, <2>1, MtlsAssumption DEF Rotate
    <3>2. onDisk' = [cert |-> onDisk'.cert, key |-> onDisk'.key]
      BY <1>1, <2>1 DEF Rotate
    <3> QED BY <1>1, <3>1, <3>2, MtlsAssumption DEF PairVersions
  <2>2. CASE f = "key"
    <3>1. onDisk'.key = onDisk.key + 1 /\ onDisk'.cert = onDisk.cert
          /\ onDisk.key < MaxVersion
      BY <1>1, <2>2, MtlsAssumption DEF Rotate
    <3>2. onDisk' = [cert |-> onDisk'.cert, key |-> onDisk'.key]
      BY <1>1, <2>2 DEF Rotate
    <3> QED BY <1>1, <3>1, <3>2, MtlsAssumption DEF PairVersions
  <2> QED BY <2>1, <2>2
<1>3. UNCHANGED <<inUse, contentHash, loading, rotationWatch, defaultCert>>
  BY DEF Rotate
<1>4. MtlsTypeOK'
  BY <1>2, <1>3 DEF MtlsInv, MtlsTypeOK
<1>5. ReadFromDisk'
  BY <1>1, <1>2, <1>3 DEF MtlsInv, ReadFromDisk
<1>6. PairInUse'
  <2>1. inUse \in Int
    BY DEF MtlsInv, MtlsTypeOK, PairVersions
  <2> QED BY <1>1, <1>2, <1>3, <2>1 DEF MtlsInv, PairInUse
<1> QED BY <1>4, <1>5, <1>6 DEF MtlsInv

\* A load that ends takes over a whole pair, no older than the one in use, or nothing.
LEMMA LoadInv == ASSUME MtlsInv, loadPair PROVE MtlsInv'
<1> DEFINE c == loading.cert
           k == onDisk.key
           took == ~unchanged /\ pairGood
<1>1. /\ c \in PairVersions /\ c \in Nat /\ c <= onDisk.cert /\ k \in PairVersions
      /\ k \in Nat /\ onDisk.cert \in Nat /\ loading.by \in {"start", "serve", "reload"}
      /\ inUse \in Int /\ defaultCert \in Int
  <2>1. loading.by # "nobody" /\ loading.cert \in 0..onDisk.cert
    BY DEF MtlsInv, ReadFromDisk, loadPair
  <2> QED BY <2>1, MtlsAssumption DEF MtlsInv, MtlsTypeOK, PairVersions
<1>2. pairRead = [cert |-> c, key |-> k]
  BY DEF pairRead
<1>3. /\ inUse' = IF took THEN c ELSE inUse
      /\ contentHash' = IF took THEN [cert |-> c, key |-> k] ELSE contentHash
      /\ loading' = NotLoading /\ onDisk' = onDisk
      /\ defaultCert' = IF loading.by = "serve" /\ (unchanged \/ pairGood) THEN inUse'
                        ELSE defaultCert
  BY <1>2 DEF loadPair, Loaded
<1>0. rotationWatch' \in {"off", "on", "failed"}
  <2>1. rotationWatch' = CASE loading.by = "reload" -> rotationWatch
                           [] unchanged \/ pairGood -> "on"
                           [] OTHER -> "failed"
    BY DEF loadPair, Loaded
  <2>2. rotationWatch \in {"off", "on", "failed"}
    BY DEF MtlsInv, MtlsTypeOK
  <2>3. CASE loading.by = "reload" /\ (unchanged \/ pairGood)
    BY <2>1, <2>2, <2>3
  <2>4. CASE loading.by = "reload" /\ ~(unchanged \/ pairGood)
    BY <2>1, <2>2, <2>4
  <2>5. CASE loading.by # "reload"
    BY <2>1, <2>5
  <2> QED BY <2>3, <2>4, <2>5
<1>4. took => c = k /\ c \notin Refused
  BY <1>2 DEF pairGood
<1>5. unchanged => inUse # -1
  BY DEF unchanged
<1>6. loading'.by = "nobody" /\ loading'.cert = -1
      /\ loading' \in [by : {"nobody", "start", "serve", "reload"},
                       cert : PairVersions \cup {-1}]
  BY <1>3 DEF NotLoading
<1> HIDE DEF c, k, took
<1>7. MtlsTypeOK'
  BY <1>0, <1>1, <1>3, <1>6 DEF MtlsInv, MtlsTypeOK
<1>8. ReadFromDisk'
  BY <1>3 DEF ReadFromDisk, NotLoading
<1>9. CASE took
  <2>1. inUse' = c /\ contentHash' = [cert |-> c, key |-> c] /\ c \notin Refused
    BY <1>3, <1>4, <1>9
  <2>2. c <= onDisk'.cert /\ c <= onDisk'.key
    BY <1>1, <1>3, <1>4, <1>9 DEF k
  <2>3. defaultCert # -1 => defaultCert \notin Refused /\ defaultCert <= c
    <3> SUFFICES ASSUME defaultCert # -1 PROVE defaultCert \notin Refused /\ defaultCert <= c
      OBVIOUS
    <3>1. defaultCert \notin Refused /\ defaultCert <= inUse
      BY DEF MtlsInv, PairInUse
    <3>2. inUse # -1 => inUse <= k
      BY DEF MtlsInv, PairInUse, k
    <3> QED BY <1>1, <1>4, <1>9, <3>1, <3>2
  <2>4. defaultCert' = c \/ defaultCert' = defaultCert
    BY <1>3, <2>1
  <2>5. PairInUse'
    BY <1>1, <2>1, <2>2, <2>3, <2>4 DEF PairInUse
  <2> QED BY <1>7, <1>8, <2>5 DEF MtlsInv
<1>10. CASE ~took
  <2>1. inUse' = inUse /\ contentHash' = contentHash
    BY <1>3, <1>10
  <2>2. defaultCert' = defaultCert \/ (defaultCert' = inUse /\ inUse # -1)
    BY <1>3, <1>5, <1>10, <2>1 DEF took
  <2>3. PairInUse'
    BY <1>1, <1>3, <2>1, <2>2 DEF MtlsInv, PairInUse
  <2> QED BY <1>7, <1>8, <2>3 DEF MtlsInv
<1> QED BY <1>9, <1>10

\* The invariant of the mTLS manager is inductive.
LEMMA MtlsInvariance == MtlsSpec => []MtlsInv
<1>1. MtlsInit => MtlsInv
  <2> SUFFICES ASSUME MtlsInit PROVE MtlsInv
    OBVIOUS
  <2>1. 0 \in PairVersions /\ inUse = -1 /\ defaultCert = -1
    BY MtlsAssumption DEF MtlsInit, PairVersions
  <2>2. onDisk \in [cert : PairVersions, key : PairVersions] /\ contentHash = onDisk
    BY <2>1 DEF MtlsInit
  <2>3. loading \in [by : {"nobody", "start", "serve", "reload"}, cert : PairVersions \cup {-1}]
    BY DEF MtlsInit, NotLoading
  <2>4. MtlsTypeOK
    BY <2>1, <2>2, <2>3 DEF MtlsInit, MtlsTypeOK
  <2> QED BY <2>1, <2>4 DEF MtlsInit, MtlsInv, ReadFromDisk, PairInUse
<1>2. ASSUME MtlsInv, [MtlsNext]_mtlsVars PROVE MtlsInv'
  <2>1. ASSUME NEW by \in {"start", "serve", "reload"},
               loading' = [by |-> by, cert |-> onDisk.cert],
               UNCHANGED <<onDisk, inUse, contentHash, rotationWatch, defaultCert>>
        PROVE  MtlsInv'
    <3>1. onDisk.cert \in PairVersions /\ onDisk.cert \in 0..onDisk.cert
      BY <1>2, MtlsAssumption DEF MtlsInv, MtlsTypeOK, PairVersions
    <3>2. loading'.by = by /\ loading'.cert = onDisk.cert
      BY <2>1
    <3> QED BY <1>2, <2>1, <3>1, <3>2 DEF MtlsInv, MtlsTypeOK, ReadFromDisk, PairInUse
  <2>2. CASE startRotationWatch \/ serverOptions \/ onChange
    BY <2>1, <2>2 DEF startRotationWatch, serverOptions, onChange
  <2>3. CASE stopRotationWatch
    BY <1>2, <2>3 DEF stopRotationWatch, MtlsInv, MtlsTypeOK, ReadFromDisk, PairInUse
  <2>4. CASE UNCHANGED mtlsVars
    BY <1>2, <2>4 DEF mtlsVars, MtlsInv, MtlsTypeOK, ReadFromDisk, PairInUse
  <2> QED BY <1>2, <2>2, <2>3, <2>4, RotateInv, LoadInv DEF MtlsNext
<1> QED BY <1>1, <1>2, PTL DEF MtlsSpec

-----------------------------------------------------------------------------
(***************************************************************************)
(* Certificate rotation                                                    *)
(***************************************************************************)
CheckRecord ==
  [pc : {"idle", "skipped", "renewed", "failed", "dead"} \cup Checking,
   cert : Renames, key : Renames]

Early == {"idle", "issue", "authorize"}

\* The two renames of a call begin together, once it has its pair, and one that fails
\* tears the pair.
RenamesTogether ==
  \A c \in Checks :
    /\ check[c].pc \in Early => check[c].cert = "none"
    /\ check[c].cert = "none" <=> check[c].key = "none"
    /\ "failed" \in {check[c].cert, check[c].key} => torn

\* While nothing is torn one call writes, and it finds one pair and leaves one pair.
OneWriter ==
  ~torn =>
    /\ \A c, d \in Checks : Writing(c) /\ Writing(d) => c = d
    /\ \A c \in Checks : check[c].cert = "pending" =>
         IF check[c].key = "pending" THEN certFile = keyFile ELSE keyFile = c
    /\ \A c \in Checks : check[c].key = "pending" /\ check[c].cert # "pending" => certFile = c

\* What was renamed, and what is served, comes from a call whose rename succeeded.
FilesAreMade ==
  \A c \in Checks :
    /\ certFile = c => check[c].pc \notin Early /\ check[c].cert \in {"done", "renamed", "none"}
    /\ keyFile = c => check[c].pc \notin Early /\ check[c].key \in {"done", "renamed", "none"}
    /\ served = c => /\ check[c].pc \notin Early
                     /\ {check[c].cert, check[c].key} \subseteq {"done", "renamed", "none"}

ChallengeIsAwaited == \A c \in challenge : check[c].pc \in {"authorize", "dead"}

AcmeInv ==
  /\ AcmeTypeOK /\ RenamesTogether /\ OneWriter /\ PairOnDisk /\ FilesAreMade
  /\ ChallengeIsAwaited

\* A call that goes on without renaming anything.
LEMMA CheckMoves ==
  ASSUME AcmeInv, NEW c \in Checks,
         NEW label \in {"skipped", "renewed", "failed"} \cup Checking,
         CheckGoto(c, label), label \in Early => check[c].pc \in Early,
         check[c].pc = "authorize" => c \notin challenge',
         challenge' \ {c} \subseteq challenge, c \in challenge' => label = "authorize",
         challenge' \subseteq Checks,
         process_' \in {process_, "starting"},
         UNCHANGED <<today, disk, expiry, method, debounce, served, torn>>
  PROVE  AcmeInv'
<1> DEFINE r == [check[c] EXCEPT !.pc = label]
<1>1. check \in [Checks -> CheckRecord]
  BY DEF AcmeInv, AcmeTypeOK, CheckRecord
<1>2. r \in CheckRecord /\ r.cert = check[c].cert /\ r.key = check[c].key /\ r.pc = label
  BY <1>1 DEF CheckRecord, Checking
<1>3. check' = [check EXCEPT ![c] = r]
  BY <1>1 DEF CheckGoto
<1> HIDE DEF r
<1>4. /\ check'[c] = r /\ \A d \in Checks : d # c => check'[d] = check[d]
      /\ check' \in [Checks -> CheckRecord]
  BY <1>1, <1>2, <1>3
<1>5. /\ \A d \in Checks : check'[d].cert = check[d].cert /\ check'[d].key = check[d].key
      /\ UNCHANGED <<certFile, keyFile, served, torn>>
  BY <1>2, <1>4 DEF disk
<1>6. AcmeTypeOK'
  BY <1>4 DEF AcmeInv, AcmeTypeOK, disk, CheckRecord
<1>7. RenamesTogether' /\ OneWriter' /\ PairOnDisk'
  <2>1. RenamesTogether'
    BY <1>2, <1>4, <1>5 DEF AcmeInv, RenamesTogether
  <2> QED BY <1>5, <2>1 DEF AcmeInv, OneWriter, PairOnDisk, Writing
<1>8. FilesAreMade'
  BY <1>2, <1>4, <1>5 DEF AcmeInv, FilesAreMade
<1>9. ChallengeIsAwaited'
  BY <1>2, <1>4 DEF AcmeInv, ChallengeIsAwaited
<1> QED BY <1>6, <1>7, <1>8, <1>9 DEF AcmeInv

\* A call gets its pair, or not.
LEMMA IssueInv == ASSUME AcmeInv, NEW c \in Checks, issueCertificate(c) PROVE AcmeInv'
<1>1. /\ check \in [Checks -> CheckRecord] /\ check[c].pc = "authorize"
      /\ challenge \subseteq Checks /\ expiry \in [Pairs -> 0..(MaxDay + Validity)]
      /\ today \in 0..MaxDay /\ torn \in BOOLEAN
  BY DEF AcmeInv, AcmeTypeOK, CheckRecord, issueCertificate
<1>2. challenge' \subseteq challenge \ {c}
  BY <1>1 DEF issueCertificate, withdrawn
<1>3. CASE CheckGoto(c, "failed") /\ UNCHANGED <<expiry, torn>>
  BY <1>1, <1>2, <1>3, CheckMoves DEF issueCertificate, Early
<1>4. CASE /\ check' = [check EXCEPT ![c] = [pc |-> "write", cert |-> "pending",
                                             key |-> "pending"]]
           /\ expiry' = [expiry EXCEPT ![c] = today + Validity]
           /\ torn' = (torn \/ \E d \in Checks : "pending" \in {check[d].cert, check[d].key})
  <2> DEFINE r == [pc |-> "write", cert |-> "pending", key |-> "pending"]
  <2>1. r \in CheckRecord /\ r.pc = "write" /\ r.cert = "pending" /\ r.key = "pending"
    BY DEF CheckRecord, Checking, Renames
  <2>2. check' = [check EXCEPT ![c] = r]
    BY <1>4
  <2> HIDE DEF r
  <2>3. /\ check'[c] = r /\ \A d \in Checks : d # c => check'[d] = check[d]
        /\ check' \in [Checks -> CheckRecord]
    BY <1>1, <2>1, <2>2
  <2>4. UNCHANGED <<today, certFile, keyFile, method, debounce, served, process_>>
    BY DEF issueCertificate, disk
  <2>5. expiry' \in [Pairs -> 0..(MaxDay + Validity)]
    <3>1. today + Validity \in 0..(MaxDay + Validity)
      BY <1>1, AcmeAssumption
    <3> QED BY <1>1, <1>4, <3>1
  <2>6. AcmeTypeOK'
    BY <1>1, <1>2, <1>4, <2>3, <2>4, <2>5 DEF AcmeInv, AcmeTypeOK, CheckRecord
  <2>7. ~torn' => ~torn /\ \A d \in Checks : ~Writing(d)
    BY <1>4 DEF Writing
  <2>8. RenamesTogether'
    BY <1>4, <2>1, <2>3 DEF AcmeInv, RenamesTogether, Early
  <2>9. OneWriter'
    <3> SUFFICES ASSUME ~torn' PROVE OneWriter'
      BY DEF OneWriter
    <3>1. \A d \in Checks : d # c => check'[d].cert # "pending" /\ check'[d].key # "pending"
      BY <2>3, <2>7 DEF Writing
    <3>2. certFile' = keyFile'
      BY <2>4, <2>7 DEF AcmeInv, PairOnDisk
    <3> QED BY <2>1, <2>3, <3>1, <3>2 DEF OneWriter, Writing
  <2>10. PairOnDisk'
    BY <2>1, <2>3 DEF PairOnDisk, Writing
  <2>11. FilesAreMade'
    BY <1>1, <2>3, <2>4 DEF AcmeInv, FilesAreMade, Early
  <2>12. ChallengeIsAwaited'
    BY <1>1, <1>2, <2>3 DEF AcmeInv, ChallengeIsAwaited
  <2> QED BY <2>6, <2>8, <2>9, <2>10, <2>11, <2>12 DEF AcmeInv
<1> QED BY <1>3, <1>4 DEF issueCertificate

\* A rename of the key, done or failed.
LEMMA RenameKeyInv == ASSUME AcmeInv, NEW c \in Checks, renameKey(c) PROVE AcmeInv'
<1>0. /\ check \in [Checks -> CheckRecord] /\ check[c].key = "pending" /\ c \in Pairs
      /\ challenge' = challenge /\ challenge \subseteq Checks
      /\ UNCHANGED <<today, certFile, expiry, method, served, process_>>
  BY DEF AcmeInv, AcmeTypeOK, CheckRecord, renameKey, Pairs
<1>1. PICK o \in {"done", "renamed", "failed"} :
        /\ check' = [check EXCEPT ![c] = [check[c] EXCEPT !.key = o]]
        /\ o # "failed" => keyFile' = c /\ torn' = torn /\ debounce' \in BOOLEAN
        /\ o = "failed" => keyFile' = keyFile /\ torn' = TRUE /\ debounce' = debounce
  <2>1. CASE /\ keyFile' = c
             /\ \E end \in {"done", "renamed"} : check' = [check EXCEPT ![c].key = end]
             /\ debounce' = (process_ = "up") /\ UNCHANGED torn
    <3>1. PICK end \in {"done", "renamed"} : check' = [check EXCEPT ![c].key = end]
      BY <2>1
    <3>2. check' = [check EXCEPT ![c] = [check[c] EXCEPT !.key = end]] /\ debounce' \in BOOLEAN
      BY <1>0, <2>1, <3>1
    <3> QED BY <2>1, <3>1, <3>2
  <2>2. CASE check' = [check EXCEPT ![c].key = "failed"] /\ torn' = TRUE
             /\ UNCHANGED <<keyFile, debounce>>
    <3>1. check' = [check EXCEPT ![c] = [check[c] EXCEPT !.key = "failed"]]
      BY <1>0, <2>2
    <3> QED BY <2>2, <3>1
  <2> QED BY <2>1, <2>2 DEF renameKey
<1> DEFINE r == [check[c] EXCEPT !.key = o]
<1>2. r \in CheckRecord /\ r.pc = check[c].pc /\ r.cert = check[c].cert /\ r.key = o
  BY <1>0 DEF CheckRecord, Renames
<1> HIDE DEF r
<1>3. /\ check'[c] = r /\ \A d \in Checks : d # c => check'[d] = check[d]
      /\ check' \in [Checks -> CheckRecord]
  BY <1>0, <1>1, <1>2 DEF r
<1>4. AcmeTypeOK'
  BY <1>0, <1>1, <1>3 DEF AcmeInv, AcmeTypeOK, CheckRecord
<1>5. RenamesTogether'
  BY <1>0, <1>1, <1>2, <1>3 DEF AcmeInv, RenamesTogether
<1>6. check[c].pc \notin Early
  BY <1>0 DEF AcmeInv, RenamesTogether
<1>7. ASSUME ~torn' PROVE OneWriter' /\ PairOnDisk'
  <2>1. o # "failed" /\ keyFile' = c /\ ~torn
    BY <1>1, <1>7
  <2>2. \A d \in Checks : d # c => check'[d].cert # "pending" /\ check'[d].key # "pending"
    BY <1>0, <1>3, <2>1 DEF AcmeInv, OneWriter, Writing
  <2>3. check[c].cert # "pending" => certFile = c
    BY <1>0, <2>1 DEF AcmeInv, OneWriter
  <2> QED BY <1>0, <1>2, <1>3, <2>1, <2>2, <2>3 DEF OneWriter, PairOnDisk, Writing
<1>8. OneWriter' /\ PairOnDisk'
  BY <1>7 DEF OneWriter, PairOnDisk
<1>9. FilesAreMade'
  BY <1>0, <1>1, <1>2, <1>3, <1>6 DEF AcmeInv, FilesAreMade
<1>10. ChallengeIsAwaited'
  BY <1>0, <1>2, <1>3 DEF AcmeInv, ChallengeIsAwaited
<1> QED BY <1>4, <1>5, <1>8, <1>9, <1>10 DEF AcmeInv

\* A rename of the certificate, done or failed.
LEMMA RenameCertInv == ASSUME AcmeInv, NEW c \in Checks, renameCert(c) PROVE AcmeInv'
<1>0. /\ check \in [Checks -> CheckRecord] /\ check[c].cert = "pending" /\ c \in Pairs
      /\ challenge' = challenge /\ challenge \subseteq Checks
      /\ UNCHANGED <<today, keyFile, expiry, method, served, process_>>
  BY DEF AcmeInv, AcmeTypeOK, CheckRecord, renameCert, Pairs
<1>1. PICK o \in {"done", "renamed", "failed"} :
        /\ check' = [check EXCEPT ![c] = [check[c] EXCEPT !.cert = o]]
        /\ o # "failed" => certFile' = c /\ torn' = torn /\ debounce' \in BOOLEAN
        /\ o = "failed" => certFile' = certFile /\ torn' = TRUE /\ debounce' = debounce
  <2>1. CASE /\ certFile' = c
             /\ \E end \in {"done", "renamed"} : check' = [check EXCEPT ![c].cert = end]
             /\ debounce' = (process_ = "up") /\ UNCHANGED torn
    <3>1. PICK end \in {"done", "renamed"} : check' = [check EXCEPT ![c].cert = end]
      BY <2>1
    <3>2. check' = [check EXCEPT ![c] = [check[c] EXCEPT !.cert = end]] /\ debounce' \in BOOLEAN
      BY <1>0, <2>1, <3>1
    <3> QED BY <2>1, <3>1, <3>2
  <2>2. CASE check' = [check EXCEPT ![c].cert = "failed"] /\ torn' = TRUE
             /\ UNCHANGED <<certFile, debounce>>
    <3>1. check' = [check EXCEPT ![c] = [check[c] EXCEPT !.cert = "failed"]]
      BY <1>0, <2>2
    <3> QED BY <2>2, <3>1
  <2> QED BY <2>1, <2>2 DEF renameCert
<1> DEFINE r == [check[c] EXCEPT !.cert = o]
<1>2. r \in CheckRecord /\ r.pc = check[c].pc /\ r.key = check[c].key /\ r.cert = o
  BY <1>0 DEF CheckRecord, Renames
<1> HIDE DEF r
<1>3. /\ check'[c] = r /\ \A d \in Checks : d # c => check'[d] = check[d]
      /\ check' \in [Checks -> CheckRecord]
  BY <1>0, <1>1, <1>2 DEF r
<1>4. AcmeTypeOK'
  BY <1>0, <1>1, <1>3 DEF AcmeInv, AcmeTypeOK, CheckRecord
<1>5. RenamesTogether'
  BY <1>0, <1>1, <1>2, <1>3 DEF AcmeInv, RenamesTogether
<1>6. check[c].pc \notin Early
  BY <1>0 DEF AcmeInv, RenamesTogether
<1>7. ASSUME ~torn' PROVE OneWriter' /\ PairOnDisk'
  <2>1. o # "failed" /\ certFile' = c /\ ~torn
    BY <1>1, <1>7
  <2>2. \A d \in Checks : d # c => check'[d].key # "pending" /\ check'[d].cert # "pending"
    BY <1>0, <1>3, <2>1 DEF AcmeInv, OneWriter, Writing
  <2>3. check[c].key # "pending" => keyFile = c
    BY <1>0, <2>1 DEF AcmeInv, OneWriter
  <2> QED BY <1>0, <1>2, <1>3, <2>1, <2>2, <2>3 DEF OneWriter, PairOnDisk, Writing
<1>8. OneWriter' /\ PairOnDisk'
  BY <1>7 DEF OneWriter, PairOnDisk
<1>9. FilesAreMade'
  BY <1>0, <1>1, <1>2, <1>3, <1>6 DEF AcmeInv, FilesAreMade
<1>10. ChallengeIsAwaited'
  BY <1>0, <1>2, <1>3 DEF AcmeInv, ChallengeIsAwaited
<1> QED BY <1>4, <1>5, <1>8, <1>9, <1>10 DEF AcmeInv

\* The process dies: calls that it was in the middle of are over.
LEMMA DieInv == ASSUME AcmeInv, Die PROVE AcmeInv'
<1>1. /\ check \in [Checks -> CheckRecord] /\ challenge \subseteq Checks
      /\ UNCHANGED <<today, certFile, keyFile, expiry, method, challenge, served>>
  BY DEF AcmeInv, AcmeTypeOK, CheckRecord, Die, disk
<1>2. \A c \in Checks :
        \/ check'[c] = check[c] /\ check[c].pc \notin Checking /\ ~Writing(c)
        \/ check'[c] = [pc |-> "dead", cert |-> "none", key |-> "none"]
  BY <1>1 DEF Die, Writing
<1>3. [pc |-> "dead", cert |-> "none", key |-> "none"] \in CheckRecord
  BY DEF CheckRecord, Renames
<1>4. DOMAIN check' = Checks /\ check' \in [Checks -> CheckRecord]
  BY <1>1, <1>2, <1>3 DEF Die
<1>5. \A c \in Checks :
        \/ check'[c] = check[c] /\ check[c].pc \notin Checking /\ ~Writing(c)
        \/ check'[c].pc = "dead" /\ check'[c].cert = "none" /\ check'[c].key = "none"
  BY <1>2
<1>6. torn' \in BOOLEAN /\ (~torn' => ~torn /\ \A c \in Checks : ~Writing(c))
  BY DEF Die, Writing, AcmeInv, AcmeTypeOK
<1>7. AcmeTypeOK'
  BY <1>1, <1>4, <1>6 DEF AcmeInv, AcmeTypeOK, CheckRecord, Die
<1>8. RenamesTogether'
  BY <1>5, <1>6 DEF AcmeInv, RenamesTogether, Early
<1>9. \A c \in Checks : check'[c].cert # "pending" /\ check'[c].key # "pending"
  BY <1>5 DEF Writing
<1>10. OneWriter' /\ PairOnDisk'
  BY <1>1, <1>6, <1>9 DEF AcmeInv, OneWriter, PairOnDisk, Writing
<1>11. FilesAreMade'
  BY <1>1, <1>5 DEF AcmeInv, FilesAreMade, Early
<1>12. ChallengeIsAwaited'
  BY <1>1, <1>5 DEF AcmeInv, ChallengeIsAwaited, Checking
<1> QED BY <1>7, <1>8, <1>10, <1>11, <1>12 DEF AcmeInv

\* The reloader, at start or later, takes over both files of one call.
LEMMA ServeInv ==
  ASSUME AcmeInv, (served' = certFile /\ certFile = keyFile) \/ served' = served,
         process_' \in {"up", "unstartable"}, debounce' \in BOOLEAN,
         UNCHANGED <<today, disk, expiry, check, method, challenge, torn>>
  PROVE  AcmeInv'
<1>1. UNCHANGED <<certFile, keyFile>>
  BY DEF disk
<1>2. AcmeTypeOK'
  BY <1>1 DEF AcmeInv, AcmeTypeOK
<1>3. FilesAreMade'
  BY <1>1 DEF AcmeInv, FilesAreMade
<1> QED BY <1>1, <1>2, <1>3 DEF AcmeInv, RenamesTogether, OneWriter, PairOnDisk,
                                ChallengeIsAwaited, Writing

\* The invariant of certificate rotation is inductive.
LEMMA AcmeInvariance == AcmeSpec => []AcmeInv
<1>1. AcmeInit => AcmeInv
  <2> SUFFICES ASSUME AcmeInit PROVE AcmeInv
    OBVIOUS
  <2> DEFINE r == [pc |-> "idle", cert |-> "none", key |-> "none"]
  <2>1. /\ r \in CheckRecord /\ r.cert = "none" /\ r.key = "none"
        /\ check = [c \in Checks |-> r]
    BY DEF AcmeInit, CheckRecord, Renames
  <2> HIDE DEF r
  <2>2. check \in [Checks -> CheckRecord]
        /\ \A c \in Checks : check[c].cert = "none" /\ check[c].key = "none"
    BY <2>1
  <2>3. /\ certFile = First /\ keyFile = First /\ served = First /\ First \in Pairs
        /\ First \notin Checks /\ challenge = {} /\ today \in 0..MaxDay
        /\ expiry \in [Pairs -> 0..(MaxDay + Validity)]
    BY AcmeAssumption DEF AcmeInit, Pairs
  <2>4. AcmeTypeOK
    BY <2>2, <2>3 DEF AcmeInit, AcmeTypeOK, CheckRecord
  <2>5. RenamesTogether /\ OneWriter /\ PairOnDisk
    BY <2>2, <2>3 DEF RenamesTogether, OneWriter, PairOnDisk, Writing
  <2> QED BY <2>3, <2>4, <2>5 DEF AcmeInv, FilesAreMade, ChallengeIsAwaited
<1>2. ASSUME AcmeInv, [AcmeNext]_acmeVars PROVE AcmeInv'
  <2>0. challenge \subseteq Checks /\ check \in [Checks -> CheckRecord]
    BY <1>2 DEF AcmeInv, AcmeTypeOK, CheckRecord
  <2>1. ASSUME NEW c \in Checks, checkOnce(c) \/ bootstrapTls(c) PROVE AcmeInv'
    <3>1. /\ check[c].pc = "idle" /\ process_' \in {process_, "starting"}
          /\ UNCHANGED <<today, disk, expiry, method, challenge, debounce, served, torn>>
      BY <2>1 DEF checkOnce, bootstrapTls
    <3>2. c \notin challenge
      BY <1>2, <3>1 DEF AcmeInv, ChallengeIsAwaited
    <3>3. PICK label \in {"issue", "skipped"} : CheckGoto(c, label)
      BY <2>1 DEF checkOnce, bootstrapTls
    <3> QED BY <1>2, <2>0, <3>1, <3>2, <3>3, CheckMoves DEF Early, Checking
  <2>2. ASSUME NEW c \in Checks, createChallenge(c) PROVE AcmeInv'
    <3>1. /\ check[c].pc = "issue" /\ CheckGoto(c, "authorize")
          /\ UNCHANGED <<today, disk, expiry, method, debounce, served, process_, torn>>
          /\ challenge' \ {c} \subseteq challenge /\ challenge' \subseteq Checks
      BY <2>0, <2>2 DEF createChallenge, published
    <3> QED BY <1>2, <3>1, CheckMoves DEF Early, Checking
  <2>3. ASSUME NEW c \in Checks, writeAtomic(c) PROVE AcmeInv'
    <3>1. /\ check[c].pc = "write"
          /\ UNCHANGED <<today, disk, expiry, method, challenge, debounce, served, process_,
                         torn>>
      BY <2>3 DEF writeAtomic
    <3>2. c \notin challenge
      BY <1>2, <3>1 DEF AcmeInv, ChallengeIsAwaited
    <3>3. PICK label \in {"renewed", "failed"} : CheckGoto(c, label)
      BY <2>3 DEF writeAtomic
    <3> QED BY <1>2, <2>0, <3>1, <3>2, <3>3, CheckMoves DEF Early
  <2>4. CASE Midnight
    <3>1. today' \in 0..MaxDay
          /\ UNCHANGED <<certFile, keyFile, expiry, check, method, challenge, debounce,
                         served, process_, torn>>
      BY <1>2, <2>4, AcmeAssumption DEF Midnight, AcmeInv, AcmeTypeOK, disk
    <3> QED BY <1>2, <3>1 DEF AcmeInv, AcmeTypeOK, RenamesTogether, OneWriter, PairOnDisk,
                              FilesAreMade, ChallengeIsAwaited, Writing
  <2>5. CASE scheduleReload
    <3>1. CASE loadSecureContext
      <4>1. /\ served' = certFile /\ certFile = keyFile /\ debounce' = FALSE
            /\ process_' = process_ /\ process_ = "up"
            /\ UNCHANGED <<today, disk, expiry, check, method, challenge, torn>>
        BY <2>5, <3>1 DEF scheduleReload, loadSecureContext
      <4> QED BY <1>2, <4>1, ServeInv
    <3> QED BY <1>2, <2>5, <3>1, DieInv DEF scheduleReload
  <2>6. CASE loadInitial
    <3>1. /\ \/ served' = certFile /\ certFile = keyFile
             \/ served' = served
          /\ process_' \in {"up", "unstartable"}
          /\ UNCHANGED <<today, disk, expiry, check, method, challenge, debounce, torn>>
      BY <2>6 DEF loadInitial, loadSecureContext
    <3>2. debounce' \in BOOLEAN
      BY <1>2, <3>1 DEF AcmeInv, AcmeTypeOK
    <3> QED BY <1>2, <3>1, <3>2, ServeInv
  <2>7. CASE Kill
    BY <1>2, <2>7, DieInv DEF Kill
  <2>8. CASE UNCHANGED acmeVars
    BY <1>2, <2>8 DEF acmeVars, disk, AcmeInv, AcmeTypeOK, RenamesTogether, OneWriter,
                      PairOnDisk, FilesAreMade, ChallengeIsAwaited, Writing
  <2> QED BY <1>2, <2>1, <2>2, <2>3, <2>4, <2>5, <2>6, <2>7, <2>8, IssueInv, RenameKeyInv,
             RenameCertInv DEF AcmeNext, CheckStep
<1> QED BY <1>1, <1>2, PTL DEF AcmeSpec

\* However checks overlap, fail and die, a pair on disk is torn only for one of the
\* named reasons and what is served is a whole pair; and however the agent's writes
\* fall between its reads, the mTLS manager uses one pair the policy allows.
THEOREM CertificatesAreSafe == AcmeSpec /\ MtlsSpec => []CertificateSafe
<1>1. AcmeInv /\ MtlsInv => CertificateSafe
  <2> SUFFICES ASSUME AcmeInv, MtlsInv PROVE CertificateSafe
    OBVIOUS
  <2>1. served # First => served \in Checks
    BY DEF AcmeInv, AcmeTypeOK, Pairs
  <2>2. ServesWholePair
    BY <2>1 DEF AcmeInv, FilesAreMade, ChallengeIsAwaited, ServesWholePair
  <2> QED BY <2>2 DEF AcmeInv, MtlsInv, CertificateSafe
<1> QED BY <1>1, AcmeInvariance, MtlsInvariance, PTL

-----------------------------------------------------------------------------
(***************************************************************************)
(* The configuration manager                                               *)
(***************************************************************************)

\* initialize() runs once, and its reload ends before anybody subscribes.
SubscribedAfterStart ==
  /\ lastModified = 0 => ~subscriber.on /\ ~reloads["initialize"].on
  /\ subscriber.on => ~reloads["initialize"].on

\* A reload in flight has cloned the value that the manager serves, or the subscriber
\* may miss a change.
CloneIsCurrent ==
  subscriber.on /\ reloads["timer"].on /\ reloads["timer"].old # config => subscriber.missable

Current == subscriber.on /\ subscriber.seen # config => subscriber.missable

ConfigInv == ConfigTypeOK /\ SubscribedAfterStart /\ CloneIsCurrent /\ Current

\* What the manager can load and set.
LEMMA SourceTypes ==
  ASSUME ConfigTypeOK
  PROVE  /\ loadFile \in Sources
         /\ \A answered \in BOOLEAN : load(answered) \in Sources
         /\ Absent \in Sources
         /\ \A n \in 1..MaxUpdates : <<"hot", n>> \in Sources
<1>1. file.version \in 1..MaxEdits
  BY DEF ConfigTypeOK
<1>2. loadFile \in Sources
  BY <1>1 DEF loadFile, Sources
<1> QED BY <1>2 DEF load, Sources, Absent

\* What notify() makes of the subscriber, part by part.
LEMMA NotifyEffect ==
  ASSUME ConfigTypeOK, NEW old, NEW new \in Sources, NEW others, notify(old, new, others)
  PROVE  /\ subscriber' \in [on : BOOLEAN, seen : Sources, missable : BOOLEAN]
         /\ subscriber'.on = subscriber.on
         /\ subscriber'.seen = IF subscriber.on /\ old # new THEN new ELSE subscriber.seen
         /\ subscriber'.missable <=>
              \/ others # {} /\ config # new
              \/ subscriber.missable /\ ~(subscriber.on /\ old # new)
<1>1. subscriber \in [on : BOOLEAN, seen : Sources, missable : BOOLEAN]
  BY DEF ConfigTypeOK
<1> DEFINE fires == subscriber.on /\ changed(old, new)
           seen == IF fires THEN new ELSE subscriber.seen
           missable == (others # {} /\ config # new) \/ (subscriber.missable /\ ~fires)
<1>2. subscriber' = [subscriber EXCEPT !.seen = seen, !.missable = missable]
  BY DEF notify
<1>3. seen \in Sources /\ missable \in BOOLEAN
  BY <1>1
<1>4. fires <=> subscriber.on /\ old # new
  BY DEF changed
<1>5. seen = IF subscriber.on /\ old # new THEN new ELSE subscriber.seen
  BY <1>4
<1>6. missable <=> \/ others # {} /\ config # new
                   \/ subscriber.missable /\ ~(subscriber.on /\ old # new)
  BY <1>4
<1> HIDE DEF seen, missable
<1>7. /\ subscriber' \in [on : BOOLEAN, seen : Sources, missable : BOOLEAN]
      /\ subscriber'.on = subscriber.on /\ subscriber'.seen = seen
      /\ subscriber'.missable = missable
  BY <1>1, <1>2, <1>3
<1> QED BY <1>5, <1>6, <1>7

\* A hot change notifies with the value that it replaces.
LEMMA HotChange ==
  ASSUME ConfigInv, config' \in Sources, notify(config, config', InFlight),
         updates' \in 0..MaxUpdates,
         UNCHANGED <<file, remote, lastModified, reloadTimer, reloads, fileRead, listening,
                     running, signals>>
  PROVE  ConfigInv'
<1>1. /\ subscriber' \in [on : BOOLEAN, seen : Sources, missable : BOOLEAN]
      /\ subscriber'.on = subscriber.on
      /\ subscriber'.seen = IF subscriber.on /\ config # config' THEN config'
                            ELSE subscriber.seen
      /\ subscriber'.missable <=>
           \/ InFlight # {} /\ config # config'
           \/ subscriber.missable /\ ~(subscriber.on /\ config # config')
  BY NotifyEffect DEF ConfigInv
<1>2. ConfigTypeOK'
  BY <1>1 DEF ConfigInv, ConfigTypeOK
<1>3. SubscribedAfterStart'
  BY <1>1 DEF ConfigInv, SubscribedAfterStart
<1>4. Current'
  BY <1>1 DEF ConfigInv, Current
<1>5. reloads["timer"].on => InFlight # {}
  BY DEF InFlight, Callers
<1>6. CloneIsCurrent'
  BY <1>1, <1>5 DEF ConfigInv, CloneIsCurrent
<1> QED BY <1>2, <1>3, <1>4, <1>6 DEF ConfigInv

\* A reload ends: its clone may be old.
LEMMA ReloadInv == ASSUME ConfigInv, NEW c \in Callers, reload(c) PROVE ConfigInv'
<1> DEFINE others == {d \in Callers \ {c} : reloads[d].on}
<1>1. PICK answered \in BOOLEAN :
        /\ config' = load(answered)
        /\ IF c = "initialize" /\ ~subscriber.on
             THEN subscriber' = [on |-> TRUE, seen |-> config', missable |-> others # {}]
             ELSE notify(reloads[c].old, config', others)
  BY DEF reload
<1>2. /\ reloads[c].on /\ reloads' = Closed(c) /\ fileRead' = file.version
      /\ listening' = (listening /\ c = "initialize")
      /\ UNCHANGED <<file, remote, lastModified, reloadTimer, running, updates, signals>>
  BY DEF reload
<1>3. config' \in Sources /\ Absent \in Sources
  BY <1>1, SourceTypes DEF ConfigInv
<1>4. /\ reloads \in [Callers -> [on : BOOLEAN, old : Sources]]
      /\ subscriber \in [on : BOOLEAN, seen : Sources, missable : BOOLEAN]
      /\ file.version \in 1..MaxEdits /\ lastModified \in 0..MaxEdits /\ listening \in BOOLEAN
  BY DEF ConfigInv, ConfigTypeOK
<1>5. /\ reloads' \in [Callers -> [on : BOOLEAN, old : Sources]] /\ reloads'[c].on = FALSE
      /\ \A d \in Callers : d # c => reloads'[d] = reloads[d]
  BY <1>2, <1>3, <1>4 DEF Closed
<1>6. file.version \in 0..MaxEdits
  BY <1>4, ConfigAssumption
<1>7. subscriber' \in [on : BOOLEAN, seen : Sources, missable : BOOLEAN] => ConfigTypeOK'
  BY <1>2, <1>3, <1>4, <1>5, <1>6 DEF ConfigInv, ConfigTypeOK
<1>8. CASE c = "initialize"
  <2>1. ~subscriber.on
    BY <1>2, <1>8 DEF ConfigInv, SubscribedAfterStart
  <2>2. subscriber' = [on |-> TRUE, seen |-> config', missable |-> others # {}]
    BY <1>1, <1>8, <2>1
  <2>3. lastModified # 0
    BY <1>2, <1>8 DEF ConfigInv, SubscribedAfterStart
  <2>4. /\ subscriber' \in [on : BOOLEAN, seen : Sources, missable : BOOLEAN]
        /\ subscriber'.on /\ subscriber'.seen = config'
        /\ subscriber'.missable <=> others # {}
    <3>1. (others # {}) \in BOOLEAN
      OBVIOUS
    <3> HIDE DEF others
    <3> QED BY <1>3, <2>2, <3>1
  <2>5. SubscribedAfterStart'
    BY <1>2, <1>5, <1>8, <2>3 DEF SubscribedAfterStart
  <2>6. CloneIsCurrent'
    BY <1>5, <1>8, <2>4 DEF CloneIsCurrent, Callers
  <2>7. Current'
    BY <2>4 DEF Current
  <2> QED BY <1>7, <2>4, <2>5, <2>6, <2>7 DEF ConfigInv
<1>9. CASE c = "timer"
  <2>1. /\ subscriber' \in [on : BOOLEAN, seen : Sources, missable : BOOLEAN]
        /\ subscriber'.on = subscriber.on
        /\ subscriber'.seen = IF subscriber.on /\ reloads[c].old # config' THEN config'
                              ELSE subscriber.seen
        /\ subscriber'.missable <=>
             \/ others # {} /\ config # config'
             \/ subscriber.missable /\ ~(subscriber.on /\ reloads[c].old # config')
    BY <1>1, <1>3, <1>9, NotifyEffect DEF ConfigInv
  <2>2. SubscribedAfterStart'
    BY <1>2, <1>5, <1>9, <2>1 DEF ConfigInv, SubscribedAfterStart, Callers
  <2>3. CloneIsCurrent'
    BY <1>5, <1>9 DEF CloneIsCurrent
  <2>4. Current'
    BY <1>2, <1>9, <2>1 DEF ConfigInv, Current, CloneIsCurrent
  <2> QED BY <1>7, <2>1, <2>2, <2>3, <2>4 DEF ConfigInv
<1> QED BY <1>8, <1>9 DEF Callers

\* A step that leaves the subscriber and the value that is served as they are.
LEMMA QuietStep ==
  ASSUME ConfigInv, ConfigTypeOK', UNCHANGED <<subscriber, config>>,
         lastModified' = lastModified \/ lastModified' # 0,
         reloads'["initialize"].on => reloads["initialize"].on,
         reloads'["timer"].on => reloads'["timer"].old = config \/ reloads'["timer"] = reloads["timer"]
  PROVE  ConfigInv'
<1>1. SubscribedAfterStart'
  BY DEF ConfigInv, SubscribedAfterStart
<1>2. CloneIsCurrent' /\ Current'
  BY DEF ConfigInv, CloneIsCurrent, Current
<1> QED BY <1>1, <1>2 DEF ConfigInv

\* The invariant of the configuration manager is inductive.
LEMMA ConfigInvariance == ConfigSpec => []ConfigInv
<1>1. ConfigInit => ConfigInv
  <2> SUFFICES ASSUME ConfigInit PROVE ConfigInv
    OBVIOUS
  <2>1. /\ file.version = 1 /\ file.version \in 1..MaxEdits /\ 0 \in 0..MaxEdits
        /\ 0 \in 0..MaxUpdates /\ 0 \in 0..MaxSignals /\ Absent \in Sources
    BY ConfigAssumption DEF ConfigInit, Sources
  <2>2. file \in [version : 1..MaxEdits, kind : Kinds]
    BY <2>1 DEF ConfigInit, Kinds
  <2>3. reloads \in [Callers -> [on : BOOLEAN, old : Sources]] /\ ~reloads["initialize"].on
    BY <2>1 DEF ConfigInit, Callers
  <2>4. subscriber \in [on : BOOLEAN, seen : Sources, missable : BOOLEAN] /\ ~subscriber.on
    BY <2>1 DEF ConfigInit
  <2>5. ConfigTypeOK
    BY <2>1, <2>2, <2>3, <2>4 DEF ConfigInit, ConfigTypeOK
  <2> QED BY <2>3, <2>4, <2>5 DEF ConfigInv, SubscribedAfterStart, CloneIsCurrent, Current
<1>2. ASSUME ConfigInv, [ConfigNext]_configVars PROVE ConfigInv'
  <2>0. /\ file \in [version : 1..MaxEdits, kind : Kinds] /\ file.version \in 1..MaxEdits
        /\ file.version \in 0..MaxEdits /\ file.version # 0
        /\ reloads \in [Callers -> [on : BOOLEAN, old : Sources]]
        /\ config \in Sources /\ Absent \in Sources
        /\ updates \in 0..MaxUpdates /\ signals \in 0..MaxSignals
        /\ lastModified \in 0..MaxEdits
    BY <1>2, SourceTypes, ConfigAssumption DEF ConfigInv, ConfigTypeOK
  <2>1. CASE initialize
    <3> DEFINE r == [on |-> TRUE, old |-> config']
    <3>1. /\ lastModified = 0 /\ lastModified' = file.version /\ config' \in Sources
          /\ fileRead' = file.version /\ reloads' = [reloads EXCEPT !["initialize"] = r]
          /\ running' = TRUE
          /\ UNCHANGED <<file, remote, reloadTimer, subscriber, listening, updates, signals>>
      BY <1>2, <2>1, SourceTypes DEF initialize, ConfigInv
    <3>2. r \in [on : BOOLEAN, old : Sources]
      BY <3>1
    <3> HIDE DEF r
    <3>3. reloads' \in [Callers -> [on : BOOLEAN, old : Sources]]
      BY <2>0, <3>1, <3>2 DEF Callers
    <3>4. ConfigTypeOK'
      BY <1>2, <2>0, <3>1, <3>3 DEF ConfigInv, ConfigTypeOK
    <3>5. ~subscriber'.on /\ lastModified' # 0
      BY <1>2, <2>0, <3>1 DEF ConfigInv, SubscribedAfterStart
    <3> QED BY <3>4, <3>5 DEF ConfigInv, SubscribedAfterStart, CloneIsCurrent, Current
  <2>2. CASE EditFile
    <3>1. PICK k \in Kinds : file' = [version |-> file.version + 1, kind |-> k]
      BY <2>2 DEF EditFile
    <3>2. file.version + 1 \in 1..MaxEdits
      BY <2>0, <2>2, ConfigAssumption DEF EditFile
    <3>3. file' \in [version : 1..MaxEdits, kind : Kinds]
      BY <3>1, <3>2
    <3>4. UNCHANGED <<remote, lastModified, reloadTimer, reloads, config, fileRead,
                      subscriber, listening, running, updates, signals>>
      BY <2>2 DEF EditFile
    <3>5. ConfigTypeOK'
      BY <1>2, <3>3, <3>4 DEF ConfigInv, ConfigTypeOK
    <3> QED BY <1>2, <3>4, <3>5, QuietStep
  <2>3. CASE checkFileChanges \/ triggerReload \/ RemoteChanges \/ cleanup
    <3> DEFINE Quiet == /\ lastModified' \in {lastModified, file.version}
                        /\ reloadTimer' \in {reloadTimer, TRUE, FALSE}
                        /\ remote' \in Remotes /\ listening' \in {listening, TRUE}
                        /\ running' \in {running, FALSE} /\ signals' \in 0..MaxSignals
                        /\ UNCHANGED <<file, reloads, config, fileRead, subscriber, updates>>
    <3>a. ASSUME checkFileChanges PROVE Quiet
      BY <1>2, <2>0, <3>a DEF checkFileChanges, ConfigInv, ConfigTypeOK
    <3>b. ASSUME triggerReload PROVE Quiet
      <4>1. signals' \in 0..MaxSignals
        BY <2>0, <3>b, ConfigAssumption DEF triggerReload
      <4>2. remote' \in Remotes
        BY <1>2, <3>b DEF triggerReload, ConfigInv, ConfigTypeOK
      <4> QED BY <3>b, <4>1, <4>2 DEF triggerReload
    <3>c. ASSUME RemoteChanges PROVE Quiet
      BY <1>2, <2>0, <3>c DEF RemoteChanges, ConfigInv, ConfigTypeOK
    <3>d. ASSUME cleanup PROVE Quiet
      BY <1>2, <2>0, <3>d DEF cleanup, ConfigInv, ConfigTypeOK
    <3>1. Quiet
      BY <2>3, <3>a, <3>b, <3>c, <3>d
    <3>2. ConfigTypeOK'
      BY <1>2, <2>0, <3>1 DEF ConfigInv, ConfigTypeOK
    <3> QED BY <1>2, <2>0, <3>1, <3>2, QuietStep
  <2>4. CASE reloadTimerCallback
    <3>1. UNCHANGED <<file, remote, lastModified, config, fileRead, subscriber, listening,
                      running, updates, signals>>
      BY <2>4 DEF reloadTimerCallback
    <3>2. CASE UNCHANGED <<reloadTimer, reloads>>
      <4>1. ConfigTypeOK'
        BY <1>2, <3>1, <3>2 DEF ConfigInv, ConfigTypeOK
      <4> QED BY <1>2, <3>1, <3>2, <4>1, QuietStep
    <3>3. CASE /\ reloadTimer' = FALSE
               /\ reloads' = [reloads EXCEPT !["timer"] = [on |-> TRUE, old |-> config]]
      <4> DEFINE r == [on |-> TRUE, old |-> config]
      <4>1. r \in [on : BOOLEAN, old : Sources] /\ r.old = config
        BY <2>0
      <4> HIDE DEF r
      <4>2. /\ reloads' \in [Callers -> [on : BOOLEAN, old : Sources]]
            /\ reloads'["timer"] = r /\ reloads'["initialize"] = reloads["initialize"]
        BY <2>0, <3>3, <4>1 DEF Callers, r
      <4>3. ConfigTypeOK'
        BY <1>2, <3>1, <3>3, <4>2 DEF ConfigInv, ConfigTypeOK
      <4> QED BY <1>2, <3>1, <4>1, <4>2, <4>3, QuietStep
    <3> QED BY <2>4, <3>2, <3>3 DEF reloadTimerCallback, TimerFires
  <2>5. ASSUME NEW c \in Callers, reloadFails(c) PROVE ConfigInv'
    <3>a. running' \in BOOLEAN
      BY <2>5, Zenon DEF reloadFails
    <3>1. /\ reloads' = Closed(c) /\ listening' = FALSE
          /\ fileRead' = file.version
          /\ UNCHANGED <<file, remote, lastModified, reloadTimer, config, subscriber, updates,
                         signals>>
      BY <2>5 DEF reloadFails
    <3>2. /\ reloads' \in [Callers -> [on : BOOLEAN, old : Sources]] /\ ~reloads'[c].on
          /\ \A d \in Callers : d # c => reloads'[d] = reloads[d]
      BY <2>0, <3>1 DEF Closed
    <3>3. /\ fileRead' \in 0..MaxEdits /\ {listening', running'} \subseteq BOOLEAN
      <4>1. {listening', running'} \subseteq BOOLEAN
        BY <3>a, <3>1, Zenon
      <4>2. fileRead' \in 0..MaxEdits
        BY <1>2, <3>1, ConfigAssumption DEF ConfigInv, ConfigTypeOK
      <4> QED BY <4>1, <4>2, Zenon
    <3>4. ConfigTypeOK'
      BY <1>2, <3>1, <3>2, <3>3 DEF ConfigInv, ConfigTypeOK
    <3> QED BY <1>2, <3>1, <3>2, <3>4, QuietStep DEF Callers
  <2>6. CASE update \/ deletePath
    <3>1. /\ updates' \in 0..MaxUpdates /\ updates' \in 1..MaxUpdates
          /\ config' \in {<<"hot", updates'>>, Absent}
          /\ notify(config, config', InFlight)
          /\ UNCHANGED <<file, remote, lastModified, reloadTimer, reloads, fileRead,
                         listening, running, signals>>
      BY <2>0, <2>6, ConfigAssumption DEF update, deletePath
    <3>2. config' \in Sources
      BY <1>2, <3>1, SourceTypes DEF ConfigInv
    <3> QED BY <1>2, <3>1, <3>2, HotChange
  <2>7. CASE UNCHANGED configVars
    <3>1. ConfigTypeOK'
      BY <1>2, <2>7 DEF configVars, ConfigInv, ConfigTypeOK
    <3> QED BY <1>2, <2>7, <3>1, QuietStep DEF configVars
  <2> QED BY <1>2, <2>1, <2>2, <2>3, <2>4, <2>5, <2>6, <2>7, ReloadInv DEF ConfigNext
<1> QED BY <1>1, <1>2, PTL DEF ConfigSpec

\* However edits, signals, reloads and hot updates interleave, a subscriber of a path
\* holds the value that get() returns, unless a reload in flight restored an older one.
THEOREM ConfigIsSafe == ConfigSpec => []ConfigSafe
<1>1. ConfigInv => ConfigSafe
  BY DEF ConfigInv, ConfigSafe, Current, SubscriberCurrent
<1> QED BY <1>1, ConfigInvariance, PTL

-----------------------------------------------------------------------------
(***************************************************************************)
(* Queues without duplicates: pg's waiters and the audit log's FIFO        *)
(***************************************************************************)

\* Taking the head of a duplicate-free queue removes that element and no other.
LEMMA TailOfInjective ==
  ASSUME NEW T, NEW s \in Seq(T), s # <<>>, IsInjective(s)
  PROVE  /\ Tail(s) \in Seq(T) /\ IsInjective(Tail(s)) /\ Len(Tail(s)) = Len(s) - 1
         /\ Head(s) \in Range(s) /\ Head(s) \in T /\ Head(s) = s[1]
         /\ Range(Tail(s)) = Range(s) \ {Head(s)}
<1>1. /\ Tail(s) \in Seq(T) /\ Len(Tail(s)) = Len(s) - 1 /\ Len(s) \in Nat /\ Len(s) # 0
      /\ DOMAIN s = 1..Len(s) /\ Head(s) = s[1] /\ Head(s) \in T
  BY EmptySeq
<1>2. \A i \in 1..(Len(s) - 1) : Tail(s)[i] = s[i + 1]
  BY <1>1, HeadTailProperties
<1>3. DOMAIN Tail(s) = 1..(Len(s) - 1)
  BY <1>1
<1>4. IsInjective(Tail(s))
  BY <1>1, <1>2, <1>3 DEF IsInjective
<1>5. Head(s) \in Range(s)
  BY <1>1 DEF Range
<1>6. Range(Tail(s)) \subseteq Range(s) \ {Head(s)}
  BY <1>1, <1>2, <1>3 DEF Range, IsInjective
<1>7. ASSUME NEW x \in Range(s) \ {Head(s)} PROVE x \in Range(Tail(s))
  <2>1. PICK i \in 1..Len(s) : x = s[i]
    BY <1>1, <1>7 DEF Range
  <2>2. i # 1 /\ i - 1 \in 1..(Len(s) - 1) /\ (i - 1) + 1 = i
    BY <1>1, <1>7, <2>1
  <2>3. x = Tail(s)[i - 1]
    BY <1>2, <2>1, <2>2
  <2> QED BY <1>3, <2>2, <2>3 DEF Range
<1> QED BY <1>1, <1>4, <1>5, <1>6, <1>7

\* Appending an element that is not queued keeps a queue duplicate-free.
LEMMA AppendToInjective ==
  ASSUME NEW T, NEW s \in Seq(T), NEW x \in T, IsInjective(s), x \notin Range(s)
  PROVE  /\ Append(s, x) \in Seq(T) /\ IsInjective(Append(s, x))
         /\ Len(Append(s, x)) = Len(s) + 1
         /\ Range(Append(s, x)) = Range(s) \cup {x}
<1> DEFINE a == Append(s, x)
           n == Len(s)
<1>1. /\ a \in Seq(T) /\ Len(a) = n + 1 /\ n \in Nat
      /\ DOMAIN s = 1..n /\ DOMAIN a = 1..(n + 1)
      /\ \A i \in 1..n : a[i] = s[i]
      /\ a[n + 1] = x
  BY AppendProperties
<1> HIDE DEF a, n
<1>2. \A i \in 1..(n + 1) : i \in 1..n \/ i = n + 1
  BY <1>1
<1>3. IsInjective(a)
  BY <1>1, <1>2 DEF IsInjective, Range
<1>4. Range(a) = Range(s) \cup {x}
  <2>1. ASSUME NEW y \in Range(a) PROVE y \in Range(s) \cup {x}
    BY <1>1, <1>2, <2>1 DEF Range
  <2>2. ASSUME NEW y \in Range(s) PROVE y \in Range(a)
    <3>1. PICK i \in 1..n : y = s[i]
      BY <1>1, <2>2 DEF Range
    <3>2. y = a[i] /\ i \in 1..(n + 1)
      BY <1>1, <3>1
    <3> QED BY <1>1, <3>2 DEF Range
  <2>3. x \in Range(a)
    <3>1. n + 1 \in 1..(n + 1)
      BY <1>1
    <3> QED BY <1>1, <3>1 DEF Range
  <2> QED BY <2>1, <2>2, <2>3
<1> QED BY <1>1, <1>3, <1>4 DEF a, n

\* A duplicate-free queue is no longer than the set its elements are from.
LEMMA InjectiveIsShort ==
  ASSUME NEW T, IsFiniteSet(T), NEW s \in Seq(T), IsInjective(s)
  PROVE  Len(s) <= Cardinality(T)
<1>1. s \in [1..Len(s) -> T] /\ Len(s) \in Nat
  OBVIOUS
<1>2. s \in Injection(1..Len(s), T)
  BY <1>1 DEF IsInjective, Injection
<1>3. Cardinality(1..Len(s)) <= Cardinality(T)
  BY <1>2, FS_Injection
<1>4. \A n \in Nat : Cardinality(1..n) = n
  <2>1. ASSUME NEW n \in Nat PROVE Cardinality(1..n) = IF 1 > n THEN 0 ELSE n - 1 + 1
    <3>1. 1 \in Int /\ n \in Int
      OBVIOUS
    <3> QED BY <3>1, FS_Interval
  <2> QED BY <2>1
<1> QED BY <1>1, <1>3, <1>4

\* What BoundedSeq means for a sequence.
LEMMA BoundedSeqMember ==
  ASSUME NEW T, NEW n \in Nat, NEW s \in Seq(T), Len(s) <= n
  PROVE  s \in BoundedSeq(T, n)
<1>1. s \in [1..Len(s) -> T] /\ Len(s) \in 0..n
  OBVIOUS
<1> QED BY <1>1 DEF BoundedSeq, SeqOf

-----------------------------------------------------------------------------
(***************************************************************************)
(* The connection pools                                                    *)
(***************************************************************************)

\* The calls that asked a pool for a connection and have none yet.
Asking(p) == p.connecting \cup Range(p.waiting)

Pool == [max : Nat, idle : Nat, connecting : SUBSET Calls, waiting : Seq(Calls),
         out : SUBSET Calls]

\* A call is in one place of a pool, once.
Sound(p) ==
  /\ p \in Pool /\ p.max >= 1
  /\ IsInjective(p.waiting)
  /\ p.connecting \cap Range(p.waiting) = {}
  /\ Asking(p) \cap p.out = {}

\* A call waits for, or uses, the pools that know of it; one that has gone to the
\* OLAP pool may still be owed a connection by the other.
CallsOwn ==
  \A c \in Calls :
    /\ c \in Asking(pools["oltp"]) => call[c] = "wait oltp" \/ c \in late
    /\ c \in pools["oltp"].out => call[c] = "oltp" \/ c \in late
    /\ c \in Asking(pools["olap"]) => call[c] = "wait olap"
    /\ c \in pools["olap"].out => call[c] = "olap"
    /\ c \in late => call[c] \in {"wait olap", "olap", "done"}

CallStates == {"idle", "wait oltp", "oltp", "wait olap", "olap", "done"}

PoolInv ==
  /\ pools \in [Tiers -> Pool]
  /\ \A t \in Tiers : Sound(pools[t])
  /\ call \in [Calls -> CallStates]
  /\ late \subseteq OltpQueries /\ failures \in 0..1
  /\ adaptiveProbe \in [Tiers -> [direction : {0 - 1, 0, 1}, cooled : BOOLEAN]]
  /\ CallsOwn

\* A call that asks for a connection is given an idle one, or asks.
LEMMA ConnectEffect ==
  ASSUME NEW p, Sound(p), NEW c \in Calls, c \notin Asking(p), c \notin p.out
  PROVE  /\ Sound(Connect(p, c))
         /\ \/ /\ Asking(Connect(p, c)) = Asking(p)
               /\ Connect(p, c).out = p.out \cup {c}
            \/ /\ Asking(Connect(p, c)) = Asking(p) \cup {c}
               /\ Connect(p, c).out = p.out
<1>1. /\ p.max \in Nat /\ p.idle \in Nat /\ p.connecting \in SUBSET Calls
      /\ p.waiting \in Seq(Calls) /\ p.out \in SUBSET Calls /\ p.max >= 1
      /\ p = [max |-> p.max, idle |-> p.idle, connecting |-> p.connecting,
              waiting |-> p.waiting, out |-> p.out]
  BY DEF Sound, Pool
<1>2. /\ IsInjective(p.waiting) /\ c \notin Range(p.waiting) /\ c \notin p.connecting
      /\ p.connecting \cap Range(p.waiting) = {} /\ Asking(p) \cap p.out = {}
  BY DEF Sound, Asking
<1>3. CASE p.idle > 0
  <2> DEFINE r == [max |-> p.max, idle |-> p.idle - 1, connecting |-> p.connecting,
                   waiting |-> p.waiting, out |-> p.out \cup {c}]
  <2>1. Connect(p, c) = r
    BY <1>1, <1>3 DEF Connect
  <2>2. r \in Pool
    BY <1>1, <1>3 DEF Pool
  <2>3. Asking(r) = Asking(p) /\ r.out = p.out \cup {c}
    BY DEF Asking
  <2>4. Sound(r)
    BY <1>1, <1>2, <2>2, <2>3 DEF Sound
  <2> QED BY <2>1, <2>3, <2>4
<1>4. CASE ~(p.idle > 0) /\ Total(p) < p.max
  <2> DEFINE r == [max |-> p.max, idle |-> p.idle, connecting |-> p.connecting \cup {c},
                   waiting |-> p.waiting, out |-> p.out]
  <2>1. Connect(p, c) = r
    BY <1>1, <1>4 DEF Connect
  <2>2. r \in Pool
    BY <1>1 DEF Pool
  <2>3. Asking(r) = Asking(p) \cup {c} /\ r.out = p.out
    BY DEF Asking
  <2>4. Sound(r)
    BY <1>1, <1>2, <2>2, <2>3 DEF Sound
  <2> QED BY <2>1, <2>3, <2>4
<1>5. CASE ~(p.idle > 0) /\ ~(Total(p) < p.max)
  <2> DEFINE w == Append(p.waiting, c)
             r == [max |-> p.max, idle |-> p.idle, connecting |-> p.connecting,
                   waiting |-> w, out |-> p.out]
  <2>1. Connect(p, c) = r
    BY <1>1, <1>5 DEF Connect
  <2>2. w \in Seq(Calls) /\ IsInjective(w) /\ Range(w) = Range(p.waiting) \cup {c}
    BY <1>1, <1>2, AppendToInjective
  <2> HIDE DEF w
  <2>3. r \in Pool
    BY <1>1, <2>2 DEF Pool
  <2>4. Asking(r) = Asking(p) \cup {c} /\ r.out = p.out
    BY <2>2 DEF Asking
  <2>5. Sound(r)
    BY <1>1, <1>2, <2>2, <2>3, <2>4 DEF Sound
  <2> QED BY <2>1, <2>4, <2>5
<1> QED BY <1>3, <1>4, <1>5

\* A released connection goes to a call that asks, or becomes idle.
LEMMA ReleaseEffect ==
  ASSUME NEW p, Sound(p), NEW c \in Calls
  PROVE  /\ Sound(Release(p, c))
         /\ \/ /\ Asking(Release(p, c)) = Asking(p)
               /\ Release(p, c).out = p.out \ {c}
            \/ \E h \in Asking(p) :
                 /\ Asking(Release(p, c)) = Asking(p) \ {h}
                 /\ Release(p, c).out = (p.out \ {c}) \cup {h}
<1>1. /\ p.max \in Nat /\ p.idle \in Nat /\ p.connecting \in SUBSET Calls
      /\ p.waiting \in Seq(Calls) /\ p.out \in SUBSET Calls /\ p.max >= 1
      /\ p = [max |-> p.max, idle |-> p.idle, connecting |-> p.connecting,
              waiting |-> p.waiting, out |-> p.out]
  BY DEF Sound, Pool
<1>2. /\ IsInjective(p.waiting)
      /\ p.connecting \cap Range(p.waiting) = {} /\ Asking(p) \cap p.out = {}
  BY DEF Sound, Asking
<1>3. CASE p.waiting = <<>>
  <2> DEFINE r == [max |-> p.max, idle |-> p.idle + 1, connecting |-> p.connecting,
                   waiting |-> p.waiting, out |-> p.out \ {c}]
  <2>1. Release(p, c) = r
    BY <1>1, <1>3 DEF Release
  <2>2. r \in Pool
    BY <1>1 DEF Pool
  <2>3. Asking(r) = Asking(p) /\ r.out = p.out \ {c}
    BY DEF Asking
  <2>4. Sound(r)
    BY <1>1, <1>2, <2>2, <2>3 DEF Sound
  <2> QED BY <2>1, <2>3, <2>4
<1>4. CASE p.waiting # <<>>
  <2> DEFINE w == Tail(p.waiting)
             h == Head(p.waiting)
             r == [max |-> p.max, idle |-> p.idle, connecting |-> p.connecting,
                   waiting |-> w, out |-> (p.out \ {c}) \cup {h}]
  <2>1. Release(p, c) = r
    BY <1>1, <1>4 DEF Release
  <2>2. /\ w \in Seq(Calls) /\ IsInjective(w) /\ Range(w) = Range(p.waiting) \ {h}
        /\ h \in Calls /\ h \in Range(p.waiting)
    BY <1>1, <1>2, <1>4, TailOfInjective
  <2> HIDE DEF w, h
  <2>3. r \in Pool
    BY <1>1, <2>2 DEF Pool
  <2>4. Asking(r) = Asking(p) \ {h} /\ r.out = (p.out \ {c}) \cup {h} /\ h \in Asking(p)
    BY <1>2, <2>2 DEF Asking
  <2>5. Sound(r)
    BY <1>1, <1>2, <2>2, <2>3, <2>4 DEF Sound
  <2> QED BY <2>1, <2>4, <2>5
<1> QED BY <1>3, <1>4

\* A connection that opens is checked out for the call that asked for it.
LEMMA OpenedEffect ==
  ASSUME NEW p, Sound(p), NEW c \in p.connecting
  PROVE  LET r == [p EXCEPT !.connecting = @ \ {c}, !.out = @ \cup {c}]
         IN  Sound(r) /\ Asking(r) = Asking(p) \ {c} /\ r.out = p.out \cup {c}
<1> DEFINE r == [p EXCEPT !.connecting = @ \ {c}, !.out = @ \cup {c}]
<1>1. /\ p \in Pool /\ p.max >= 1 /\ IsInjective(p.waiting) /\ c \in Calls
      /\ p.connecting \cap Range(p.waiting) = {} /\ Asking(p) \cap p.out = {}
  BY DEF Sound, Pool
<1>2. /\ r.max = p.max /\ r.connecting = p.connecting \ {c}
      /\ r.waiting = p.waiting /\ r.out = p.out \cup {c}
  BY <1>1 DEF Pool
<1>3. r \in Pool
  BY <1>1 DEF Pool
<1> HIDE DEF r
<1>4. Asking(r) = Asking(p) \ {c}
  BY <1>1, <1>2 DEF Asking
<1>5. Sound(r)
  BY <1>1, <1>2, <1>3, <1>4 DEF Sound
<1> QED BY <1>2, <1>4, <1>5 DEF r

\* A connection that is refused leaves the call that asked for it with nothing to
\* come, and the next waiter's is tried.
LEMMA OpenFailsEffect ==
  ASSUME NEW p, Sound(p), NEW c \in p.connecting
  PROVE  LET q == [p EXCEPT !.connecting = @ \ {c}]
             r == IF q.waiting = <<>> THEN q
                  ELSE [q EXCEPT !.connecting = @ \cup {Head(q.waiting)}, !.waiting = Tail(@)]
         IN  Sound(r) /\ Asking(r) = Asking(p) \ {c} /\ r.out = p.out
<1> DEFINE q == [p EXCEPT !.connecting = @ \ {c}]
<1>1. /\ p \in Pool /\ p.max >= 1 /\ IsInjective(p.waiting) /\ c \in Calls
      /\ p.waiting \in Seq(Calls)
      /\ p.connecting \cap Range(p.waiting) = {} /\ Asking(p) \cap p.out = {}
  BY DEF Sound, Pool
<1>2. /\ q.max = p.max /\ q.connecting = p.connecting \ {c}
      /\ q.waiting = p.waiting /\ q.out = p.out /\ q \in Pool
  BY <1>1 DEF Pool
<1> HIDE DEF q
<1>3. CASE q.waiting = <<>>
  <2>1. Asking(q) = Asking(p) \ {c}
    BY <1>1, <1>2 DEF Asking
  <2>2. Sound(q)
    BY <1>1, <1>2, <2>1 DEF Sound
  <2> QED BY <1>2, <1>3, <2>1, <2>2 DEF q
<1>4. CASE q.waiting # <<>>
  <2> DEFINE h == Head(q.waiting)
             r == [q EXCEPT !.connecting = @ \cup {Head(q.waiting)}, !.waiting = Tail(@)]
  <2>1. /\ Tail(q.waiting) \in Seq(Calls) /\ IsInjective(Tail(q.waiting))
        /\ Range(Tail(q.waiting)) = Range(q.waiting) \ {h}
        /\ h \in Calls /\ h \in Range(q.waiting)
    BY <1>1, <1>2, <1>4, TailOfInjective
  <2> HIDE DEF h
  <2>2. /\ r.max = q.max /\ r.connecting = q.connecting \cup {h}
        /\ r.waiting = Tail(q.waiting) /\ r.out = q.out
    BY <1>2 DEF Pool, h
  <2>3. r \in Pool
    BY <1>2, <2>1 DEF Pool, h
  <2> HIDE DEF r
  <2>4. Asking(r) = Asking(p) \ {c}
    BY <1>1, <1>2, <2>1, <2>2 DEF Asking
  <2>5. r.connecting \cap Range(r.waiting) = {}
    BY <1>1, <1>2, <2>1, <2>2
  <2>6. Sound(r)
    BY <1>1, <1>2, <2>1, <2>2, <2>3, <2>4, <2>5 DEF Sound
  <2> QED BY <1>2, <1>4, <2>2, <2>4, <2>6 DEF q, r
<1> QED BY <1>3, <1>4

\* The tiers that an operation does not touch keep their pools.
LEMMA TierStep ==
  ASSUME PoolInv, NEW t \in Tiers, NEW r, Sound(r), pools' = [pools EXCEPT ![t] = r]
  PROVE  /\ pools' \in [Tiers -> Pool] /\ pools'[t] = r
         /\ \A u \in Tiers : Sound(pools'[u]) /\ (u # t => pools'[u] = pools[u])
<1>1. r \in Pool
  BY DEF Sound
<1> QED BY <1>1 DEF PoolInv

\* query() and transaction() of a call that no pool knows of.
LEMMA StartInv ==
  ASSUME PoolInv, NEW t \in Tiers, NEW c \in Calls, start(t, c)
  PROVE  PoolInv'
<1> DEFINE r == Connect(pools[t], c)
<1>1. /\ call[c] = "idle" /\ call \in [Calls -> CallStates]
      /\ pools' = [pools EXCEPT ![t] = r]
      /\ UNCHANGED <<late, adaptiveProbe, failures>>
  BY DEF start, PoolInv
<1>2. Sound(pools[t]) /\ pools[t].out \subseteq Calls
  BY DEF PoolInv, Pool
<1>3. /\ c \notin late /\ c \notin Asking(pools["oltp"]) /\ c \notin pools["oltp"].out
      /\ c \notin Asking(pools["olap"]) /\ c \notin pools["olap"].out
  BY <1>1 DEF PoolInv, CallsOwn
<1>4. c \notin Asking(pools[t]) /\ c \notin pools[t].out
  BY <1>3 DEF Tiers
<1>5. /\ Sound(r)
      /\ \/ Asking(r) = Asking(pools[t]) /\ r.out = pools[t].out \cup {c}
         \/ Asking(r) = Asking(pools[t]) \cup {c} /\ r.out = pools[t].out
  BY <1>2, <1>4, ConnectEffect
<1> HIDE DEF r
<1>6. /\ pools' \in [Tiers -> Pool] /\ pools'[t] = r
      /\ \A u \in Tiers : Sound(pools'[u]) /\ (u # t => pools'[u] = pools[u])
  BY <1>1, <1>5, TierStep
<1>7. /\ call' = [call EXCEPT ![c] = IF c \in r.out THEN t
                                     ELSE IF t = "oltp" THEN "wait oltp" ELSE "wait olap"]
  BY <1>6 DEF start
<1>8. call' \in [Calls -> CallStates]
  BY <1>1, <1>7 DEF CallStates, Tiers
<1>9. CallsOwn'
  <2>1. CASE t = "oltp"
    <3>1. pools'["oltp"] = r /\ pools'["olap"] = pools["olap"]
      BY <1>6, <2>1 DEF Tiers
    <3> QED BY <1>1, <1>3, <1>4, <1>5, <1>7, <2>1, <3>1 DEF PoolInv, CallsOwn
  <2>2. CASE t = "olap"
    <3>1. pools'["olap"] = r /\ pools'["oltp"] = pools["oltp"]
      BY <1>6, <2>2 DEF Tiers
    <3> QED BY <1>1, <1>3, <1>4, <1>5, <1>7, <2>2, <3>1 DEF PoolInv, CallsOwn
  <2> QED BY <2>1, <2>2 DEF Tiers
<1> QED BY <1>1, <1>6, <1>8, <1>9 DEF PoolInv

\* An OLTP query that gives up waiting asks the OLAP pool, which does not know it.
LEMMA SpilloverInv ==
  ASSUME PoolInv, NEW c \in Calls, _execOltpWithSpillover(c)
  PROVE  PoolInv'
<1> DEFINE r == Connect(pools["olap"], c)
<1>1. /\ call[c] = "wait oltp" /\ call \in [Calls -> CallStates] /\ c \in OltpQueries
      /\ pools' = [pools EXCEPT !["olap"] = r]
      /\ late' = late \cup {c}
      /\ UNCHANGED <<adaptiveProbe, failures>>
  BY DEF _execOltpWithSpillover, PoolInv
<1>2. Sound(pools["olap"]) /\ "olap" \in Tiers /\ "oltp" \in Tiers
  BY DEF PoolInv, Tiers
<1>3. c \notin Asking(pools["olap"]) /\ c \notin pools["olap"].out
  BY <1>1 DEF PoolInv, CallsOwn
<1>5. /\ Sound(r)
      /\ \/ Asking(r) = Asking(pools["olap"]) /\ r.out = pools["olap"].out \cup {c}
         \/ Asking(r) = Asking(pools["olap"]) \cup {c} /\ r.out = pools["olap"].out
  BY <1>2, <1>3, ConnectEffect
<1> HIDE DEF r
<1>6. /\ pools' \in [Tiers -> Pool] /\ pools'["olap"] = r /\ pools'["oltp"] = pools["oltp"]
      /\ \A u \in Tiers : Sound(pools'[u])
  BY <1>1, <1>2, <1>5, TierStep
<1>7. call' = [call EXCEPT ![c] = IF c \in r.out THEN "olap" ELSE "wait olap"]
  BY <1>6 DEF _execOltpWithSpillover
<1>8. call' \in [Calls -> CallStates]
  BY <1>1, <1>7 DEF CallStates
<1>9. CallsOwn'
  BY <1>1, <1>3, <1>5, <1>6, <1>7 DEF PoolInv, CallsOwn
<1> QED BY <1>1, <1>6, <1>8, <1>9 DEF PoolInv

\* When a pool hands connections to calls that asked for them, Proceed lets exactly
\* the calls that still wait for them go on.
LEMMA HandOver ==
  ASSUME PoolInv, NEW t \in Tiers, NEW r, Sound(r), pools' = [pools EXCEPT ![t] = r],
         Asking(r) \subseteq Asking(pools[t]),
         r.out \subseteq pools[t].out \cup Asking(pools[t])
  PROVE  /\ pools' \in [Tiers -> Pool] /\ pools'[t] = r
         /\ \A u \in Tiers : Sound(pools'[u]) /\ (u # t => pools'[u] = pools[u])
         /\ Proceed(pools') \in [Calls -> CallStates]
         /\ \A c \in Calls :
              LET s == Proceed(pools')[c]
              IN  /\ c \in Asking(pools'["oltp"]) => s = "wait oltp" \/ c \in late
                  /\ c \in pools'["oltp"].out => s = "oltp" \/ c \in late
                  /\ c \in Asking(pools'["olap"]) => s = "wait olap"
                  /\ c \in pools'["olap"].out => s = "olap"
                  /\ c \in late => s \in {"wait olap", "olap", "done"}
<1>1. /\ pools' \in [Tiers -> Pool] /\ pools'[t] = r
      /\ \A u \in Tiers : Sound(pools'[u]) /\ (u # t => pools'[u] = pools[u])
  BY TierStep
<1>2. call \in [Calls -> CallStates]
  BY DEF PoolInv
<1>3. Proceed(pools') \in [Calls -> CallStates]
  BY <1>2 DEF Proceed, CallStates
<1>4. ASSUME NEW c \in Calls
      PROVE  LET s == Proceed(pools')[c]
             IN  /\ c \in Asking(pools'["oltp"]) => s = "wait oltp" \/ c \in late
                 /\ c \in pools'["oltp"].out => s = "oltp" \/ c \in late
                 /\ c \in Asking(pools'["olap"]) => s = "wait olap"
                 /\ c \in pools'["olap"].out => s = "olap"
                 /\ c \in late => s \in {"wait olap", "olap", "done"}
  <2>1. Proceed(pools')[c] = IF call[c] = "wait oltp" /\ c \in pools'["oltp"].out THEN "oltp"
                             ELSE IF call[c] = "wait olap" /\ c \in pools'["olap"].out
                                    THEN "olap" ELSE call[c]
    BY DEF Proceed
  <2>2. /\ c \in Asking(pools["oltp"]) => call[c] = "wait oltp" \/ c \in late
        /\ c \in pools["oltp"].out => call[c] = "oltp" \/ c \in late
        /\ c \in Asking(pools["olap"]) => call[c] = "wait olap"
        /\ c \in pools["olap"].out => call[c] = "olap"
        /\ c \in late => call[c] \in {"wait olap", "olap", "done"}
    BY DEF PoolInv, CallsOwn
  <2>3. /\ Asking(pools'["oltp"]) \subseteq Asking(pools["oltp"])
        /\ pools'["oltp"].out \subseteq pools["oltp"].out \cup Asking(pools["oltp"])
        /\ Asking(pools'["olap"]) \subseteq Asking(pools["olap"])
        /\ pools'["olap"].out \subseteq pools["olap"].out \cup Asking(pools["olap"])
    BY <1>1 DEF Tiers
  <2>4. /\ c \in Asking(pools'["oltp"]) => c \notin pools'["oltp"].out
        /\ c \in Asking(pools'["olap"]) => c \notin pools'["olap"].out
    BY <1>1 DEF Tiers, Sound
  <2> QED BY <2>1, <2>2, <2>3, <2>4
<1> QED BY <1>1, <1>3, <1>4

\* A connection opens, or is released by a call: it goes to a call that asked.
LEMMA HandOverInv ==
  ASSUME PoolInv, NEW t \in Tiers, NEW c \in Calls,
         Opened(t, c) \/ _exec(t, c) \/ lateRelease(c)
  PROVE  PoolInv'
<1>0. /\ Sound(pools[t]) /\ Sound(pools["oltp"]) /\ "oltp" \in Tiers /\ "olap" \in Tiers
      /\ late \subseteq OltpQueries /\ failures \in 0..1 /\ pools \in [Tiers -> Pool]
      /\ adaptiveProbe \in [Tiers -> [direction : {0 - 1, 0, 1}, cooled : BOOLEAN]]
  BY DEF PoolInv, Tiers
<1>1. CASE Opened(t, c)
  <2> DEFINE r == [pools[t] EXCEPT !.connecting = @ \ {c}, !.out = @ \cup {c}]
  <2>1. c \in pools[t].connecting /\ pools' = [pools EXCEPT ![t] = r]
        /\ call' = Proceed(pools') /\ UNCHANGED <<late, adaptiveProbe, failures>>
    BY <1>0, <1>1 DEF Opened
  <2>2. /\ Sound(r) /\ Asking(r) = Asking(pools[t]) \ {c} /\ r.out = pools[t].out \cup {c}
        /\ c \in Asking(pools[t])
    BY <1>0, <2>1, OpenedEffect DEF Asking
  <2> HIDE DEF r
  <2>3. Asking(r) \subseteq Asking(pools[t]) /\ r.out \subseteq pools[t].out \cup Asking(pools[t])
    BY <2>2
  <2> QED BY <1>0, <2>1, <2>2, <2>3, HandOver DEF PoolInv, CallsOwn
<1>2. CASE _exec(t, c)
  <2> DEFINE r == Release(pools[t], c)
  <2>1. /\ call[c] = t /\ pools' = [pools EXCEPT ![t] = r]
        /\ call' = [Proceed(pools') EXCEPT ![c] = "done"]
        /\ UNCHANGED <<late, adaptiveProbe, failures>>
    BY <1>0, <1>2 DEF _exec
  <2>2. /\ Sound(r)
        /\ \/ Asking(r) = Asking(pools[t]) /\ r.out = pools[t].out \ {c}
           \/ \E h \in Asking(pools[t]) : /\ Asking(r) = Asking(pools[t]) \ {h}
                                          /\ r.out = (pools[t].out \ {c}) \cup {h}
    BY <1>0, ReleaseEffect
  <2> HIDE DEF r
  <2>3. Asking(r) \subseteq Asking(pools[t]) /\ r.out \subseteq pools[t].out \cup Asking(pools[t])
    BY <2>2
  <2>4. /\ pools' \in [Tiers -> Pool] /\ pools'[t] = r
        /\ \A u \in Tiers : Sound(pools'[u]) /\ (u # t => pools'[u] = pools[u])
        /\ Proceed(pools') \in [Calls -> CallStates]
        /\ \A x \in Calls :
              LET s == Proceed(pools')[x]
              IN  /\ x \in Asking(pools'["oltp"]) => s = "wait oltp" \/ x \in late
                  /\ x \in pools'["oltp"].out => s = "oltp" \/ x \in late
                  /\ x \in Asking(pools'["olap"]) => s = "wait olap"
                  /\ x \in pools'["olap"].out => s = "olap"
                  /\ x \in late => s \in {"wait olap", "olap", "done"}
    BY <2>1, <2>2, <2>3, HandOver
  <2>5. c \notin Asking(pools[t])
    BY <2>1 DEF PoolInv, CallsOwn, Tiers
  <2>6. c \notin r.out /\ c \notin Asking(r)
    BY <2>2, <2>5
  <2>7. call' \in [Calls -> CallStates]
    BY <2>1, <2>4 DEF CallStates
  <2>8. /\ call'[c] = "done"
        /\ \A x \in Calls : x # c => call'[x] = Proceed(pools')[x]
    BY <2>1, <2>4
  <2>9. /\ c \in Asking(pools'["oltp"]) => c \in late
        /\ c \in pools'["oltp"].out => c \in late
        /\ c \notin Asking(pools'["olap"]) /\ c \notin pools'["olap"].out
    <3>1. CASE t = "oltp"
      BY <2>1, <2>4, <2>6, <3>1 DEF PoolInv, CallsOwn, Tiers
    <3>2. CASE t = "olap"
      BY <2>1, <2>4, <2>6, <3>2 DEF PoolInv, CallsOwn, Tiers
    <3> QED BY <3>1, <3>2 DEF Tiers
  <2>10. CallsOwn'
    BY <2>1, <2>4, <2>8, <2>9 DEF CallsOwn
  <2> QED BY <1>0, <2>1, <2>4, <2>7, <2>10 DEF PoolInv
<1>3. CASE lateRelease(c)
  <2> DEFINE r == Release(pools["oltp"], c)
  <2>1. /\ c \in late /\ c \in pools["oltp"].out /\ pools' = [pools EXCEPT !["oltp"] = r]
        /\ call' = Proceed(pools') /\ late' = late \ {c}
        /\ UNCHANGED <<adaptiveProbe, failures>>
    BY <1>0, <1>3 DEF lateRelease
  <2>2. /\ Sound(r)
        /\ \/ Asking(r) = Asking(pools["oltp"]) /\ r.out = pools["oltp"].out \ {c}
           \/ \E h \in Asking(pools["oltp"]) :
                 /\ Asking(r) = Asking(pools["oltp"]) \ {h}
                 /\ r.out = (pools["oltp"].out \ {c}) \cup {h}
    BY <1>0, ReleaseEffect
  <2> HIDE DEF r
  <2>3. /\ Asking(r) \subseteq Asking(pools["oltp"])
        /\ r.out \subseteq pools["oltp"].out \cup Asking(pools["oltp"])
    BY <2>2
  <2>4. /\ pools' \in [Tiers -> Pool] /\ pools'["oltp"] = r
        /\ \A u \in Tiers : Sound(pools'[u])
        /\ Proceed(pools') \in [Calls -> CallStates]
        /\ \A x \in Calls :
              LET s == Proceed(pools')[x]
              IN  /\ x \in Asking(pools'["oltp"]) => s = "wait oltp" \/ x \in late
                  /\ x \in pools'["oltp"].out => s = "oltp" \/ x \in late
                  /\ x \in Asking(pools'["olap"]) => s = "wait olap"
                  /\ x \in pools'["olap"].out => s = "olap"
                  /\ x \in late => s \in {"wait olap", "olap", "done"}
    BY <1>0, <2>1, <2>2, <2>3, HandOver
  <2>5. c \notin Asking(pools["oltp"])
    BY <1>0, <2>1 DEF Sound
  <2>6. c \notin r.out /\ c \notin Asking(r)
    BY <2>2, <2>5
  <2>7. CallsOwn'
    BY <2>1, <2>4, <2>6 DEF CallsOwn
  <2> QED BY <1>0, <2>1, <2>4, <2>7 DEF PoolInv
<1> QED BY <1>1, <1>2, <1>3

\* A refused connection ends the call that asked for it, unless that call had gone
\* to the other pool.
LEMMA OpenFailsInv ==
  ASSUME PoolInv, NEW t \in Tiers, NEW c \in Calls, OpenFails(t, c)
  PROVE  PoolInv'
<1> DEFINE q == [pools[t] EXCEPT !.connecting = @ \ {c}]
           r == IF q.waiting = <<>> THEN q
                ELSE [q EXCEPT !.connecting = @ \cup {Head(q.waiting)}, !.waiting = Tail(@)]
<1>1. /\ c \in pools[t].connecting /\ failures' \in 0..1
      /\ pools' = [pools EXCEPT ![t] = r]
      /\ UNCHANGED adaptiveProbe
      /\ \/ t = "oltp" /\ c \in late /\ late' = late \ {c} /\ UNCHANGED call
         \/ /\ t = "oltp" => c \notin late
            /\ call' = [call EXCEPT ![c] = "done"] /\ UNCHANGED late
  BY DEF OpenFails, PoolInv
<1>2. Sound(pools[t])
  BY DEF PoolInv
<1>3. Sound(r) /\ Asking(r) = Asking(pools[t]) \ {c} /\ r.out = pools[t].out
  BY <1>1, <1>2, OpenFailsEffect
<1>4. c \in Asking(pools[t]) /\ c \notin pools[t].out
  BY <1>1, <1>2 DEF Asking, Sound
<1> HIDE DEF r, q
<1>5. /\ pools' \in [Tiers -> Pool] /\ pools'[t] = r
      /\ \A u \in Tiers : Sound(pools'[u]) /\ (u # t => pools'[u] = pools[u])
  BY <1>1, <1>3, TierStep
<1>6. call' \in [Calls -> CallStates] /\ late' \subseteq OltpQueries
  BY <1>1 DEF PoolInv, CallStates
<1>7. CallsOwn'
  <2>1. CASE t = "oltp"
    <3>1. pools'["oltp"] = r /\ pools'["olap"] = pools["olap"]
      BY <1>5, <2>1 DEF Tiers
    <3>2. CASE c \in late /\ late' = late \ {c} /\ UNCHANGED call
      BY <1>3, <1>4, <2>1, <3>1, <3>2 DEF PoolInv, CallsOwn
    <3>3. CASE c \notin late /\ call' = [call EXCEPT ![c] = "done"] /\ UNCHANGED late
      <4>1. call[c] = "wait oltp"
        BY <1>4, <2>1, <3>3 DEF PoolInv, CallsOwn
      <4>2. /\ call'[c] = "done" /\ \A x \in Calls : x # c => call'[x] = call[x]
        BY <3>3 DEF PoolInv
      <4>3. c \notin Asking(pools["olap"]) /\ c \notin pools["olap"].out
        BY <4>1 DEF PoolInv, CallsOwn
      <4> QED BY <1>3, <1>4, <2>1, <3>1, <3>3, <4>2, <4>3 DEF PoolInv, CallsOwn
    <3> QED BY <1>1, <2>1, <3>2, <3>3
  <2>2. CASE t = "olap"
    <3>1. pools'["olap"] = r /\ pools'["oltp"] = pools["oltp"]
      BY <1>5, <2>2 DEF Tiers
    <3> QED BY <1>1, <1>3, <1>4, <2>2, <3>1 DEF PoolInv, CallsOwn
  <2> QED BY <2>1, <2>2 DEF Tiers
<1> QED BY <1>1, <1>5, <1>6, <1>7 DEF PoolInv

\* The probe and the idle timeout change sizes only, and clamp never yields zero.
LEMMA ResizeInv ==
  ASSUME PoolInv, NEW t \in Tiers,
         IdleTimeout(t) \/ \E d \in {0 - 1, 1} : evaluate(t, d)
  PROVE  PoolInv'
<1>1. Sound(pools[t]) /\ pools[t] \in Pool /\ pools[t].max \in Nat /\ pools[t].idle \in Nat
  BY DEF PoolInv, Sound, Pool
<1>2. PICK r : /\ pools' = [pools EXCEPT ![t] = r] /\ r \in Pool /\ r.max >= 1
               /\ r.connecting = pools[t].connecting /\ r.waiting = pools[t].waiting
               /\ r.out = pools[t].out
               /\ UNCHANGED <<call, late, failures>>
               /\ adaptiveProbe' \in [Tiers -> [direction : {0 - 1, 0, 1}, cooled : BOOLEAN]]
  <2>1. CASE IdleTimeout(t)
    <3> DEFINE r == [pools[t] EXCEPT !.idle = @ - 1]
    <3>1. /\ pools' = [pools EXCEPT ![t] = r] /\ pools[t].idle > 0
          /\ UNCHANGED <<call, late, adaptiveProbe, failures>>
      BY <2>1 DEF IdleTimeout, PoolInv
    <3>2. /\ r \in Pool /\ r.max = pools[t].max /\ r.connecting = pools[t].connecting
          /\ r.waiting = pools[t].waiting /\ r.out = pools[t].out
      BY <1>1, <3>1 DEF Pool
    <3>3. pools[t].max >= 1
      BY <1>1 DEF Sound
    <3> HIDE DEF r
    <3> QED BY <3>1, <3>2, <3>3 DEF PoolInv
  <2>2. ASSUME NEW d \in {0 - 1, 1}, evaluate(t, d)
        PROVE  \E r : /\ pools' = [pools EXCEPT ![t] = r] /\ r \in Pool /\ r.max >= 1
                      /\ r.connecting = pools[t].connecting /\ r.waiting = pools[t].waiting
                      /\ r.out = pools[t].out
                      /\ UNCHANGED <<call, late, failures>>
                      /\ adaptiveProbe' \in [Tiers -> [direction : {0 - 1, 0, 1}, cooled : BOOLEAN]]
    <3>1. \A n \in Nat : clamp(n) \in Nat /\ clamp(n) >= 1
      BY PoolAssumption DEF clamp
    <3>2. PICK n \in Nat : n >= 1 /\ pools' = [pools EXCEPT ![t].max = n]
      <4> DEFINE m == pools[t].max
                 k == IF d = 1 THEN clamp(m + adjustmentStep)
                      ELSE clamp(IF m > adjustmentStep THEN m - adjustmentStep ELSE 0)
      <4>1. m \in Nat /\ adjustmentStep \in Nat
        BY <1>1, PoolAssumption
      <4>2. k \in Nat /\ k >= 1
        BY <3>1, <4>1
      <4>3. pools' = [pools EXCEPT ![t].max = k]
        BY <2>2 DEF evaluate
      <4> HIDE DEF k, m
      <4> QED BY <4>2, <4>3
    <3> DEFINE r == [pools[t] EXCEPT !.max = n]
    <3>3. pools' = [pools EXCEPT ![t] = r]
      BY <3>2 DEF PoolInv
    <3>4. /\ r \in Pool /\ r.max = n /\ r.connecting = pools[t].connecting
          /\ r.waiting = pools[t].waiting /\ r.out = pools[t].out
      BY <1>1 DEF Pool
    <3>5. /\ UNCHANGED <<call, late, failures>>
          /\ adaptiveProbe' = [adaptiveProbe EXCEPT ![t] = [direction |-> d, cooled |-> FALSE]]
      BY <2>2 DEF evaluate
    <3>6. adaptiveProbe' \in [Tiers -> [direction : {0 - 1, 0, 1}, cooled : BOOLEAN]]
      BY <3>5 DEF PoolInv
    <3> HIDE DEF r
    <3> QED BY <3>2, <3>3, <3>4, <3>5, <3>6
  <2> QED BY <2>1, <2>2
<1>3. Asking(r) = Asking(pools[t])
  BY <1>2 DEF Asking
<1>4. Sound(r)
  BY <1>1, <1>2, <1>3 DEF Sound
<1>5. /\ pools' \in [Tiers -> Pool] /\ pools'[t] = r
      /\ \A u \in Tiers : Sound(pools'[u]) /\ (u # t => pools'[u] = pools[u])
  BY <1>2, <1>4, TierStep
<1>6. \A u \in Tiers : Asking(pools'[u]) = Asking(pools[u]) /\ pools'[u].out = pools[u].out
  BY <1>2, <1>3, <1>5
<1>7. CallsOwn'
  BY <1>2, <1>6 DEF PoolInv, CallsOwn, Tiers
<1> QED BY <1>2, <1>5, <1>7 DEF PoolInv

\* The invariant of the pools is inductive.
LEMMA PoolInvariance == PoolSpec => []PoolInv
<1>1. PoolInit => PoolInv
  <2> SUFFICES ASSUME PoolInit PROVE PoolInv
    OBVIOUS
  <2>1. ASSUME NEW t \in Tiers
        PROVE  Sound(pools[t]) /\ Asking(pools[t]) = {} /\ pools[t].out = {} /\ pools[t] \in Pool
    <3>1. /\ pools[t] = [max |-> initialMax[t], idle |-> 0, connecting |-> {},
                         waiting |-> <<>>, out |-> {}]
          /\ initialMax[t] \in Nat /\ initialMax[t] >= 1
      BY PoolAssumption DEF PoolInit
    <3>2. <<>> \in Seq(Calls) /\ Range(<<>>) = {} /\ IsInjective(<<>>)
      BY DEF Range, IsInjective
    <3>3. pools[t] \in Pool
      BY <3>1, <3>2 DEF Pool
    <3>4. Asking(pools[t]) = {}
      BY <3>1, <3>2 DEF Asking
    <3>5. /\ pools[t].max >= 1 /\ pools[t].waiting = <<>> /\ pools[t].out = {}
          /\ pools[t].connecting = {}
      BY <3>1
    <3>6. Sound(pools[t])
      BY <3>2, <3>3, <3>4, <3>5 DEF Sound
    <3> QED BY <3>3, <3>4, <3>5, <3>6
  <2>2. pools \in [Tiers -> Pool]
    BY <2>1 DEF PoolInit
  <2>3. CallsOwn
    BY <2>1 DEF PoolInit, CallsOwn, Tiers
  <2>4. adaptiveProbe \in [Tiers -> [direction : {0 - 1, 0, 1}, cooled : BOOLEAN]]
    BY DEF PoolInit
  <2>5. call \in [Calls -> CallStates]
    BY DEF PoolInit, CallStates
  <2>6. late \subseteq OltpQueries /\ failures \in 0..1
    BY DEF PoolInit
  <2> QED BY <2>1, <2>2, <2>3, <2>4, <2>5, <2>6 DEF PoolInv
<1>2. ASSUME PoolInv, [PoolNext]_poolVars PROVE PoolInv'
  <2>1. ASSUME NEW c \in Calls, transaction(c) \/ query(c) PROVE PoolInv'
    <3>1. PICK t \in Tiers : start(t, c)
      BY <2>1 DEF transaction, query, Tiers
    <3> QED BY <1>2, <3>1, StartInv
  <2>2. ASSUME NEW c \in Calls, lateRelease(c) PROVE PoolInv'
    BY <1>2, <2>2, HandOverInv DEF Tiers
  <2>3. ASSUME NEW t \in Tiers, CooldownPasses(t) PROVE PoolInv'
    <3>1. /\ adaptiveProbe' \in [Tiers -> [direction : {0 - 1, 0, 1}, cooled : BOOLEAN]]
          /\ UNCHANGED <<pools, call, late, failures>>
      BY <1>2, <2>3 DEF CooldownPasses, PoolInv
    <3> QED BY <1>2, <3>1 DEF PoolInv, CallsOwn
  <2>4. CASE UNCHANGED poolVars
    BY <1>2, <2>4 DEF poolVars, PoolInv, CallsOwn
  <2> QED BY <1>2, <2>1, <2>2, <2>3, <2>4, SpilloverInv, HandOverInv, OpenFailsInv, ResizeInv
       DEF PoolNext
<1> QED BY <1>1, <1>2, PTL DEF PoolSpec

\* For any number of queries, whatever spills over, is refused or resized, a connection
\* is checked out only for a call under way or to be given back, and no pool is resized
\* to nothing; and the process exits with 0 only when its connections were served and
\* its state persisted.
THEOREM PoolsAreSafe == PoolSpec /\ ShutdownSpec => []PoolSafe
<1>1. PoolInv => PoolTypeOK /\ ConnectionsOwned
  <2> SUFFICES ASSUME PoolInv PROVE PoolTypeOK /\ ConnectionsOwned
    OBVIOUS
  <2>1. ASSUME NEW t \in Tiers
        PROVE  pools[t] \in [max : Nat, idle : Nat, connecting : SUBSET Calls,
                             waiting : BoundedSeq(Calls, Cardinality(Calls)),
                             out : SUBSET Calls]
    <3>1. pools[t] \in Pool /\ IsInjective(pools[t].waiting) /\ pools[t].waiting \in Seq(Calls)
      BY DEF PoolInv, Sound, Pool
    <3>2. Len(pools[t].waiting) <= Cardinality(Calls) /\ Cardinality(Calls) \in Nat
      BY <3>1, PoolAssumption, InjectiveIsShort, FS_CardinalityType
    <3>3. pools[t].waiting \in BoundedSeq(Calls, Cardinality(Calls))
      BY <3>1, <3>2, BoundedSeqMember
    <3> QED BY <3>1, <3>3 DEF Pool
  <2>2. pools = [t \in Tiers |-> pools[t]]
    BY DEF PoolInv
  <2>3. PoolTypeOK
    BY <2>1, <2>2 DEF PoolInv, PoolTypeOK, CallStates
  <2>4. ConnectionsOwned
    BY DEF PoolInv, ConnectionsOwned, CallsOwn, Sound
  <2> QED BY <2>3, <2>4
<1>2. PoolInv /\ ShutdownInv => PoolSafe
  BY <1>1 DEF PoolSafe, ShutdownInv
<1> QED BY <1>2, PoolInvariance, ShutdownInvariance, PTL

-----------------------------------------------------------------------------
(***************************************************************************)
(* The audit log                                                           *)
(***************************************************************************)

WriterState == [pc : {"idle", "insert", "drain", "done"}, entry : Entries \cup {NoEntry}]

\* What write() has answered for, and what of it is neither stored nor queued.
Answered == {e \in Entries : writer[e].pc \in {"drain", "done"}}
LostEntries == Answered \ (auditRows \cup Range(queue))

\* Only what write() has finished with is queued.
QueuedIsDone == \A e \in Range(queue) : writer[e].pc = "done"

\* An entry is queued once and removed from the front only: while the one that a
\* drain is inserting is queued, it is the head.
DrainsHead ==
  \A w \in Writers : writer[w].pc = "drain" =>
    /\ writer[w].entry \in Entries
    /\ writer[writer[w].entry].pc = "done"
    /\ writer[w].entry \in Range(queue) => writer[w].entry = Head(queue)

\* Each loss is counted, and each finished write is queued or counted at most once.
LossesCounted ==
  /\ Cardinality(LostEntries) <= queueDropped
  /\ queueDropped + Len(queue) <= Cardinality({e \in Entries : writer[e].pc = "done"})

QueueInv ==
  /\ auditRows \subseteq Entries
  /\ queue \in Seq(Entries) /\ IsInjective(queue) /\ Len(queue) <= QUEUE_CAPACITY
  /\ writer \in [Writers -> WriterState]
  /\ queueDropped \in Nat
  /\ QueuedIsDone /\ DrainsHead /\ LossesCounted

AuditInv ==
  /\ QueueInv
  /\ {dbAvailable, errorListener, auditUp} \subseteq BOOLEAN
  /\ database \in {"up", "slow"} /\ outages \in 0..MaxOutages

\* A set that loses one member and gains at most one is not larger.
LEMMA SwapCardinality ==
  ASSUME NEW S, IsFiniteSet(S), NEW T, NEW x \in S, NEW y, T \subseteq (S \ {x}) \cup {y}
  PROVE  Cardinality(T) <= Cardinality(S)
<1>1. /\ IsFiniteSet(S \ {x}) /\ Cardinality(S \ {x}) = Cardinality(S) - 1
      /\ Cardinality(S) \in Nat /\ Cardinality(S \ {x}) \in Nat
  BY FS_RemoveElement, FS_CardinalityType
<1>a. ASSUME NEW R, IsFiniteSet(R), Cardinality(R) \in Nat
      PROVE  IsFiniteSet(R \cup {y}) /\ Cardinality(R \cup {y}) <= Cardinality(R) + 1
  <2>1. /\ IsFiniteSet(R \cup {y})
        /\ Cardinality(R \cup {y}) = IF y \in R THEN Cardinality(R) ELSE Cardinality(R) + 1
    BY <1>a, FS_AddElement
  <2> QED BY <1>a, <2>1
<1>2. /\ IsFiniteSet((S \ {x}) \cup {y})
      /\ Cardinality((S \ {x}) \cup {y}) <= Cardinality(S \ {x}) + 1
  BY <1>1, <1>a
<1>3. Cardinality(T) <= Cardinality((S \ {x}) \cup {y})
  BY <1>2, FS_Subset
<1>4. Cardinality(T) \in Nat /\ Cardinality((S \ {x}) \cup {y}) \in Nat
  BY <1>2, FS_Subset, FS_CardinalityType
<1> QED BY <1>1, <1>2, <1>3, <1>4

\* A step of one writer that enqueues nothing.  It may take the head off the queue, if
\* that entry is stored or another lost one has just been.
LEMMA WriterMoves ==
  ASSUME QueueInv, NEW w \in Writers, NEW s \in WriterState,
         writer' = [writer EXCEPT ![w] = s], writer[w].pc # "done",
         UNCHANGED queueDropped,
         auditRows \subseteq auditRows', auditRows' \subseteq Entries,
         w \in Entries /\ s.pc \in {"drain", "done"} => writer[w].pc = "drain" \/ w \in auditRows',
         s.pc = "drain" => queue' # <<>> /\ s.entry = Head(queue'),
         \/ queue' = queue
         \/ /\ queue # <<>> /\ queue' = Tail(queue)
            /\ Head(queue) \in auditRows' \/ LostEntries \cap auditRows' # {}
  PROVE  QueueInv'
<1>0. Entries \subseteq Writers /\ Range(queue) \subseteq Entries
  BY DEF Writers, Range, QueueInv
<1>1. /\ writer' \in [Writers -> WriterState] /\ writer'[w] = s
      /\ \A v \in Writers : v # w => writer'[v] = writer[v]
      /\ \A v \in Writers : writer[v].pc = "done" => writer'[v] = writer[v]
  BY DEF QueueInv
<1>2. /\ queue' \in Seq(Entries) /\ IsInjective(queue') /\ Len(queue') <= Len(queue)
      /\ Len(queue) \in Nat /\ Len(queue') \in Nat
      /\ Range(queue') \subseteq Range(queue)
      /\ \/ queue' = queue
         \/ /\ queue # <<>> /\ Head(queue) \notin Range(queue')
            /\ Range(queue') = Range(queue) \ {Head(queue)}
  <2>1. queue \in Seq(Entries) /\ IsInjective(queue) /\ Len(queue) \in Nat
    BY DEF QueueInv
  <2>2. CASE queue' = queue
    BY <2>1, <2>2
  <2>3. CASE queue # <<>> /\ queue' = Tail(queue)
    <3>1. /\ queue' \in Seq(Entries) /\ IsInjective(queue') /\ Len(queue') = Len(queue) - 1
          /\ Range(queue') = Range(queue) \ {Head(queue)}
      BY <2>1, <2>3, TailOfInjective
    <3>2. Len(queue') \in Nat /\ Len(queue') <= Len(queue)
      BY <2>1, <3>1
    <3>3. Head(queue) \notin Range(queue') /\ Range(queue') \subseteq Range(queue)
      BY <3>1
    <3> QED BY <2>1, <2>3, <3>1, <3>2, <3>3
  <2> QED BY <2>2, <2>3
<1>3. Len(queue') <= QUEUE_CAPACITY
  BY <1>2, AuditAssumption DEF QueueInv
<1>4. QueuedIsDone'
  BY <1>0, <1>1, <1>2 DEF QueueInv, QueuedIsDone
<1>5. DrainsHead'
  <2> SUFFICES ASSUME NEW v \in Writers, writer'[v].pc = "drain"
               PROVE  /\ writer'[v].entry \in Entries
                      /\ writer'[writer'[v].entry].pc = "done"
                      /\ writer'[v].entry \in Range(queue') => writer'[v].entry = Head(queue')
    BY DEF DrainsHead
  <2>1. CASE v = w
    <3>1. queue' # <<>> /\ s.entry = Head(queue')
      BY <1>1, <2>1
    <3>2. Head(queue') \in Range(queue')
      BY <1>2, <3>1, TailOfInjective
    <3> QED BY <1>0, <1>1, <1>2, <1>4, <2>1, <3>1, <3>2 DEF QueuedIsDone
  <2>2. CASE v # w
    <3>1. /\ writer'[v] = writer[v] /\ writer[v].entry \in Entries
          /\ writer[writer[v].entry].pc = "done"
          /\ writer[v].entry \in Range(queue) => writer[v].entry = Head(queue)
      BY <1>1, <2>2 DEF QueueInv, DrainsHead
    <3> QED BY <1>0, <1>1, <1>2, <3>1
  <2> QED BY <2>1, <2>2
<1>6. IsFiniteSet(LostEntries) /\ Cardinality(LostEntries) \in Nat
  BY AuditAssumption, FS_Subset, FS_CardinalityType DEF LostEntries, Answered
<1>7. Cardinality(LostEntries') <= Cardinality(LostEntries)
  <2>1. Answered' \subseteq Answered \cup auditRows'
    BY <1>0, <1>1 DEF Answered
  <2>2. CASE queue' = queue \/ (queue # <<>> /\ Head(queue) \in auditRows')
    <3>1. LostEntries' \subseteq LostEntries
      BY <1>2, <2>1, <2>2 DEF LostEntries
    <3> QED BY <1>6, <3>1, FS_Subset
  <2>3. CASE LostEntries \cap auditRows' # {} /\ queue # <<>> /\ queue' = Tail(queue)
    <3>1. PICK x \in LostEntries : x \in auditRows'
      BY <2>3
    <3>2. LostEntries' \subseteq (LostEntries \ {x}) \cup {Head(queue)}
      BY <1>2, <2>1, <3>1 DEF LostEntries
    <3> QED BY <1>6, <3>1, <3>2, SwapCardinality
  <2> QED BY <2>2, <2>3
<1>8. LossesCounted'
  <2> DEFINE d1 == {e \in Entries : writer[e].pc = "done"}
             d2 == {e \in Entries : writer'[e].pc = "done"}
  <2>1. d1 \subseteq d2 /\ d2 \subseteq Entries
    BY <1>0, <1>1
  <2>2. IsFiniteSet(d2) /\ Cardinality(d1) <= Cardinality(d2)
    BY <2>1, AuditAssumption, FS_Subset
  <2>3. Cardinality(d1) \in Nat /\ Cardinality(d2) \in Nat
    BY <2>1, <2>2, FS_Subset, FS_CardinalityType
  <2>4. /\ Cardinality(LostEntries) <= queueDropped
        /\ queueDropped + Len(queue) <= Cardinality(d1) /\ queueDropped \in Nat
    BY DEF QueueInv, LossesCounted
  <2>5. IsFiniteSet(LostEntries') /\ Cardinality(LostEntries') \in Nat
    <3>1. LostEntries' \subseteq Entries
      BY DEF LostEntries, Answered
    <3> QED BY <3>1, AuditAssumption, FS_Subset, FS_CardinalityType
  <2>6. Cardinality(LostEntries') <= queueDropped'
    BY <1>6, <1>7, <2>4, <2>5
  <2>7. queueDropped' + Len(queue') <= Cardinality(d2)
    BY <1>2, <2>2, <2>3, <2>4
  <2> QED BY <2>6, <2>7 DEF LossesCounted
<1> QED BY <1>1, <1>2, <1>3, <1>4, <1>5, <1>8 DEF QueueInv

\* What _enqueue makes of the queue: the new entry is last, and at capacity the head
\* makes room for it and is counted.
LEMMA EnqueueEffect ==
  ASSUME QueueInv, NEW e \in Entries, e \notin Range(queue), _enqueue(e)
  PROVE  /\ queue' \in Seq(Entries) /\ IsInjective(queue') /\ Len(queue') <= QUEUE_CAPACITY
         /\ queueDropped' \in Nat
         /\ queueDropped' + Len(queue') = queueDropped + Len(queue) + 1
         /\ \/ /\ queueDropped' = queueDropped /\ Range(queue') = Range(queue) \cup {e}
               /\ queue # <<>> => Head(queue') = Head(queue)
            \/ /\ queueDropped' = queueDropped + 1 /\ queue # <<>>
               /\ Range(queue') = (Range(queue) \ {Head(queue)}) \cup {e}
<1>1. /\ queue \in Seq(Entries) /\ IsInjective(queue) /\ Len(queue) <= QUEUE_CAPACITY
      /\ queueDropped \in Nat /\ Len(queue) \in Nat /\ QUEUE_CAPACITY \in Nat
      /\ QUEUE_CAPACITY # 0
  BY AuditAssumption DEF QueueInv
<1>2. CASE Len(queue) >= QUEUE_CAPACITY
  <2> DEFINE q == Tail(queue)
  <2>1. queue # <<>>
    BY <1>1, <1>2
  <2>2. /\ q \in Seq(Entries) /\ IsInjective(q) /\ Len(q) = Len(queue) - 1
        /\ Range(q) = Range(queue) \ {Head(queue)}
    BY <1>1, <2>1, TailOfInjective
  <2>3. queue' = Append(q, e) /\ queueDropped' = queueDropped + 1
    BY <1>2 DEF _enqueue
  <2> HIDE DEF q
  <2>4. /\ queue' \in Seq(Entries) /\ IsInjective(queue') /\ Len(queue') = Len(q) + 1
        /\ Range(queue') = Range(q) \cup {e}
    BY <2>2, <2>3, AppendToInjective
  <2> QED BY <1>1, <2>1, <2>2, <2>3, <2>4
<1>3. CASE ~(Len(queue) >= QUEUE_CAPACITY)
  <2>1. queue' = Append(queue, e) /\ queueDropped' = queueDropped + 0
    BY <1>3 DEF _enqueue
  <2>2. /\ queue' \in Seq(Entries) /\ IsInjective(queue') /\ Len(queue') = Len(queue) + 1
        /\ Range(queue') = Range(queue) \cup {e}
    BY <1>1, <2>1, AppendToInjective
  <2>3. queue # <<>> => Head(queue') = Head(queue)
    BY <1>1, <2>1, HeadTailAppend
  <2> QED BY <1>1, <1>3, <2>1, <2>2, <2>3
<1> QED BY <1>2, <1>3

\* A write that ends by queueing its entry: an eviction loses one entry, and counts it.
LEMMA WriteQueues ==
  ASSUME QueueInv, NEW e \in Entries, writer[e].pc \in {"idle", "insert"}, _enqueue(e),
         writer' = [writer EXCEPT ![e] = Ended(e)],
         auditRows \subseteq auditRows', auditRows' \subseteq Entries
  PROVE  QueueInv'
<1>0. Entries \subseteq Writers /\ Range(queue) \subseteq Entries
  BY DEF Writers, Range, QueueInv
<1>1. /\ e \notin Range(queue)
      /\ \A v \in Writers : writer[v].pc = "drain" => writer[v].entry # e
  BY DEF QueueInv, QueuedIsDone, DrainsHead
<1>2. /\ queue' \in Seq(Entries) /\ IsInjective(queue') /\ Len(queue') <= QUEUE_CAPACITY
      /\ queueDropped' \in Nat
      /\ queueDropped' + Len(queue') = queueDropped + Len(queue) + 1
      /\ \/ /\ queueDropped' = queueDropped /\ Range(queue') = Range(queue) \cup {e}
            /\ queue # <<>> => Head(queue') = Head(queue)
         \/ /\ queueDropped' = queueDropped + 1 /\ queue # <<>>
            /\ Range(queue') = (Range(queue) \ {Head(queue)}) \cup {e}
  BY <1>1, EnqueueEffect
<1>3. Ended(e) \in WriterState /\ Ended(e).pc = "done"
  BY DEF Ended, WriterState
<1>4. /\ writer' \in [Writers -> WriterState] /\ writer'[e].pc = "done"
      /\ \A v \in Writers : v # e => writer'[v] = writer[v]
  BY <1>0, <1>3 DEF QueueInv
<1>5. QueuedIsDone'
  BY <1>0, <1>2, <1>4 DEF QueueInv, QueuedIsDone
<1>6. DrainsHead'
  <2> SUFFICES ASSUME NEW v \in Writers, writer'[v].pc = "drain"
               PROVE  /\ writer'[v].entry \in Entries
                      /\ writer'[writer'[v].entry].pc = "done"
                      /\ writer'[v].entry \in Range(queue') => writer'[v].entry = Head(queue')
    BY DEF DrainsHead
  <2>1. v # e
    BY <1>4
  <2>2. /\ writer'[v] = writer[v] /\ writer[v].entry \in Entries /\ writer[v].entry # e
        /\ writer[writer[v].entry].pc = "done"
        /\ writer[v].entry \in Range(queue) => writer[v].entry = Head(queue)
    BY <1>1, <1>4, <2>1 DEF QueueInv, DrainsHead
  <2>3. writer[v].entry \in Range(queue') => writer[v].entry \in Range(queue)
    BY <1>2, <2>2
  <2>4. writer[v].entry \in Range(queue) => queue # <<>>
    BY DEF Range
  <2> QED BY <1>0, <1>2, <1>4, <2>2, <2>3, <2>4
<1>7. /\ IsFiniteSet(LostEntries) /\ Cardinality(LostEntries) \in Nat
      /\ Cardinality(LostEntries) <= queueDropped /\ queueDropped \in Nat
  BY AuditAssumption, FS_Subset, FS_CardinalityType
     DEF LostEntries, Answered, QueueInv, LossesCounted
<1>8. Cardinality(LostEntries') <= queueDropped'
  <2>1. Answered' \subseteq Answered \cup {e} /\ e \in Range(queue')
    BY <1>0, <1>2, <1>4 DEF Answered
  <2>2. CASE queueDropped' = queueDropped /\ Range(queue') = Range(queue) \cup {e}
    <3>1. LostEntries' \subseteq LostEntries
      BY <2>1, <2>2 DEF LostEntries
    <3>2. Cardinality(LostEntries') <= Cardinality(LostEntries) /\ Cardinality(LostEntries') \in Nat
      BY <1>7, <3>1, FS_Subset, FS_CardinalityType
    <3> QED BY <1>7, <2>2, <3>2
  <2>3. CASE /\ queueDropped' = queueDropped + 1
             /\ Range(queue') = (Range(queue) \ {Head(queue)}) \cup {e}
    <3> DEFINE h == Head(queue)
    <3>1. LostEntries' \subseteq LostEntries \cup {h}
      BY <2>1, <2>3 DEF LostEntries
    <3> HIDE DEF h
    <3>2. /\ IsFiniteSet(LostEntries \cup {h})
          /\ Cardinality(LostEntries \cup {h})
               = IF h \in LostEntries THEN Cardinality(LostEntries) ELSE Cardinality(LostEntries) + 1
      BY <1>7, FS_AddElement
    <3>3. /\ Cardinality(LostEntries') <= Cardinality(LostEntries \cup {h})
          /\ Cardinality(LostEntries') \in Nat
      BY <3>1, <3>2, FS_Subset, FS_CardinalityType
    <3> QED BY <1>7, <2>3, <3>2, <3>3
  <2> QED BY <1>2, <2>2, <2>3
<1>9. LossesCounted'
  <2> DEFINE d1 == {x \in Entries : writer[x].pc = "done"}
             d2 == {x \in Entries : writer'[x].pc = "done"}
  <2>1. d2 = d1 \cup {e} /\ e \notin d1 /\ d1 \subseteq Entries
    BY <1>0, <1>4
  <2> HIDE DEF d1, d2
  <2>2. IsFiniteSet(d1) /\ Cardinality(d1) \in Nat
    BY <2>1, AuditAssumption, FS_Subset, FS_CardinalityType
  <2>3. Cardinality(d2) = Cardinality(d1) + 1
    BY <2>1, <2>2, FS_AddElement
  <2>4. queueDropped + Len(queue) <= Cardinality(d1) /\ Len(queue) \in Nat
    BY DEF QueueInv, LossesCounted, d1
  <2>5. queueDropped' + Len(queue') <= Cardinality(d2)
    BY <1>2, <1>7, <2>2, <2>3, <2>4
  <2> QED BY <1>8, <2>5 DEF LossesCounted, d2
<1> QED BY <1>2, <1>4, <1>5, <1>6, <1>9 DEF QueueInv

\* The invariant of the audit log is inductive.
LEMMA AuditInvariance == AuditInit /\ [][AuditNext]_auditVars => []AuditInv
<1>1. AuditInit => AuditInv
  <2> SUFFICES ASSUME AuditInit PROVE AuditInv
    OBVIOUS
  <2>1. /\ queue \in Seq(Entries) /\ Len(queue) = 0 /\ Range(queue) = {} /\ IsInjective(queue)
        /\ QUEUE_CAPACITY \in Nat
    BY AuditAssumption DEF AuditInit, Range, IsInjective
  <2>2. writer \in [Writers -> WriterState] /\ \A w \in Writers : writer[w].pc = "idle"
    BY DEF AuditInit, WriterState
  <2>3. LostEntries = {} /\ {e \in Entries : writer[e].pc = "done"} = {}
    BY <2>2 DEF LostEntries, Answered, Writers
  <2>4. LossesCounted
    <3>1. /\ Cardinality(LostEntries) = 0 /\ queueDropped = 0
          /\ Cardinality({e \in Entries : writer[e].pc = "done"}) = 0
      BY <2>3, FS_EmptySet DEF AuditInit
    <3> QED BY <2>1, <3>1 DEF LossesCounted
  <2>5. QueueInv
    BY <2>1, <2>2, <2>4 DEF QueueInv, QueuedIsDone, DrainsHead, AuditInit
  <2> QED BY <2>5, AuditAssumption DEF AuditInv, AuditInit
<1>2. ASSUME AuditInv, [AuditNext]_auditVars PROVE AuditInv'
  <2>0. /\ QueueInv /\ queue \in Seq(Entries) /\ IsInjective(queue) /\ auditRows \subseteq Entries
        /\ Entries \subseteq Writers /\ Probes \subseteq Writers /\ Entries \cap Probes = {}
        /\ writer \in [Writers -> WriterState]
        /\ {dbAvailable, errorListener, auditUp} \subseteq BOOLEAN
        /\ database \in {"up", "slow"} /\ outages \in 0..MaxOutages
    BY <1>2, AuditAssumption DEF AuditInv, QueueInv, Writers
  \* What a drain that starts or goes round does to its writer.
  <2>a. ASSUME NEW w \in Writers, NEW q \in Seq(Entries), NEW b \in BOOLEAN
        PROVE  \E s \in WriterState :
                 /\ Drain(w, q, b) = [writer EXCEPT ![w] = s]
                 /\ s.pc \in {"drain", "done", "idle"}
                 /\ s.pc = "drain" => q # <<>> /\ s.entry = Head(q)
    <3>1. CASE q # <<>> /\ b
      <4> DEFINE s == [pc |-> "drain", entry |-> Head(q)]
      <4>1. s \in WriterState /\ s.pc = "drain" /\ s.entry = Head(q)
        BY <3>1 DEF WriterState
      <4>2. Drain(w, q, b) = [writer EXCEPT ![w] = s]
        BY <3>1 DEF Drain
      <4> HIDE DEF s
      <4> QED BY <3>1, <4>1, <4>2
    <3>2. CASE ~(q # <<>> /\ b)
      <4>1. Ended(w) \in WriterState /\ Ended(w).pc \in {"done", "idle"}
        BY DEF WriterState, Ended
      <4>2. Drain(w, q, b) = [writer EXCEPT ![w] = Ended(w)]
        BY <3>2 DEF Drain
      <4> QED BY <4>1, <4>2
    <3> QED BY <3>1, <3>2
  <2>b. \A w \in Writers : Ended(w) \in WriterState /\ Ended(w).pc \in {"done", "idle"}
    BY DEF WriterState, Ended
  <2>1. ASSUME NEW e \in Entries, write(e) PROVE AuditInv'
    <3>1. /\ writer[e].pc = "idle"
          /\ UNCHANGED <<auditRows, dbAvailable, database, outages, errorListener, auditUp>>
      BY <2>1 DEF write
    <3>2. CASE dbAvailable
      <4> DEFINE s == [pc |-> "insert", entry |-> e]
      <4>1. s \in WriterState /\ s.pc = "insert"
        BY DEF WriterState
      <4>2. writer' = [writer EXCEPT ![e] = s] /\ UNCHANGED <<queue, queueDropped>>
        BY <2>1, <3>2 DEF write
      <4> HIDE DEF s
      <4>3. QueueInv'
        BY <2>0, <3>1, <4>1, <4>2, WriterMoves
      <4> QED BY <2>0, <3>1, <4>3 DEF AuditInv
    <3>3. CASE ~dbAvailable
      <4>1. writer' = [writer EXCEPT ![e] = Ended(e)] /\ _enqueue(e)
        BY <2>1, <3>3 DEF write
      <4>2. QueueInv'
        BY <2>0, <3>1, <4>1, WriteQueues
      <4> QED BY <2>0, <3>1, <4>2 DEF AuditInv
    <3> QED BY <3>2, <3>3
  <2>2. ASSUME NEW e \in Entries, writeInserted(e) PROVE AuditInv'
    <3>1. /\ writer[e].pc = "insert" /\ auditRows' = auditRows \cup {e}
          /\ writer' = Drain(e, queue, dbAvailable)
          /\ UNCHANGED <<queue, dbAvailable, database, outages, errorListener, auditUp, queueDropped>>
      BY <2>2 DEF writeInserted, InsertSucceeds
    <3>2. PICK s \in WriterState :
                 /\ writer' = [writer EXCEPT ![e] = s]
                 /\ s.pc = "drain" => queue # <<>> /\ s.entry = Head(queue)
      BY <2>0, <2>a, <3>1
    <3>3. QueueInv'
      BY <2>0, <3>1, <3>2, WriterMoves
    <3> QED BY <2>0, <3>1, <3>3 DEF AuditInv
  <2>3. ASSUME NEW e \in Entries, writeFailed(e) PROVE AuditInv'
    <3>1. /\ writer[e].pc = "insert" /\ auditRows \subseteq auditRows' /\ auditRows' \subseteq Entries
          /\ dbAvailable' = FALSE /\ _enqueue(e) /\ auditUp' = errorListener
          /\ writer' = [writer EXCEPT ![e] = Ended(e)]
          /\ UNCHANGED <<database, outages, errorListener>>
      BY <2>0, <2>3 DEF writeFailed, InsertFails
    <3>2. QueueInv'
      BY <2>0, <3>1, WriteQueues
    <3> QED BY <2>0, <3>1, <3>2 DEF AuditInv
  <2>4. ASSUME NEW w \in Writers, drained(w) PROVE AuditInv'
    <3> DEFINE x == writer[w].entry
    <3>0. /\ writer[w].pc = "drain" /\ x \in Entries /\ writer[x].pc = "done"
          /\ x \in Range(queue) => x = Head(queue)
          /\ UNCHANGED <<database, outages, errorListener, auditUp, queueDropped>>
      BY <2>0, <2>4 DEF drained, QueueInv, DrainsHead
    <3> HIDE DEF x
    <3>1. CASE /\ x \notin auditRows /\ auditRows' = auditRows \cup {x}
               /\ queue' = shifted /\ writer' = Drain(w, queue', dbAvailable)
               /\ UNCHANGED dbAvailable
      <4>1. queue' \in Seq(Entries)
        BY <2>0, <3>1 DEF shifted
      <4>2. PICK s \in WriterState :
                 /\ writer' = [writer EXCEPT ![w] = s]
                 /\ s.pc = "drain" => queue' # <<>> /\ s.entry = Head(queue')
        BY <2>0, <2>a, <3>1, <4>1
      <4>3. CASE queue = <<>>
        <5>1. queue' = queue
          BY <3>1, <4>3 DEF shifted
        <5>2. QueueInv'
          BY <2>0, <3>0, <3>1, <4>2, <5>1, WriterMoves
        <5> QED BY <2>0, <3>0, <3>1, <5>2 DEF AuditInv
      <4>4. CASE queue # <<>>
        <5>1. queue' = Tail(queue)
          BY <3>1, <4>4 DEF shifted
        <5>2. Head(queue) \in auditRows' \/ LostEntries \cap auditRows' # {}
          <6>1. CASE x \in Range(queue)
            BY <3>0, <3>1, <6>1
          <6>2. CASE x \notin Range(queue)
            BY <3>0, <3>1, <6>2 DEF LostEntries, Answered
          <6> QED BY <6>1, <6>2
        <5>3. QueueInv'
          BY <2>0, <3>0, <3>1, <4>2, <4>4, <5>1, <5>2, WriterMoves
        <5> QED BY <2>0, <3>0, <3>1, <5>3 DEF AuditInv
      <4> QED BY <4>3, <4>4
    <3>2. CASE /\ auditRows \subseteq auditRows' /\ auditRows' \subseteq auditRows \cup {x}
               /\ dbAvailable' = FALSE /\ writer' = [writer EXCEPT ![w] = Ended(w)]
               /\ UNCHANGED queue
      <4>1. QueueInv'
        BY <2>0, <2>b, <3>0, <3>2, WriterMoves
      <4> QED BY <2>0, <3>0, <3>2, <4>1 DEF AuditInv
    <3> QED BY <2>4, <3>1, <3>2 DEF drained, InsertSucceeds, InsertFails, x
  <2>5. ASSUME NEW p \in Probes, probe(p) PROVE AuditInv'
    <3>1. /\ writer[p].pc = "idle" /\ dbAvailable' = TRUE /\ writer' = Drain(p, queue, TRUE)
          /\ UNCHANGED <<auditRows, queue, database, outages, errorListener, auditUp, queueDropped>>
      BY <2>5 DEF probe
    <3>2. PICK s \in WriterState :
                 /\ writer' = [writer EXCEPT ![p] = s]
                 /\ s.pc = "drain" => queue # <<>> /\ s.entry = Head(queue)
      BY <2>0, <2>a, <3>1
    <3>3. QueueInv'
      BY <2>0, <3>1, <3>2, WriterMoves
    <3> QED BY <2>0, <3>1, <3>3 DEF AuditInv
  <2>6. CASE DatabaseSlows \/ DatabaseRecovers \/ UNCHANGED auditVars
    <3>1. /\ database' \in {"up", "slow"} /\ outages' \in 0..MaxOutages
          /\ UNCHANGED <<auditRows, queue, dbAvailable, errorListener, auditUp, writer, queueDropped>>
      BY <2>0, <2>6, AuditAssumption DEF DatabaseSlows, DatabaseRecovers, auditVars
    <3>2. QueueInv'
      BY <2>0, <3>1 DEF QueueInv, QueuedIsDone, DrainsHead, LossesCounted, LostEntries, Answered
    <3> QED BY <2>0, <3>1, <3>2 DEF AuditInv
  <2> QED BY <1>2, <2>1, <2>2, <2>3, <2>4, <2>5, <2>6 DEF AuditNext
<1> QED BY <1>1, <1>2, PTL

\* The invariant implies what the audit log promises.
LEMMA AuditInvSuffices == AuditInv => AuditSafe
<1> SUFFICES ASSUME AuditInv PROVE AuditSafe
  OBVIOUS
<1>1. queue \in BoundedSeq(Entries, QUEUE_CAPACITY)
  BY AuditAssumption, BoundedSeqMember DEF AuditInv, QueueInv
<1>2. queueDropped \in 0..Cardinality(Entries)
  <2> DEFINE d == {e \in Entries : writer[e].pc = "done"}
  <2>1. /\ queueDropped + Len(queue) <= Cardinality(d) /\ queueDropped \in Nat
        /\ Len(queue) \in Nat
    BY DEF AuditInv, QueueInv, LossesCounted
  <2>2. /\ Cardinality(d) <= Cardinality(Entries) /\ Cardinality(d) \in Nat
        /\ Cardinality(Entries) \in Nat
    BY AuditAssumption, FS_Subset, FS_CardinalityType
  <2> HIDE DEF d
  <2> QED BY <2>1, <2>2
<1>3. AuditTypeOK
  BY <1>1, <1>2 DEF AuditInv, QueueInv, AuditTypeOK, WriterState
<1>4. LossIsCounted
  BY DEF AuditInv, QueueInv, LossesCounted, LostEntries, Answered, LossIsCounted
<1> QED BY <1>3, <1>4 DEF AuditSafe

\* For any number of entries and probes, the audit queue stays within its capacity and
\* the counter of dropped entries accounts for every entry that is neither stored nor
\* queued, although drains that overlap shift entries they did not insert.
THEOREM AuditIsSafe == AuditSpec => []AuditSafe
BY AuditInvSuffices, AuditInvariance, PTL DEF AuditSpec

-----------------------------------------------------------------------------
(***************************************************************************)
(* The services side by side                                               *)
(***************************************************************************)

\* Every behaviour of the model-checked instance is one of each service: whichever
\* service moves, the others stutter.  So the services are safe there too.
THEOREM ServicesAreSafe ==
  Spec => [](CertificateSafe /\ ConfigSafe /\ PoolSafe /\ AuditSafe)
<1>1. Init => AcmeInit /\ MtlsInit /\ ConfigInit /\ AuditInit /\ PoolInit /\ ShutdownInit
  BY DEF Init
<1>2. [Next]_vars => /\ [AcmeNext]_acmeVars /\ [MtlsNext]_mtlsVars
                     /\ [ConfigNext]_configVars /\ [AuditNext]_auditVars
                     /\ [PoolNext]_poolVars /\ [ShutdownNext]_shutdownVars
  BY DEF Next, vars
<1> QED BY <1>1, <1>2, CertificatesAreSafe, ConfigIsSafe, PoolsAreSafe,
          AuditInvSuffices, AuditInvariance, PTL
       DEF Spec, AcmeSpec, MtlsSpec, ConfigSpec, PoolSpec, ShutdownSpec
=============================================================================
