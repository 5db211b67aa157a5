-------------------------- MODULE KeyRotationProofs --------------------------
(***************************************************************************)
(* Proofs about KeyRotation for any sets of validators, keys, rotations    *)
(* and concurrent calls, and for any delays.                               *)
(***************************************************************************)
EXTENDS KeyRotation, FiniteSetTheorems, TLAPS

\* Keys that are not registered have no owner; a key has a deactivation slot
\* only after it lost its signing right.
KeyRecords ==
  \A k \in PublicKeys :
    /\ keys[k].state = "FREE" => keys[k].owner = NoOne
    /\ keys[k].state \in {"FREE", "PENDING"} => ~keys[k].enabled
    /\ keys[k].state = "PENDING" \/ keys[k].enabled => keys[k].deactivated = NoSlot

\* A rotation that exists names a validator and two keys.
RotationRecords ==
  \A r \in RotationIds : rotations[r].phase # "NONE" =>
    /\ rotations[r].validator \in Validators
    /\ rotations[r].oldKey \in PublicKeys
    /\ rotations[r].newKey \in PublicKeys
    /\ rotations[r].phase = "ACTIVATE" => rotations[r].activated \in Nat

RegistryInv == RegistryTypeOK /\ OneSigningKey /\ RegistryConsistent /\ KeyRecords

CeremonyInv == RotationRecords /\ OneOpenRotation /\ RotationCoherent

IndInv == TypeOK /\ RegistryInv /\ CeremonyInv

-----------------------------------------------------------------------------
(***************************************************************************)
(* What the operations of the registry do, key by key.                     *)
(***************************************************************************)

\* registerActiveKey() adds one enabled key of a validator that had none.
LEMMA RegisterEffect ==
  ASSUME RegistryInv, NEW v \in Validators, NEW k \in PublicKeys, NEW s \in Nat,
         registerActiveKey(v, k, s)
  PROVE  /\ RegistryInv'
         /\ keys[k].state = "FREE" /\ signing[v] = NoKey
         /\ \A l \in PublicKeys : l # k => keys'[l] = keys[l]
         /\ \A u \in Validators : u # v => signing'[u] = signing[u]
         /\ pendingKey' = pendingKey
<1> DEFINE new == [state |-> "ACTIVE", owner |-> v, enabled |-> TRUE,
                   activated |-> s, deactivated |-> NoSlot]
<1>1. new \in KeyRecord /\ new.state = "ACTIVE" /\ new.owner = v /\ new.enabled
      /\ new.deactivated = NoSlot
  BY DEF KeyRecord, NoSlot
<1>2. /\ keys' = [keys EXCEPT ![k] = new] /\ signing' = [signing EXCEPT ![v] = k]
      /\ pendingKey' = pendingKey /\ keys[k].state = "FREE" /\ signing[v] = NoKey
  BY DEF registerActiveKey, hasPublicKey
<1> HIDE DEF new
<1>3. /\ RegistryTypeOK' /\ keys'[k] = new /\ signing'[v] = k
      /\ \A l \in PublicKeys : l # k => keys'[l] = keys[l]
      /\ \A u \in Validators : u # v => signing'[u] = signing[u]
  BY <1>1, <1>2 DEF RegistryInv, RegistryTypeOK
<1>4. OneSigningKey'
  BY <1>1, <1>2, <1>3, RegistryAssumption
     DEF RegistryInv, OneSigningKey, RegistryConsistent
<1>5. RegistryConsistent'
  BY <1>1, <1>2, <1>3, RegistryAssumption
     DEF RegistryInv, RegistryTypeOK, RegistryConsistent
<1>6. KeyRecords'
  BY <1>1, <1>2, <1>3 DEF RegistryInv, KeyRecords
<1> QED BY <1>2, <1>3, <1>4, <1>5, <1>6 DEF RegistryInv

\* reservePendingKey() adds one PENDING key of a validator that had none.
LEMMA ReserveEffect ==
  ASSUME RegistryInv, NEW v \in Validators, NEW k \in PublicKeys,
         reservePendingKey(v, k)
  PROVE  /\ RegistryInv'
         /\ keys[k].state = "FREE" /\ pendingKey[v] = NoKey /\ signing' = signing
         /\ keys'[k].state = "PENDING" /\ keys'[k].owner = v /\ pendingKey'[v] = k
         /\ \A l \in PublicKeys : l # k => keys'[l] = keys[l]
         /\ \A u \in Validators : u # v => pendingKey'[u] = pendingKey[u]
<1> DEFINE new == [state |-> "PENDING", owner |-> v, enabled |-> FALSE,
                   activated |-> NoSlot, deactivated |-> NoSlot]
<1>1. new \in KeyRecord /\ new.state = "PENDING" /\ new.owner = v /\ ~new.enabled
      /\ new.deactivated = NoSlot
  BY DEF KeyRecord, NoSlot
<1>2. /\ keys' = [keys EXCEPT ![k] = new]
      /\ pendingKey' = [pendingKey EXCEPT ![v] = k]
      /\ signing' = signing /\ keys[k].state = "FREE" /\ pendingKey[v] = NoKey
  BY DEF reservePendingKey, hasPublicKey
<1> HIDE DEF new
<1>3. /\ RegistryTypeOK' /\ keys'[k] = new /\ pendingKey'[v] = k
      /\ \A l \in PublicKeys : l # k => keys'[l] = keys[l]
      /\ \A u \in Validators : u # v => pendingKey'[u] = pendingKey[u]
  BY <1>1, <1>2 DEF RegistryInv, RegistryTypeOK
<1>4. OneSigningKey'
  BY <1>1, <1>2, <1>3 DEF RegistryInv, OneSigningKey
<1>5. RegistryConsistent'
  BY <1>1, <1>2, <1>3, RegistryAssumption
     DEF RegistryInv, RegistryTypeOK, RegistryConsistent
<1>6. KeyRecords'
  BY <1>1, <1>2, <1>3 DEF RegistryInv, KeyRecords
<1> QED BY <1>1, <1>2, <1>3, <1>4, <1>5, <1>6 DEF RegistryInv

\* activateRotation() of a PENDING key moves the signing right to it.
LEMMA ActivateEffect ==
  ASSUME RegistryInv, NEW v \in Validators, NEW old \in PublicKeys,
         NEW new \in PublicKeys, NEW s \in Nat, keys[new].state = "PENDING",
         activateRotation(v, old, new, s)
  PROVE  /\ RegistryInv'
         /\ signing[v] = old /\ signing'[v] = new
         /\ keys[old].owner = v /\ keys[new].owner = v /\ keys[old].state = "ACTIVE"
         /\ keys'[old].owner = v /\ keys'[old].state = "ACTIVE"
         /\ ~keys'[old].enabled /\ keys'[old].deactivated = s
         /\ keys'[new].owner = v /\ keys'[new].state = "ACTIVE"
         /\ keys'[new].enabled /\ keys'[new].activated = s
         /\ \A l \in PublicKeys \ {old, new} : keys'[l] = keys[l]
         /\ \A u \in Validators : u # v => signing'[u] = signing[u]
                                        /\ pendingKey'[u] = pendingKey[u]
<1> DEFINE o == [keys[old] EXCEPT !.enabled = FALSE, !.deactivated = s]
           n == [keys[new] EXCEPT !.state = "ACTIVE", !.enabled = TRUE,
                                  !.activated = s]
<1>1. keys[old] \in KeyRecord /\ keys[new] \in KeyRecord
  BY DEF RegistryInv, RegistryTypeOK
<1>2. /\ keys[old].owner = v /\ keys[old].state = "ACTIVE"
      /\ signing[v] = old /\ keys[new].owner = v /\ pendingKey[v] = new
      /\ signing' = [signing EXCEPT ![v] = new]
      /\ pendingKey' = [pendingKey EXCEPT ![v] = NoKey]
  BY DEF activateRotation, AlreadyActivated
<1>3. old # new
  BY <1>2
<1>4. keys' = [keys EXCEPT ![old] = o, ![new] = n]
  <2>1. keys' = [keys EXCEPT ![old].enabled = FALSE, ![old].deactivated = s,
                             ![new].state = "ACTIVE", ![new].enabled = TRUE,
                             ![new].activated = s]
    BY DEF activateRotation, AlreadyActivated
  <2> QED BY <2>1, <1>3 DEF RegistryInv, RegistryTypeOK
<1>5. /\ o \in KeyRecord /\ o.owner = v /\ o.state = "ACTIVE" /\ ~o.enabled
      /\ o.deactivated = s
  BY <1>1, <1>2 DEF KeyRecord
<1>6. /\ n \in KeyRecord /\ n.owner = v /\ n.state = "ACTIVE" /\ n.enabled
      /\ n.activated = s /\ n.deactivated = NoSlot
  <2>1. keys[new].deactivated = NoSlot
    BY DEF RegistryInv, KeyRecords
  <2> QED BY <1>1, <1>2, <2>1 DEF KeyRecord
<1> HIDE DEF o, n
<1>7. /\ RegistryTypeOK' /\ keys'[old] = o /\ keys'[new] = n
      /\ signing'[v] = new /\ pendingKey'[v] = NoKey
      /\ \A l \in PublicKeys \ {old, new} : keys'[l] = keys[l]
      /\ \A u \in Validators : u # v => signing'[u] = signing[u]
                                     /\ pendingKey'[u] = pendingKey[u]
  BY <1>2, <1>3, <1>4, <1>5, <1>6 DEF RegistryInv, RegistryTypeOK
<1>8. OneSigningKey'
  BY <1>2, <1>3, <1>5, <1>6, <1>7 DEF RegistryInv, OneSigningKey
<1>9. RegistryConsistent'
  BY <1>2, <1>3, <1>5, <1>6, <1>7
     DEF RegistryInv, RegistryTypeOK, RegistryConsistent
<1>10. KeyRecords'
  BY <1>2, <1>3, <1>5, <1>6, <1>7 DEF RegistryInv, KeyRecords
<1> QED BY <1>2, <1>5, <1>6, <1>7, <1>8, <1>9, <1>10 DEF RegistryInv

\* retireKey() changes the state of one key that cannot sign.
LEMMA RetireEffect ==
  ASSUME RegistryInv, NEW v \in Validators, NEW k \in PublicKeys, retireKey(v, k),
         keys[k].state = "ACTIVE"
  PROVE  /\ RegistryInv'
         /\ keys[k].owner = v /\ ~keys[k].enabled
         /\ keys'[k].owner = v /\ keys'[k].state = "RETIRED" /\ ~keys'[k].enabled
         /\ \A l \in PublicKeys : l # k => keys'[l] = keys[l]
         /\ signing' = signing /\ pendingKey' = pendingKey
<1> DEFINE new == [keys[k] EXCEPT !.state = "RETIRED"]
<1>1. keys[k] \in KeyRecord
  BY DEF RegistryInv, RegistryTypeOK
<1>2. /\ keys' = [keys EXCEPT ![k] = new] /\ signing' = signing
      /\ pendingKey' = pendingKey /\ keys[k].owner = v /\ ~keys[k].enabled
  BY DEF retireKey
<1>3. /\ new \in KeyRecord /\ new.owner = v /\ new.state = "RETIRED"
      /\ ~new.enabled
  BY <1>1, <1>2 DEF KeyRecord
<1> HIDE DEF new
<1>4. /\ RegistryTypeOK' /\ keys'[k] = new
      /\ \A l \in PublicKeys : l # k => keys'[l] = keys[l]
  BY <1>2, <1>3 DEF RegistryInv, RegistryTypeOK
<1>5. OneSigningKey'
  BY <1>2, <1>3, <1>4 DEF RegistryInv, OneSigningKey
<1>6. RegistryConsistent'
  BY <1>2, <1>3, <1>4 DEF RegistryInv, RegistryTypeOK, RegistryConsistent
<1>7. KeyRecords'
  BY <1>2, <1>3, <1>4 DEF RegistryInv, KeyRecords
<1> QED BY <1>2, <1>3, <1>4, <1>5, <1>6, <1>7 DEF RegistryInv

-----------------------------------------------------------------------------
(***************************************************************************)
(* Types.                                                                  *)
(***************************************************************************)

\* A set of validators has a size, and so a threshold.
LEMMA ThresholdType ==
  ASSUME NEW S \in SUBSET Validators
  PROVE  /\ Cardinality(S) \in Nat
         /\ calculateRotationApprovalThreshold(Cardinality(S)) \in Nat
<1>1. Cardinality(S) \in Nat
  BY RotationAssumption, FS_Subset, FS_CardinalityType
<1> QED BY <1>1 DEF calculateRotationApprovalThreshold

\* rememberCompleted() keeps the cache within its bound.
LEMMA RememberType ==
  ASSUME NEW T, completed \in Seq(T), Len(completed) <= maxCompletedCommitments,
         NEW e \in T
  PROVE  /\ rememberCompleted(e) \in Seq(T)
         /\ Len(rememberCompleted(e)) <= maxCompletedCommitments
<1> DEFINE all == Append(completed, e)
<1>1. all \in Seq(T) /\ Len(all) = Len(completed) + 1 /\ Len(completed) \in Nat
  OBVIOUS
<1>2. all # <<>>
  BY <1>1
<1>3. Tail(all) \in Seq(T) /\ Len(Tail(all)) = Len(completed)
  BY <1>1, <1>2
<1> HIDE DEF all
<1>4. rememberCompleted(e) = IF Len(all) > maxCompletedCommitments THEN Tail(all)
                             ELSE all
  BY DEF rememberCompleted, all
<1> QED BY <1>1, <1>3, <1>4, RotationAssumption

\* The types of the broadcaster's and the ceremony's own state.
CommitTypeOK ==
  /\ commit \in [RotationIds -> Commitment]
  /\ completed \in Seq([id : RotationIds, result : Commitment])
  /\ Len(completed) <= maxCompletedCommitments

\* The steps of an approval attempt change commit and completed only.
LEMMA AttemptType ==
  ASSUME IndInv, NEW r \in RotationIds,
         \/ Approve(r) \/ \E S \in SUBSET Validators : Snapshot(r, S)
         \/ CommitFails(r) \/ \E v \in Validators : ApproveRotation(r, v)
         \/ PersistFails(r)
  PROVE  CommitTypeOK' /\ UNCHANGED <<registry, slot, rotations, active, call>>
<1>0. CommitTypeOK /\ commit[r] \in Commitment
  BY DEF IndInv, TypeOK, CommitTypeOK
<1>1. Idle \in Commitment /\ [Idle EXCEPT !.at = "starting"] \in Commitment
  BY DEF Idle, Commitment
<1>2. CASE Approve(r)
  <2>1. CASE \E i \in DOMAIN completed : completed[i].id = r
    <3> DEFINE j == CHOOSE i \in DOMAIN completed : completed[i].id = r
    <3>1. j \in DOMAIN completed
      BY <2>1
    <3> HIDE DEF j
    <3>2. completed[j].result \in Commitment
      <4> DEFINE T == [id : RotationIds, result : Commitment]
      <4>1. completed \in Seq(T)
        BY <1>0 DEF CommitTypeOK
      <4> HIDE DEF T
      <4>2. completed[j] \in T
        BY <3>1, <4>1
      <4> QED BY <4>2 DEF T
    <3> USE DEF j
    <3>3. commit' = [commit EXCEPT ![r] = completed[j].result]
          /\ completed' = completed
      BY <1>2, <2>1 DEF Approve
    <3> HIDE DEF j
    <3> QED BY <1>0, <1>2, <3>2, <3>3 DEF CommitTypeOK, Approve
  <2>2. CASE ~\E i \in DOMAIN completed : completed[i].id = r
    <3>1. commit' = [commit EXCEPT ![r] = [Idle EXCEPT !.at = "starting"]]
          /\ completed' = completed
      BY <1>2, <2>2 DEF Approve
    <3> QED BY <1>0, <1>1, <1>2, <3>1 DEF CommitTypeOK, Approve
  <2> QED BY <2>1, <2>2
<1>3. ASSUME NEW S \in SUBSET Validators, Snapshot(r, S)
      PROVE  CommitTypeOK' /\ UNCHANGED <<registry, slot, rotations, active, call>>
  <2> DEFINE c == [at |-> "pending", approvals |-> {}, eligible |-> S,
                   threshold |-> calculateRotationApprovalThreshold(Cardinality(S))]
  <2>1. c \in Commitment
    BY ThresholdType DEF Commitment
  <2>2. commit' = [commit EXCEPT ![r] = c] /\ completed' = completed
    BY <1>3 DEF Snapshot
  <2> HIDE DEF c
  <2> QED BY <1>0, <1>3, <2>1, <2>2 DEF CommitTypeOK, Snapshot
<1>4. CASE CommitFails(r)
  BY <1>0, <1>1, <1>4 DEF CommitTypeOK, CommitFails
<1>5. CASE PersistFails(r)
  BY <1>0, <1>1, <1>5 DEF CommitTypeOK, PersistFails
<1>6. ASSUME NEW v \in Validators, ApproveRotation(r, v)
      PROVE  CommitTypeOK' /\ UNCHANGED <<registry, slot, rotations, active, call>>
  <2> DEFINE c == [commit[r] EXCEPT !.approvals = @ \cup {v}]
             done == [c EXCEPT !.at = "settled"]
             entry == [id |-> r, result |-> done]
             T == [id : RotationIds, result : Commitment]
  <2>1. c \in Commitment
    BY <1>0 DEF Commitment
  <2>2. done \in Commitment
    BY <2>1 DEF Commitment
  <2>3. entry \in T
    BY <2>2
  <2>4. /\ UNCHANGED <<registry, slot, rotations, active, call>>
        /\ \/ /\ commit' = [commit EXCEPT ![r] = done]
              /\ completed' = rememberCompleted(entry)
           \/ commit' = [commit EXCEPT ![r] = c] /\ completed' = completed
    BY <1>6 DEF ApproveRotation
  <2> HIDE DEF c, done, entry
  <2>5. commit' \in [RotationIds -> Commitment]
    BY <1>0, <2>1, <2>2, <2>4 DEF CommitTypeOK
  <2>6. completed \in Seq(T) /\ Len(completed) <= maxCompletedCommitments
    BY <1>0 DEF CommitTypeOK
  <2> HIDE DEF T
  <2>7. completed' \in Seq(T) /\ Len(completed)' <= maxCompletedCommitments
    BY <2>3, <2>4, <2>6, RememberType
  <2> QED BY <2>4, <2>5, <2>7 DEF CommitTypeOK, T
<1> QED BY <1>2, <1>3, <1>4, <1>5, <1>6

-----------------------------------------------------------------------------
(***************************************************************************)
(* The invariant.                                                          *)
(***************************************************************************)

\* It holds initially.
LEMMA InitInv == Init => IndInv
<1> SUFFICES ASSUME Init PROVE IndInv
  OBVIOUS
<1>1. RegistryTypeOK
  BY DEF Init, RegistryInit, RegistryTypeOK, KeyRecord, NoSlot
<1>2. OneSigningKey /\ RegistryConsistent /\ KeyRecords
  BY DEF Init, RegistryInit, OneSigningKey, RegistryConsistent, KeyRecords
<1>3. rotations \in [RotationIds -> RotationRecord]
  BY DEF Init, RotationRecord, Phases, NoSlot
<1>4. Idle \in Commitment
  BY DEF Idle, Commitment
<1>5. TypeOK
  <2>1. /\ slot \in Nat
        /\ active \in [Validators -> RotationIds \cup {NoRotation}]
        /\ call \in [Initiators -> SUBSET Waiting]
        /\ commit \in [RotationIds -> Commitment]
    BY <1>4 DEF Init
  <2>2. completed \in Seq([id : RotationIds, result : Commitment])
        /\ Len(completed) <= maxCompletedCommitments
    <3>1. completed = <<>>
      BY DEF Init
    <3> QED BY <3>1, RotationAssumption
  <2> QED BY <1>1, <1>3, <2>1, <2>2 DEF TypeOK
<1>6. CeremonyInv
  BY DEF Init, CeremonyInv, RotationRecords, OneOpenRotation, RotationCoherent, Open
<1> QED BY <1>1, <1>2, <1>5, <1>6 DEF IndInv, RegistryInv

\* A step that changes no key and no rotation preserves the coherence.
LEMMA CeremonyUnchanged ==
  ASSUME CeremonyInv, UNCHANGED <<registry, rotations, active>>
  PROVE  CeremonyInv'
BY DEF CeremonyInv, RotationRecords, OneOpenRotation, RotationCoherent, registry,
       ValidKeyState

\* The second half of initiate() preserves it.
LEMMA ReserveInv ==
  ASSUME IndInv, NEW i \in Initiators, NEW w \in call[i], Reserve(i, w)
  PROVE  IndInv'
<1> DEFINE v == w.validator  k == w.newKey  r == w.id
           new == [rotations[r] EXCEPT !.phase = "INITIATE", !.validator = v,
                                       !.oldKey = signing[v], !.newKey = k]
<1>1. v \in Validators /\ k \in PublicKeys /\ r \in RotationIds
  BY DEF IndInv, TypeOK, Waiting
<1>2. /\ active[v] = NoRotation /\ signing[v] # NoKey
      /\ rotations[r].phase = "NONE" /\ reservePendingKey(v, k)
      /\ rotations' = [rotations EXCEPT ![r] = new]
      /\ active' = [active EXCEPT ![v] = r]
      /\ call' = [call EXCEPT ![i] = {}]
      /\ UNCHANGED <<slot, commit, completed>>
  BY DEF Reserve
<1>3. signing[v] \in PublicKeys /\ keys[signing[v]].owner = v
      /\ keys[signing[v]].state = "ACTIVE"
  BY <1>1, <1>2 DEF IndInv, RegistryInv, RegistryTypeOK, RegistryConsistent
<1>4. /\ new \in RotationRecord /\ new.phase = "INITIATE" /\ new.validator = v
      /\ new.oldKey = signing[v] /\ new.newKey = k
  <2>1. rotations[r] \in RotationRecord
    BY <1>1 DEF IndInv, TypeOK
  <2> QED BY <1>1, <1>3, <2>1 DEF RotationRecord, Phases
<1> HIDE DEF new
<1>5. /\ RegistryInv' /\ keys[k].state = "FREE" /\ pendingKey[v] = NoKey
      /\ signing' = signing
      /\ keys'[k].state = "PENDING" /\ keys'[k].owner = v /\ pendingKey'[v] = k
      /\ \A l \in PublicKeys : l # k => keys'[l] = keys[l]
      /\ \A u \in Validators : u # v => pendingKey'[u] = pendingKey[u]
  BY <1>1, <1>2, ReserveEffect DEF IndInv
<1>6. /\ rotations' \in [RotationIds -> RotationRecord] /\ rotations'[r] = new
      /\ \A q \in RotationIds : q # r => rotations'[q] = rotations[q]
      /\ active' \in [Validators -> RotationIds \cup {NoRotation}]
      /\ active'[v] = r
      /\ \A u \in Validators : u # v => active'[u] = active[u]
  BY <1>1, <1>2, <1>4 DEF IndInv, TypeOK
<1>7. TypeOK'
  BY <1>2, <1>5, <1>6 DEF IndInv, TypeOK, RegistryInv
<1>8. RotationRecords'
  BY <1>1, <1>3, <1>4, <1>6 DEF IndInv, CeremonyInv, RotationRecords
<1>9. OneOpenRotation'
  BY <1>2, <1>4, <1>6, RotationAssumption
     DEF IndInv, CeremonyInv, RotationRecords, OneOpenRotation, Open
<1>10. RotationCoherent'
  <2> SUFFICES ASSUME NEW q \in RotationIds, rotations'[q].phase # "NONE"
               PROVE  (RotationCoherent!(q))'
    BY DEF RotationCoherent
  <2>1. CASE q = r
    BY <2>1, <1>1, <1>3, <1>4, <1>5, <1>6 DEF RotationCoherent
  <2>2. CASE q # r
    <3>1. /\ rotations'[q] = rotations[q] /\ RotationCoherent!(q)
          /\ rotations[q].validator \in Validators
          /\ rotations[q].oldKey \in PublicKeys /\ rotations[q].newKey \in PublicKeys
      BY <2>2, <1>6 DEF IndInv, CeremonyInv, RotationRecords, RotationCoherent
    <3>2. rotations[q].oldKey # k /\ rotations[q].newKey # k
      BY <3>1, <1>5, RegistryAssumption
         DEF IndInv, RegistryInv, KeyRecords
    <3>3. rotations[q].phase \in {"INITIATE", "APPROVE"} => rotations[q].validator # v
      BY <1>2, RotationAssumption DEF IndInv, CeremonyInv, OneOpenRotation, Open
    <3> QED BY <3>1, <3>2, <3>3, <1>5 DEF RotationCoherent, ValidKeyState
  <2> QED BY <2>1, <2>2
<1> QED BY <1>5, <1>7, <1>8, <1>9, <1>10 DEF IndInv, CeremonyInv

\* persistApproval() changes neither a key nor who rotates.
LEMMA PersistInv ==
  ASSUME IndInv, NEW r \in RotationIds, PersistApproval(r)
  PROVE  IndInv'
<1> DEFINE c == commit[r]
           new == [rotations[r] EXCEPT !.phase = "APPROVE", !.approvals = c.approvals,
                                       !.threshold = c.threshold,
                                       !.eligible = c.eligible]
<1>1. c \in Commitment /\ rotations[r] \in RotationRecord /\ Idle \in Commitment
  BY DEF IndInv, TypeOK, Idle, Commitment
<1>2. /\ new \in RotationRecord /\ new.phase = "APPROVE"
      /\ new.validator = rotations[r].validator
      /\ new.oldKey = rotations[r].oldKey /\ new.newKey = rotations[r].newKey
  BY <1>1 DEF RotationRecord, Commitment, Phases
<1>3. /\ \/ rotations[r].phase = "INITIATE" /\ rotations' = [rotations EXCEPT ![r] = new]
         \/ rotations' = rotations
      /\ commit' = [commit EXCEPT ![r] = Idle]
      /\ UNCHANGED <<registry, slot, active, call, completed>>
  BY DEF PersistApproval
<1> HIDE DEF c, new
<1>4. TypeOK'
  BY <1>1, <1>2, <1>3 DEF IndInv, TypeOK, RegistryTypeOK, registry
<1>5. RegistryInv'
  BY <1>3 DEF IndInv, RegistryInv, RegistryTypeOK, OneSigningKey, RegistryConsistent,
              KeyRecords, registry
<1>6. \A q \in RotationIds :
        \/ rotations'[q] = rotations[q]
        \/ /\ rotations[q].phase = "INITIATE" /\ rotations'[q].phase = "APPROVE"
           /\ rotations'[q].validator = rotations[q].validator
           /\ rotations'[q].oldKey = rotations[q].oldKey
           /\ rotations'[q].newKey = rotations[q].newKey
  BY <1>2, <1>3 DEF IndInv, TypeOK
<1>7. RotationRecords' /\ OneOpenRotation'
  BY <1>3, <1>6 DEF IndInv, CeremonyInv, RotationRecords, OneOpenRotation, Open
<1>8. RotationCoherent'
  <2> SUFFICES ASSUME NEW q \in RotationIds
               PROVE  (RotationCoherent!(q))'
    BY DEF RotationCoherent
  <2>1. RotationCoherent!(q)
    BY DEF IndInv, CeremonyInv, RotationCoherent
  <2>2. keys' = keys /\ signing' = signing /\ pendingKey' = pendingKey
    BY <1>3 DEF registry
  <2>3. CASE rotations'[q] = rotations[q]
    BY <2>1, <2>2, <2>3 DEF RotationCoherent, ValidKeyState
  <2>4. CASE rotations'[q] # rotations[q]
    BY <1>6, <2>1, <2>2, <2>4 DEF RotationCoherent
  <2> QED BY <2>3, <2>4
<1> QED BY <1>4, <1>5, <1>7, <1>8 DEF IndInv, CeremonyInv

\* activate() preserves it: the registry and the record move together.
LEMMA ActivateInv ==
  ASSUME IndInv, NEW r \in RotationIds, Activate(r)
  PROVE  IndInv'
<1> DEFINE v == rotations[r].validator
           old == rotations[r].oldKey
           new == rotations[r].newKey
           rec == [rotations[r] EXCEPT !.phase = "ACTIVATE", !.activated = slot]
<1>1. /\ rotations[r].phase = "APPROVE"
      /\ activateRotation(v, old, new, slot)
      /\ rotations' = [rotations EXCEPT ![r] = rec]
      /\ UNCHANGED <<slot, active, call, commit, completed>>
  BY DEF Activate
<1>2. v \in Validators /\ old \in PublicKeys /\ new \in PublicKeys /\ slot \in Nat
  BY <1>1 DEF IndInv, TypeOK, CeremonyInv, RotationRecords
<1>3. keys[new].state = "PENDING" /\ old # new
  BY <1>1 DEF IndInv, CeremonyInv, RotationCoherent
<1>4. /\ RegistryInv'
      /\ signing[v] = old /\ signing'[v] = new
      /\ keys[old].owner = v /\ keys[new].owner = v /\ keys[old].state = "ACTIVE"
      /\ keys'[old].owner = v /\ keys'[old].state = "ACTIVE"
      /\ ~keys'[old].enabled /\ keys'[old].deactivated = slot
      /\ keys'[new].owner = v /\ keys'[new].state = "ACTIVE"
      /\ keys'[new].enabled /\ keys'[new].activated = slot
      /\ \A l \in PublicKeys \ {old, new} : keys'[l] = keys[l]
      /\ \A u \in Validators : u # v => signing'[u] = signing[u]
                                     /\ pendingKey'[u] = pendingKey[u]
  BY <1>1, <1>2, <1>3, ActivateEffect DEF IndInv
<1>5. /\ rec \in RotationRecord /\ rec.phase = "ACTIVATE" /\ rec.activated = slot
      /\ rec.validator = v /\ rec.oldKey = old /\ rec.newKey = new
  <2>1. rotations[r] \in RotationRecord
    BY DEF IndInv, TypeOK
  <2> QED BY <1>2, <2>1 DEF RotationRecord, Phases
<1> HIDE DEF rec
<1>6. /\ rotations' \in [RotationIds -> RotationRecord] /\ rotations'[r] = rec
      /\ \A q \in RotationIds : q # r => rotations'[q] = rotations[q]
  BY <1>1, <1>5 DEF IndInv, TypeOK
<1>7. TypeOK'
  BY <1>1, <1>4, <1>6 DEF IndInv, TypeOK, RegistryInv
<1>8. RotationRecords'
  BY <1>2, <1>5, <1>6 DEF IndInv, CeremonyInv, RotationRecords
<1>9. OneOpenRotation'
  BY <1>1, <1>5, <1>6 DEF IndInv, CeremonyInv, OneOpenRotation, Open
<1>10. RotationCoherent'
  <2> SUFFICES ASSUME NEW q \in RotationIds, rotations'[q].phase # "NONE"
               PROVE  (RotationCoherent!(q))'
    BY DEF RotationCoherent
  <2>1. CASE q = r
    BY <2>1, <1>3, <1>4, <1>5, <1>6 DEF RotationCoherent, ValidKeyState
  <2>2. CASE q # r
    <3>1. /\ rotations'[q] = rotations[q] /\ RotationCoherent!(q)
          /\ rotations[q].validator \in Validators
          /\ rotations[q].oldKey \in PublicKeys /\ rotations[q].newKey \in PublicKeys
      BY <2>2, <1>6 DEF IndInv, CeremonyInv, RotationRecords, RotationCoherent
    <3>2. rotations[q].phase \in Open => rotations[q].validator # v
      BY <2>2, <1>1 DEF IndInv, CeremonyInv, OneOpenRotation, Open
    <3>3. CASE rotations[q].validator # v
      <4>1. rotations[q].oldKey \notin {old, new} /\ rotations[q].newKey \notin {old, new}
        BY <1>4, <3>1, <3>3
      <4> QED BY <1>4, <3>1, <3>3, <4>1 DEF RotationCoherent, ValidKeyState
    <3>4. CASE rotations[q].validator = v
      <4>1. rotations[q].phase = "RETIRE"
        BY <3>1, <3>2, <3>4, <1>6 DEF IndInv, TypeOK, RotationRecord, Phases, Open
      <4>2. rotations[q].oldKey \notin {old, new}
        BY <1>3, <1>4, <3>1, <4>1
      <4>3. keys'[rotations[q].newKey].state # "PENDING"
            /\ keys'[rotations[q].newKey].owner = v
        BY <1>4, <3>1, <3>4, <4>1
      <4> QED BY <1>4, <3>1, <3>4, <4>1, <4>2, <4>3 DEF RotationCoherent
    <3> QED BY <3>3, <3>4
  <2> QED BY <2>1, <2>2
<1> QED BY <1>4, <1>7, <1>8, <1>9, <1>10 DEF IndInv, CeremonyInv

\* retire() preserves it.
LEMMA RetireInv ==
  ASSUME IndInv, NEW r \in RotationIds, Retire(r)
  PROVE  IndInv'
<1> DEFINE v == rotations[r].validator
           old == rotations[r].oldKey
           rec == [rotations[r] EXCEPT !.phase = "RETIRE"]
<1>1. /\ rotations[r].phase = "ACTIVATE"
      /\ retireKey(v, old)
      /\ rotations' = [rotations EXCEPT ![r] = rec]
      /\ active' = [active EXCEPT ![v] = IF @ = r THEN NoRotation ELSE @]
      /\ UNCHANGED <<slot, call, commit, completed>>
  BY DEF Retire
<1>2. v \in Validators /\ old \in PublicKeys
  BY <1>1 DEF IndInv, CeremonyInv, RotationRecords
<1>3. keys[old].state = "ACTIVE"
  BY <1>1 DEF IndInv, CeremonyInv, RotationCoherent, ValidKeyState
<1>4. /\ RegistryInv'
      /\ keys[old].owner = v /\ ~keys[old].enabled
      /\ keys'[old].owner = v /\ keys'[old].state = "RETIRED" /\ ~keys'[old].enabled
      /\ \A l \in PublicKeys : l # old => keys'[l] = keys[l]
      /\ signing' = signing /\ pendingKey' = pendingKey
  BY <1>1, <1>2, <1>3, RetireEffect DEF IndInv
<1>5. /\ rec \in RotationRecord /\ rec.phase = "RETIRE" /\ rec.validator = v
      /\ rec.oldKey = old /\ rec.newKey = rotations[r].newKey
  <2>1. rotations[r] \in RotationRecord
    BY DEF IndInv, TypeOK
  <2> QED BY <2>1 DEF RotationRecord, Phases
<1> HIDE DEF rec
<1>6. /\ rotations' \in [RotationIds -> RotationRecord] /\ rotations'[r] = rec
      /\ \A q \in RotationIds : q # r => rotations'[q] = rotations[q]
      /\ active' \in [Validators -> RotationIds \cup {NoRotation}]
      /\ \A u \in Validators : u # v => active'[u] = active[u]
  BY <1>1, <1>2, <1>5 DEF IndInv, TypeOK
<1>7. TypeOK'
  BY <1>1, <1>4, <1>6 DEF IndInv, TypeOK, RegistryInv
<1>8. RotationRecords'
  BY <1>1, <1>2, <1>5, <1>6 DEF IndInv, CeremonyInv, RotationRecords
<1>8a. \A q \in RotationIds : q # r /\ rotations[q].phase \in Open =>
                                 rotations[q].validator # v
  BY <1>1 DEF IndInv, CeremonyInv, OneOpenRotation, Open
<1>9. OneOpenRotation'
  BY <1>5, <1>6, <1>8a DEF IndInv, CeremonyInv, RotationRecords, OneOpenRotation, Open
<1>10. RotationCoherent'
  <2> SUFFICES ASSUME NEW q \in RotationIds, rotations'[q].phase # "NONE"
               PROVE  (RotationCoherent!(q))'
    BY DEF RotationCoherent
  <2>1. CASE q = r
    <3>1. RotationCoherent!(r) /\ rotations[r].newKey \in PublicKeys
      BY <1>1 DEF IndInv, CeremonyInv, RotationRecords, RotationCoherent
    <3> QED BY <2>1, <3>1, <1>1, <1>4, <1>5, <1>6 DEF RotationCoherent, ValidKeyState
  <2>2. CASE q # r
    <3>1. /\ rotations'[q] = rotations[q] /\ RotationCoherent!(q)
          /\ rotations[q].validator \in Validators
          /\ rotations[q].oldKey \in PublicKeys /\ rotations[q].newKey \in PublicKeys
      BY <2>2, <1>6 DEF IndInv, CeremonyInv, RotationRecords, RotationCoherent
    <3>3. CASE rotations[q].validator # v
      <4>1. rotations[q].oldKey # old /\ rotations[q].newKey # old
        BY <1>4, <3>1, <3>3
      <4> QED BY <1>4, <3>1, <4>1 DEF RotationCoherent, ValidKeyState
    <3>4. CASE rotations[q].validator = v
      <4>1. rotations[q].phase = "RETIRE"
        BY <2>2, <3>1, <1>8a, <3>4, <1>6 DEF IndInv, TypeOK, RotationRecord, Phases, Open
      <4>2. rotations[q].oldKey # old
        BY <1>3, <3>1, <4>1
      <4>3. keys'[rotations[q].newKey].state # "PENDING"
            /\ keys'[rotations[q].newKey].owner = v
        BY <1>4, <3>1, <3>4, <4>1
      <4> QED BY <1>4, <3>1, <3>4, <4>1, <4>2, <4>3 DEF RotationCoherent
    <3> QED BY <3>3, <3>4
  <2> QED BY <2>1, <2>2
<1> QED BY <1>4, <1>7, <1>8, <1>9, <1>10 DEF IndInv, CeremonyInv

\* Registering the first key of a validator preserves it.
LEMMA RegisterInv ==
  ASSUME IndInv, NEW v \in Validators, NEW k \in PublicKeys, Register(v, k)
  PROVE  IndInv'
<1>1. registerActiveKey(v, k, slot) /\ slot \in Nat
      /\ UNCHANGED <<slot, rotations, active, call, commit, completed>>
  BY DEF Register, IndInv, TypeOK
<1>2. /\ RegistryInv'
      /\ keys[k].state = "FREE" /\ signing[v] = NoKey
      /\ \A l \in PublicKeys : l # k => keys'[l] = keys[l]
      /\ \A u \in Validators : u # v => signing'[u] = signing[u]
      /\ pendingKey' = pendingKey
  BY <1>1, RegisterEffect DEF IndInv
<1>3. TypeOK'
  BY <1>1, <1>2 DEF IndInv, TypeOK, RegistryInv
<1>4. RotationRecords' /\ OneOpenRotation'
  BY <1>1 DEF IndInv, CeremonyInv, RotationRecords, OneOpenRotation
<1>5. RotationCoherent'
  <2> SUFFICES ASSUME NEW q \in RotationIds, rotations'[q].phase # "NONE"
               PROVE  (RotationCoherent!(q))'
    BY DEF RotationCoherent
  <2>1. /\ rotations'[q] = rotations[q] /\ RotationCoherent!(q)
        /\ rotations[q].validator \in Validators
        /\ rotations[q].oldKey \in PublicKeys /\ rotations[q].newKey \in PublicKeys
    BY <1>1 DEF IndInv, CeremonyInv, RotationRecords, RotationCoherent
  <2>2. rotations[q].oldKey # k /\ rotations[q].newKey # k
    BY <1>2, <2>1, RegistryAssumption DEF IndInv, RegistryInv, KeyRecords
  <2>3. rotations[q].phase \in Open => rotations[q].validator # v
    BY <1>1, <1>2, <2>1, RegistryAssumption DEF Open
  <2> QED BY <1>2, <2>1, <2>2, <2>3 DEF RotationCoherent, ValidKeyState, Open
<1> QED BY <1>2, <1>3, <1>4, <1>5 DEF IndInv, CeremonyInv

\* The invariant is inductive.
LEMMA NextInv == IndInv /\ [Next]_vars => IndInv'
<1> SUFFICES ASSUME IndInv, [Next]_vars PROVE IndInv'
  OBVIOUS
<1>0. ASSUME TypeOK', UNCHANGED <<registry, rotations, active>> PROVE IndInv'
  <2>1. RegistryInv'
    BY <1>0 DEF IndInv, RegistryInv, RegistryTypeOK, OneSigningKey,
                RegistryConsistent, KeyRecords, registry
  <2> QED BY <1>0, <2>1, CeremonyUnchanged DEF IndInv
<1>1. CASE Tick
  <2>1. slot' \in Nat /\ UNCHANGED <<registry, rotations, active, call, commit, completed>>
    BY <1>1 DEF Tick, IndInv, TypeOK
  <2>2. TypeOK'
    BY <2>1 DEF IndInv, TypeOK, RegistryTypeOK, registry
  <2> QED BY <1>0, <2>1, <2>2
<1>2. ASSUME NEW i \in Initiators, InitiateStep(i) PROVE IndInv'
  <2>1. ASSUME NEW v \in Validators, NEW k \in PublicKeys, NEW r \in RotationIds,
               Initiate(i, v, k, r)
        PROVE  IndInv'
    <3>1. [validator |-> v, newKey |-> k, id |-> r] \in Waiting
      BY DEF Waiting
    <3>2. call' \in [Initiators -> SUBSET Waiting]
          /\ UNCHANGED <<registry, slot, rotations, active, commit, completed>>
      BY <2>1, <3>1 DEF Initiate, IndInv, TypeOK
    <3>3. TypeOK'
      BY <3>2 DEF IndInv, TypeOK, RegistryTypeOK, registry
    <3> QED BY <1>0, <3>2, <3>3
  <2>2. CASE InitiateThrows(i)
    <3>1. call' \in [Initiators -> SUBSET Waiting]
          /\ UNCHANGED <<registry, slot, rotations, active, commit, completed>>
      BY <2>2 DEF InitiateThrows, IndInv, TypeOK
    <3>2. TypeOK'
      BY <3>1 DEF IndInv, TypeOK, RegistryTypeOK, registry
    <3> QED BY <1>0, <3>1, <3>2
  <2> QED BY <1>2, <2>1, <2>2, ReserveInv DEF InitiateStep
<1>3. ASSUME NEW r \in RotationIds, RotationStep(r) PROVE IndInv'
  <2>1. CASE \/ Approve(r) \/ \E S \in SUBSET Validators : Snapshot(r, S)
             \/ CommitFails(r) \/ \E v \in Validators : ApproveRotation(r, v)
             \/ PersistFails(r)
    <3>1. CommitTypeOK' /\ UNCHANGED <<registry, slot, rotations, active, call>>
      BY <2>1, AttemptType
    <3>2. TypeOK'
      BY <3>1 DEF IndInv, TypeOK, RegistryTypeOK, registry, CommitTypeOK
    <3> QED BY <1>0, <3>1, <3>2
  <2> QED BY <1>3, <2>1, PersistInv, ActivateInv, RetireInv DEF RotationStep
<1>4. CASE UNCHANGED vars
  <2>1. TypeOK' /\ UNCHANGED <<registry, rotations, active>>
    BY <1>4 DEF vars, IndInv, TypeOK, RegistryTypeOK, registry
  <2> QED BY <1>0, <2>1
<1> QED BY <1>1, <1>2, <1>3, <1>4, RegisterInv DEF Next

\* Every reachable state satisfies the inductive invariant.
LEMMA Invariance == Spec => []IndInv
BY InitInv, NextInv, PTL DEF Spec

-----------------------------------------------------------------------------
\* The registry, the ceremony and the broadcaster's bounded cache keep their types.
THEOREM TypeCorrect == Spec => []TypeOK
<1>1. IndInv => TypeOK
  BY DEF IndInv
<1> QED BY <1>1, Invariance, PTL

\* No validator ever has two keys that may sign, and assertConsistent() never
\* throws, whatever calls of initiate(), approve(), activate() and retire() overlap.
THEOREM RegistrySafe == Spec => [](OneSigningKey /\ RegistryConsistent)
<1>1. IndInv => OneSigningKey /\ RegistryConsistent
  BY DEF IndInv, RegistryInv
<1> QED BY <1>1, Invariance, PTL

\* A validator has one open rotation at most, and each phase of a rotation goes
\* with one state of its two keys.
THEOREM CeremonySafe == Spec => [](OneOpenRotation /\ RotationCoherent)
<1>1. IndInv => OneOpenRotation /\ RotationCoherent
  BY DEF IndInv, CeremonyInv
<1> QED BY <1>1, Invariance, PTL

\* The registry's indexes and the ceremony's index name what the records hold.
THEOREM IndexesAlwaysAgree == Spec => []IndexesAgree
<1>1. OneSigningKey /\ RegistryConsistent /\ OneOpenRotation /\ RotationCoherent => IndexesAgree
  BY DEF IndexesAgree
<1> QED BY <1>1, RegistrySafe, CeremonySafe, PTL

\* Only retire() retires a key, and the key it retires has the activation slot
\* of the rotation as its deactivation slot: the delay is kept for every value.
THEOREM RetirementIsDelayed == Spec => RetirementDelayed
<1> DEFINE D == \A k \in PublicKeys :
                  keys[k].state = "ACTIVE" /\ keys'[k].state = "RETIRED" =>
                    slot - keys[k].deactivated >= OLD_KEY_RETIREMENT_SLOTS
<1>1. IndInv /\ [Next]_vars => [D]_vars
  <2> SUFFICES ASSUME IndInv, Next, NEW k \in PublicKeys,
                      keys[k].state = "ACTIVE", keys'[k].state = "RETIRED"
               PROVE  slot - keys[k].deactivated >= OLD_KEY_RETIREMENT_SLOTS
    OBVIOUS
  <2>0. keys' # keys
    OBVIOUS
  <2>1. ASSUME NEW r \in RotationIds, Retire(r)
        PROVE  slot - keys[k].deactivated >= OLD_KEY_RETIREMENT_SLOTS
    <3>1. /\ rotations[r].phase = "ACTIVATE" /\ rotations[r].validator \in Validators
          /\ rotations[r].oldKey \in PublicKeys
          /\ retireKey(rotations[r].validator, rotations[r].oldKey)
          /\ slot - rotations[r].activated >= OLD_KEY_RETIREMENT_SLOTS
      BY <2>1 DEF Retire, IndInv, CeremonyInv, RotationRecords
    <3>2. /\ keys[rotations[r].oldKey].state = "ACTIVE"
          /\ keys[rotations[r].oldKey].deactivated = rotations[r].activated
      BY <3>1 DEF IndInv, CeremonyInv, RotationCoherent, ValidKeyState
    <3>3. k = rotations[r].oldKey
      BY <3>1, <3>2, RetireEffect DEF IndInv
    <3> QED BY <3>1, <3>2, <3>3
  <2>2. ASSUME NEW r \in RotationIds, Activate(r) PROVE FALSE
    <3>1. /\ rotations[r].phase = "APPROVE" /\ rotations[r].validator \in Validators
          /\ rotations[r].oldKey \in PublicKeys /\ rotations[r].newKey \in PublicKeys
          /\ slot \in Nat
          /\ activateRotation(rotations[r].validator, rotations[r].oldKey,
                              rotations[r].newKey, slot)
          /\ keys[rotations[r].newKey].state = "PENDING"
      BY <2>2 DEF Activate, IndInv, TypeOK, CeremonyInv, RotationRecords, RotationCoherent
    <3>2. /\ keys'[rotations[r].oldKey].state = "ACTIVE"
          /\ keys'[rotations[r].newKey].state = "ACTIVE"
          /\ \A l \in PublicKeys \ {rotations[r].oldKey, rotations[r].newKey} :
               keys'[l] = keys[l]
      BY <3>1, ActivateEffect DEF IndInv
    <3> QED BY <3>2
  <2>3. ASSUME NEW v \in Validators, NEW l \in PublicKeys, Register(v, l) PROVE FALSE
    <3>1. registerActiveKey(v, l, slot) /\ slot \in Nat
      BY <2>3 DEF Register, IndInv, TypeOK
    <3>2. keys[l].state = "FREE" /\ \A m \in PublicKeys : m # l => keys'[m] = keys[m]
      BY <3>1, RegisterEffect DEF IndInv
    <3> QED BY <3>2
  <2>4. ASSUME NEW i \in Initiators, NEW w \in call[i], Reserve(i, w) PROVE FALSE
    <3>1. /\ w.validator \in Validators /\ w.newKey \in PublicKeys
          /\ reservePendingKey(w.validator, w.newKey)
      BY <2>4 DEF Reserve, IndInv, TypeOK, Waiting
    <3>2. /\ keys[w.newKey].state = "FREE"
          /\ \A m \in PublicKeys : m # w.newKey => keys'[m] = keys[m]
      BY <3>1, ReserveEffect DEF IndInv
    <3> QED BY <3>2
  <2>5. CASE Tick
    BY <2>5, <2>0 DEF Tick, registry
  <2>6. ASSUME NEW i \in Initiators, InitiateStep(i) PROVE FALSE
    BY <2>6, <2>4, <2>0 DEF InitiateStep, Initiate, InitiateThrows, registry
  <2>7. ASSUME NEW r \in RotationIds, RotationStep(r), ~Retire(r), ~Activate(r)
        PROVE  FALSE
    BY <2>7, <2>0 DEF RotationStep, Approve, Snapshot, CommitFails, ApproveRotation,
                PersistApproval, PersistFails, registry
  <2> QED BY <2>1, <2>2, <2>3, <2>5, <2>6, <2>7 DEF Next
<1> QED BY <1>1, Invariance, PTL DEF Spec, RetirementDelayed

-----------------------------------------------------------------------------
(***************************************************************************)
(* The quorum: what the commitment recorded with a rotation comes from.    *)
(***************************************************************************)

\* A commitment of somebody: its validator set was not empty.
Voted == {c \in Commitment : c.eligible # {}}

\* An attempt that collects approvals, or has them, has voters.
AttemptsHaveVoters ==
  \A r \in RotationIds : commit[r].at \in {"pending", "settled"} => commit[r].eligible # {}

\* So has every commitment that the broadcaster remembers.
CompletedHaveVoters == completed \in Seq([id : RotationIds, result : Voted])

\* A rotation past INITIATE carries a commitment that the calculator accepts.
QuorumRecorded ==
  \A r \in RotationIds :
    rotations[r].phase \in {"APPROVE", "ACTIVATE", "RETIRE"} => ValidCommitment(rotations[r])

\* A rotation is activated at a slot of the past.
ActivatedInThePast ==
  \A r \in RotationIds : rotations[r].phase = "ACTIVATE" => rotations[r].activated <= slot

QuorumInv ==
  AttemptsHaveVoters /\ CompletedHaveVoters /\ QuorumRecorded /\ ActivatedInThePast

\* A change of the attempts alone keeps the quorum of the rotations.
LEMMA AttemptQuorum ==
  ASSUME IndInv, QuorumInv, NEW r \in RotationIds, NEW c \in Commitment,
         c.at \in {"pending", "settled"} => c.eligible # {},
         commit' = [commit EXCEPT ![r] = c], CompletedHaveVoters',
         UNCHANGED <<slot, rotations>>
  PROVE  QuorumInv'
<1>1. commit \in [RotationIds -> Commitment]
  BY DEF IndInv, TypeOK
<1>2. AttemptsHaveVoters'
  BY <1>1 DEF QuorumInv, AttemptsHaveVoters
<1>3. QuorumRecorded' /\ ActivatedInThePast'
  BY DEF QuorumInv, QuorumRecorded, ActivatedInThePast, ValidCommitment
<1> QED BY <1>2, <1>3 DEF QuorumInv

\* Every step of an approval attempt keeps it.
LEMMA AttemptStepQuorum ==
  ASSUME IndInv, QuorumInv, NEW r \in RotationIds,
         \/ Approve(r) \/ \E S \in SUBSET Validators : Snapshot(r, S)
         \/ CommitFails(r) \/ \E v \in Validators : ApproveRotation(r, v)
         \/ PersistFails(r)
  PROVE  QuorumInv'
<1>0. commit[r] \in Commitment /\ CompletedHaveVoters
  BY DEF IndInv, TypeOK, QuorumInv
<1>1. /\ Idle \in Commitment /\ Idle.at = "none"
      /\ [Idle EXCEPT !.at = "starting"] \in Commitment
      /\ [Idle EXCEPT !.at = "starting"].at = "starting"
  BY DEF Idle, Commitment
<1>2. CASE Approve(r)
  <2>0. completed' = completed /\ UNCHANGED <<slot, rotations>> /\ CompletedHaveVoters'
    BY <1>0, <1>2 DEF Approve, CompletedHaveVoters
  <2>1. CASE \E i \in DOMAIN completed : completed[i].id = r
    <3> DEFINE j == CHOOSE i \in DOMAIN completed : completed[i].id = r
               T == [id : RotationIds, result : Voted]
    <3>1. j \in DOMAIN completed
      BY <2>1
    <3>2. completed \in Seq(T)
      BY <1>0 DEF CompletedHaveVoters
    <3>3. commit' = [commit EXCEPT ![r] = completed[j].result]
      BY <1>2, <2>1 DEF Approve
    <3> HIDE DEF j, T
    <3>4. completed[j] \in T
      BY <3>1, <3>2
    <3>5. completed[j].result \in Commitment /\ completed[j].result.eligible # {}
      BY <3>4 DEF T, Voted
    <3> QED BY <2>0, <3>3, <3>5, AttemptQuorum
  <2>2. CASE ~\E i \in DOMAIN completed : completed[i].id = r
    <3>1. commit' = [commit EXCEPT ![r] = [Idle EXCEPT !.at = "starting"]]
      BY <1>2, <2>2 DEF Approve
    <3> QED BY <1>1, <2>0, <3>1, AttemptQuorum
  <2> QED BY <2>1, <2>2
<1>3. ASSUME NEW S \in SUBSET Validators, Snapshot(r, S)
      PROVE  QuorumInv'
  <2> DEFINE c == [at |-> "pending", approvals |-> {}, eligible |-> S,
                   threshold |-> calculateRotationApprovalThreshold(Cardinality(S))]
  <2>1. c \in Commitment /\ c.eligible = S /\ S # {}
    BY <1>3, ThresholdType DEF Commitment, Snapshot
  <2>2. /\ commit' = [commit EXCEPT ![r] = c] /\ UNCHANGED <<slot, rotations>>
        /\ CompletedHaveVoters'
    BY <1>0, <1>3 DEF Snapshot, CompletedHaveVoters
  <2> HIDE DEF c
  <2> QED BY <2>1, <2>2, AttemptQuorum
<1>4. CASE CommitFails(r) \/ PersistFails(r)
  <2>1. /\ commit' = [commit EXCEPT ![r] = Idle] /\ UNCHANGED <<slot, rotations>>
        /\ CompletedHaveVoters'
    BY <1>0, <1>4 DEF CommitFails, PersistFails, CompletedHaveVoters
  <2> QED BY <1>1, <2>1, AttemptQuorum
<1>5. ASSUME NEW v \in Validators, ApproveRotation(r, v)
      PROVE  QuorumInv'
  <2> DEFINE c == [commit[r] EXCEPT !.approvals = @ \cup {v}]
             done == [c EXCEPT !.at = "settled"]
             entry == [id |-> r, result |-> done]
             T == [id : RotationIds, result : Voted]
  <2>0. commit[r].eligible # {}
    BY <1>5 DEF ApproveRotation
  <2>1. c \in Commitment /\ c.eligible # {}
    BY <1>0, <2>0 DEF Commitment
  <2>2. done \in Commitment /\ done.eligible # {}
    BY <2>1 DEF Commitment
  <2>3. entry \in T
    BY <2>2 DEF Voted
  <2>4. /\ UNCHANGED <<slot, rotations>>
        /\ \/ /\ commit' = [commit EXCEPT ![r] = done]
              /\ completed' = rememberCompleted(entry)
           \/ commit' = [commit EXCEPT ![r] = c] /\ completed' = completed
    BY <1>5 DEF ApproveRotation
  <2> HIDE DEF c, done, entry
  <2>5. completed \in Seq(T) /\ Len(completed) <= maxCompletedCommitments
    BY <1>0 DEF CompletedHaveVoters, IndInv, TypeOK
  <2> HIDE DEF T
  <2>6. completed' \in Seq(T)
    BY <2>3, <2>4, <2>5, RememberType
  <2>7. CompletedHaveVoters'
    BY <2>6 DEF T, CompletedHaveVoters
  <2> QED BY <2>1, <2>2, <2>4, <2>7, AttemptQuorum
<1> QED BY <1>2, <1>3, <1>4, <1>5

\* A rotation that changes keeps it when what it becomes has its quorum.
LEMMA RotationQuorum ==
  ASSUME IndInv, QuorumInv, NEW r \in RotationIds, NEW q,
         rotations' = [rotations EXCEPT ![r] = q],
         q.phase \in {"APPROVE", "ACTIVATE", "RETIRE"} => ValidCommitment(q),
         q.phase = "ACTIVATE" => q.activated <= slot,
         AttemptsHaveVoters', UNCHANGED <<slot, completed>>
  PROVE  QuorumInv'
<1>1. rotations'[r] = q /\ \A p \in RotationIds : p # r => rotations'[p] = rotations[p]
  BY DEF IndInv, TypeOK
<1>2. QuorumRecorded'
  BY <1>1 DEF QuorumInv, QuorumRecorded, ValidCommitment
<1>3. ActivatedInThePast'
  BY <1>1 DEF QuorumInv, ActivatedInThePast
<1>4. CompletedHaveVoters'
  BY DEF QuorumInv, CompletedHaveVoters
<1> QED BY <1>2, <1>3, <1>4 DEF QuorumInv

\* Every step of the ceremony keeps it.
LEMMA RotationStepQuorum ==
  ASSUME IndInv, QuorumInv, NEW r \in RotationIds, RotationStep(r)
  PROVE  QuorumInv'
<1>0. /\ rotations[r] \in RotationRecord /\ commit \in [RotationIds -> Commitment]
      /\ commit[r] \in Commitment /\ Idle \in Commitment /\ Idle.at = "none"
      /\ slot \in Nat
  BY DEF IndInv, TypeOK, Idle, Commitment
<1>1. CASE PersistApproval(r)
  <2>1. AttemptsHaveVoters'
    BY <1>0, <1>1 DEF PersistApproval, QuorumInv, AttemptsHaveVoters
  <2>2. UNCHANGED <<slot, completed>>
    BY <1>1 DEF PersistApproval
  <2>3. CASE rotations' = rotations
    BY <2>1, <2>2, <2>3 DEF QuorumInv, CompletedHaveVoters, QuorumRecorded,
                            ActivatedInThePast, ValidCommitment
  <2>4. CASE rotations' # rotations
    <3> DEFINE c == commit[r]
               q == [rotations[r] EXCEPT !.phase = "APPROVE", !.approvals = c.approvals,
                       !.threshold = c.threshold, !.eligible = c.eligible]
    <3>1. /\ rotations' = [rotations EXCEPT ![r] = q]
          /\ c.threshold = calculateRotationApprovalThreshold(Cardinality(c.eligible))
          /\ Cardinality(c.approvals) >= c.threshold
          /\ c.approvals \subseteq c.eligible
      BY <1>1, <2>4 DEF PersistApproval
    <3>2. c.eligible # {}
      BY <1>1 DEF PersistApproval, QuorumInv, AttemptsHaveVoters
    <3>3. /\ q.phase = "APPROVE" /\ q.approvals = c.approvals
          /\ q.threshold = c.threshold /\ q.eligible = c.eligible
      BY <1>0 DEF RotationRecord
    <3> HIDE DEF c, q
    <3>4. ValidCommitment(q)
      BY <3>1, <3>2, <3>3 DEF ValidCommitment
    <3> QED BY <2>1, <2>2, <3>1, <3>3, <3>4, RotationQuorum
  <2> QED BY <2>3, <2>4
<1>2. CASE Activate(r)
  <2> DEFINE q == [rotations[r] EXCEPT !.phase = "ACTIVATE", !.activated = slot]
  <2>1. /\ rotations' = [rotations EXCEPT ![r] = q] /\ rotations[r].phase = "APPROVE"
        /\ UNCHANGED <<slot, commit, completed>>
    BY <1>0, <1>2 DEF Activate, IndInv, TypeOK
  <2>2. /\ q.phase = "ACTIVATE" /\ q.activated = slot
        /\ q.approvals = rotations[r].approvals
        /\ q.threshold = rotations[r].threshold /\ q.eligible = rotations[r].eligible
    BY <1>0 DEF RotationRecord
  <2> HIDE DEF q
  <2>3. ValidCommitment(q)
    BY <2>1, <2>2 DEF ValidCommitment, QuorumInv, QuorumRecorded
  <2>4. AttemptsHaveVoters'
    BY <2>1 DEF QuorumInv, AttemptsHaveVoters
  <2>5. q.activated <= slot
    BY <1>0, <2>2
  <2> QED BY <2>1, <2>3, <2>4, <2>5, RotationQuorum
<1>3. CASE Retire(r)
  <2> DEFINE q == [rotations[r] EXCEPT !.phase = "RETIRE"]
  <2>1. /\ rotations' = [rotations EXCEPT ![r] = q] /\ rotations[r].phase = "ACTIVATE"
        /\ UNCHANGED <<slot, commit, completed>>
    BY <1>0, <1>3 DEF Retire, IndInv, TypeOK
  <2>2. /\ q.phase = "RETIRE" /\ q.approvals = rotations[r].approvals
        /\ q.threshold = rotations[r].threshold /\ q.eligible = rotations[r].eligible
    BY <1>0 DEF RotationRecord
  <2> HIDE DEF q
  <2>3. ValidCommitment(q)
    BY <2>1, <2>2 DEF ValidCommitment, QuorumInv, QuorumRecorded
  <2>4. AttemptsHaveVoters'
    BY <2>1 DEF QuorumInv, AttemptsHaveVoters
  <2> QED BY <2>1, <2>2, <2>3, <2>4, RotationQuorum
<1> QED BY <1>1, <1>2, <1>3, AttemptStepQuorum DEF RotationStep

\* It is inductive, given the invariant of the registry and the ceremony.
LEMMA NextQuorum == IndInv /\ QuorumInv /\ [Next]_vars => QuorumInv'
<1> SUFFICES ASSUME IndInv, QuorumInv, [Next]_vars PROVE QuorumInv'
  OBVIOUS
<1>0. rotations \in [RotationIds -> RotationRecord] /\ slot \in Nat
  BY DEF IndInv, TypeOK
<1>1. ASSUME UNCHANGED <<rotations, commit, completed>>, slot' = slot \/ slot' = slot + 1
      PROVE  QuorumInv'
  <2>1. ActivatedInThePast'
    <3> SUFFICES ASSUME NEW r \in RotationIds, rotations[r].phase = "ACTIVATE"
                 PROVE  rotations[r].activated <= slot'
      BY <1>1 DEF ActivatedInThePast
    <3>1. rotations[r].activated \in Nat /\ rotations[r].activated <= slot
      BY DEF IndInv, CeremonyInv, RotationRecords, QuorumInv, ActivatedInThePast
    <3> QED BY <1>0, <1>1, <3>1
  <2> QED BY <1>1, <2>1 DEF QuorumInv, AttemptsHaveVoters, CompletedHaveVoters,
                            QuorumRecorded, ValidCommitment
<1>2. ASSUME NEW i \in Initiators, NEW w \in call[i], Reserve(i, w) PROVE QuorumInv'
  <2> DEFINE q == [rotations[w.id] EXCEPT !.phase = "INITIATE", !.validator = w.validator,
                     !.oldKey = signing[w.validator], !.newKey = w.newKey]
  <2>1. w.id \in RotationIds
    BY <1>2 DEF IndInv, TypeOK, Waiting
  <2>2. /\ rotations' = [rotations EXCEPT ![w.id] = q]
        /\ UNCHANGED <<slot, commit, completed>>
    BY <1>0, <1>2 DEF Reserve
  <2>3. q.phase = "INITIATE"
    BY <1>0, <2>1 DEF RotationRecord
  <2>4. AttemptsHaveVoters'
    BY <2>2 DEF QuorumInv, AttemptsHaveVoters
  <2> HIDE DEF q
  <2> QED BY <2>1, <2>2, <2>3, <2>4, RotationQuorum
<1>3. CASE Tick
  BY <1>1, <1>3 DEF Tick
<1>4. ASSUME NEW v \in Validators, NEW k \in PublicKeys, Register(v, k) PROVE QuorumInv'
  BY <1>1, <1>4 DEF Register
<1>5. ASSUME NEW i \in Initiators, InitiateStep(i) PROVE QuorumInv'
  <2>1. CASE InitiateThrows(i) \/ \E v \in Validators, k \in PublicKeys, r \in RotationIds :
                                    Initiate(i, v, k, r)
    <3>1. UNCHANGED <<rotations, commit, completed, slot>>
      BY <2>1 DEF InitiateThrows, Initiate
    <3> QED BY <1>1, <3>1
  <2> QED BY <1>2, <1>5, <2>1 DEF InitiateStep
<1>6. CASE UNCHANGED vars
  BY <1>1, <1>6 DEF vars
<1> QED BY <1>3, <1>4, <1>5, <1>6, RotationStepQuorum DEF Next

\* There is no rotation and no commitment to begin with.
LEMMA InitQuorum == Init => QuorumInv
<1> SUFFICES ASSUME Init PROVE QuorumInv
  OBVIOUS
<1>1. \A r \in RotationIds : rotations[r].phase = "NONE" /\ commit[r].at = "none"
  BY DEF Init, Idle
<1>2. CompletedHaveVoters
  BY DEF Init, CompletedHaveVoters
<1> QED BY <1>1, <1>2 DEF QuorumInv, AttemptsHaveVoters, QuorumRecorded, ActivatedInThePast

\* Epochs advance with the slots.
LEMMA EpochMonotonic ==
  ASSUME NEW s \in Nat, NEW t \in Nat, s <= t
  PROVE  /\ currentEpoch(s) \in Nat /\ currentEpoch(t) \in Nat
         /\ currentEpoch(s) <= currentEpoch(t)
<1> DEFINE n == SlotsPerEpoch
           a == s \div n
           b == t \div n
<1>1. n \in Nat /\ n > 0
  BY RotationAssumption
<1>2. /\ a \in Int /\ n * a <= s /\ s < n * (a + 1)
      /\ b \in Int /\ n * b <= t /\ t < n * (b + 1)
  BY <1>1
<1>3. a >= 0 /\ b >= 0
  BY <1>1
<1> HIDE DEF a, b, n
<1>4. ASSUME a > b PROVE FALSE
  <2>1. PICK d \in Nat : a = b + 1 + d
    <3>1. a - b - 1 \in Nat /\ a = b + 1 + (a - b - 1)
      BY <1>2, <1>4
    <3> QED BY <3>1
  <2>2. n * a = n * (b + 1) + n * d
    BY <1>1, <1>2, <2>1
  <2>3. n * d >= 0 /\ n * d \in Int /\ n * a \in Int /\ n * (b + 1) \in Int
    BY <1>1, <1>2, <2>1
  <2> QED BY <1>2, <2>2, <2>3
<1> QED BY <1>2, <1>3, <1>4 DEF currentEpoch, a, b, n

\* The calculator excuses evidence of an activated rotation in its grace epochs.
LEMMA Excused ==
  ASSUME IndInv, QuorumInv, NEW r \in RotationIds, rotations[r].phase = "ACTIVATE",
         NEW s \in 0..(rotations[r].activated - 1), NEW t \in rotations[r].activated..slot
  PROVE  suppressed([rotation |-> r, validator |-> rotations[r].validator,
                     firstKey |-> rotations[r].newKey, secondKey |-> rotations[r].oldKey,
                     firstSlot |-> t, secondSlot |-> s])
           <=> currentEpoch(slot) < currentEpoch(rotations[r].activated) + ROTATION_GRACE_EPOCHS
<1> DEFINE q == rotations[r]
           e == [rotation |-> r, validator |-> q.validator, firstKey |-> q.newKey,
                 secondKey |-> q.oldKey, firstSlot |-> t, secondSlot |-> s]
           d == currentEpoch(slot) - currentEpoch(q.activated)
<1>1. q.activated \in Nat /\ slot \in Nat /\ q.activated <= slot
  BY DEF IndInv, TypeOK, CeremonyInv, RotationRecords, QuorumInv, ActivatedInThePast
<1>2. q.oldKey # q.newKey /\ ValidKeyState(q) /\ ValidCommitment(q)
  BY DEF IndInv, CeremonyInv, RotationCoherent, QuorumInv, QuorumRecorded
<1>3. suppressed(e) <=> d \in 0..(ROTATION_GRACE_EPOCHS - 1)
  BY <1>2 DEF suppressed
<1>4. d \in 0..(ROTATION_GRACE_EPOCHS - 1)
        <=> currentEpoch(slot) < currentEpoch(q.activated) + ROTATION_GRACE_EPOCHS
  <2>1. /\ currentEpoch(slot) \in Nat /\ currentEpoch(q.activated) \in Nat
        /\ currentEpoch(q.activated) <= currentEpoch(slot)
    BY <1>1, EpochMonotonic
  <2> QED BY <2>1, RotationAssumption
<1> QED BY <1>3, <1>4

\* No rotation is activated or retired without two thirds of one non-empty validator
\* set, although a remembered commitment may answer a later attempt; and from its
\* activation on, for the whole grace period and no longer, evidence across the
\* activation slot is excused.
THEOREM CeremonyIsSound == Spec => []CeremonySound
<1>1. IndInv /\ QuorumInv => CeremonySound
  <2> SUFFICES ASSUME IndInv, QuorumInv PROVE CeremonySound
    OBVIOUS
  <2>1. ApprovedByQuorum
    <3> SUFFICES ASSUME NEW r \in RotationIds,
                        rotations[r].phase \in {"APPROVE", "ACTIVATE", "RETIRE"}
                 PROVE  /\ rotations[r].eligible # {}
                        /\ rotations[r].approvals \subseteq rotations[r].eligible
                        /\ 3 * Cardinality(rotations[r].approvals)
                             >= 2 * Cardinality(rotations[r].eligible)
      BY DEF ApprovedByQuorum
    <3>1. /\ ValidCommitment(rotations[r])
          /\ rotations[r].approvals \in SUBSET Validators
          /\ rotations[r].eligible \in SUBSET Validators
      BY DEF QuorumInv, QuorumRecorded, IndInv, TypeOK, RotationRecord
    <3>2. /\ Cardinality(rotations[r].approvals) \in Nat
          /\ Cardinality(rotations[r].eligible) \in Nat
      BY <3>1, ThresholdType
    <3> QED BY <3>1, <3>2 DEF ValidCommitment, calculateRotationApprovalThreshold
  <2> QED BY <2>1, Excused DEF CeremonySound, OverlapExcused
<1> QED BY <1>1, Invariance, InitQuorum, NextQuorum, PTL DEF Spec

-----------------------------------------------------------------------------
(***************************************************************************)
(* The life of a key.                                                      *)
(***************************************************************************)

\* What one step may do to a key that is registered.
MovesOn(k) ==
  keys[k].state # "FREE" =>
    /\ keys'[k].owner = keys[k].owner
    /\ keys[k].state # keys'[k].state =>
         <<keys[k].state, keys'[k].state>> \in
           {<<"PENDING", "ACTIVE">>, <<"ACTIVE", "RETIRED">>}
    /\ keys[k].deactivated # NoSlot => ~keys'[k].enabled

\* Each operation of the ceremony moves the registered keys on, or leaves them.
LEMMA KeyMovesOn ==
  ASSUME IndInv, Next, NEW k \in PublicKeys
  PROVE  MovesOn(k)
<1>0. ASSUME keys'[k] = keys[k] PROVE MovesOn(k)
  BY <1>0 DEF MovesOn, IndInv, RegistryInv, KeyRecords
<1>1. ASSUME NEW r \in RotationIds, Retire(r) PROVE MovesOn(k)
  <2> DEFINE o == rotations[r].oldKey
  <2>1. /\ rotations[r].phase = "ACTIVATE" /\ rotations[r].validator \in Validators
        /\ o \in PublicKeys /\ retireKey(rotations[r].validator, o)
    BY <1>1 DEF Retire, IndInv, CeremonyInv, RotationRecords
  <2>2. keys[o].state = "ACTIVE"
    BY <2>1 DEF IndInv, CeremonyInv, RotationCoherent, ValidKeyState
  <2>3. /\ keys'[o].owner = keys[o].owner /\ keys'[o].state = "RETIRED" /\ ~keys'[o].enabled
        /\ \A l \in PublicKeys : l # o => keys'[l] = keys[l]
    BY <2>1, <2>2, RetireEffect DEF IndInv
  <2> QED BY <1>0, <2>2, <2>3 DEF MovesOn
<1>2. ASSUME NEW r \in RotationIds, Activate(r) PROVE MovesOn(k)
  <2> DEFINE o == rotations[r].oldKey
             n == rotations[r].newKey
  <2>1. /\ rotations[r].phase = "APPROVE" /\ rotations[r].validator \in Validators
        /\ o \in PublicKeys /\ n \in PublicKeys /\ slot \in Nat
        /\ activateRotation(rotations[r].validator, o, n, slot)
        /\ keys[n].state = "PENDING"
    BY <1>2 DEF Activate, IndInv, TypeOK, CeremonyInv, RotationRecords, RotationCoherent
  <2>2. /\ keys'[o].owner = keys[o].owner /\ keys'[n].owner = keys[n].owner
        /\ keys[o].state = "ACTIVE" /\ keys'[o].state = "ACTIVE" /\ ~keys'[o].enabled
        /\ keys'[n].state = "ACTIVE"
        /\ \A l \in PublicKeys \ {o, n} : keys'[l] = keys[l]
    BY <2>1, ActivateEffect DEF IndInv
  <2>3. keys[n].deactivated = NoSlot
    BY <2>1 DEF IndInv, RegistryInv, KeyRecords
  <2> QED BY <1>0, <2>1, <2>2, <2>3 DEF MovesOn
<1>3. ASSUME NEW v \in Validators, NEW l \in PublicKeys, Register(v, l) PROVE MovesOn(k)
  <2>1. registerActiveKey(v, l, slot) /\ slot \in Nat
    BY <1>3 DEF Register, IndInv, TypeOK
  <2>2. keys[l].state = "FREE" /\ \A m \in PublicKeys : m # l => keys'[m] = keys[m]
    BY <2>1, RegisterEffect DEF IndInv
  <2> QED BY <1>0, <2>2 DEF MovesOn
<1>4. ASSUME NEW i \in Initiators, NEW w \in call[i], Reserve(i, w) PROVE MovesOn(k)
  <2>1. /\ w.validator \in Validators /\ w.newKey \in PublicKeys
        /\ reservePendingKey(w.validator, w.newKey)
    BY <1>4 DEF Reserve, IndInv, TypeOK, Waiting
  <2>2. /\ keys[w.newKey].state = "FREE"
        /\ \A m \in PublicKeys : m # w.newKey => keys'[m] = keys[m]
    BY <2>1, ReserveEffect DEF IndInv
  <2> QED BY <1>0, <2>2 DEF MovesOn
<1>5. CASE Tick
  BY <1>0, <1>5 DEF Tick, registry
<1>6. ASSUME NEW i \in Initiators, InitiateStep(i) PROVE MovesOn(k)
  BY <1>0, <1>4, <1>6 DEF InitiateStep, Initiate, InitiateThrows, registry
<1>7. ASSUME NEW r \in RotationIds, RotationStep(r), ~Retire(r), ~Activate(r)
      PROVE  MovesOn(k)
  BY <1>0, <1>7 DEF RotationStep, Approve, Snapshot, CommitFails, ApproveRotation,
              PersistApproval, PersistFails, registry
<1> QED BY <1>1, <1>2, <1>3, <1>5, <1>6, <1>7 DEF Next

\* A registered key never changes hands, its state only moves on from PENDING through
\* ACTIVE to RETIRED, and once deactivated it never signs again.
THEOREM KeysMoveOn == Spec => KeyLifecycle
<1>1. IndInv /\ [Next]_vars => [\A k \in PublicKeys : MovesOn(k)]_vars
  BY KeyMovesOn
<1> QED BY <1>1, Invariance, PTL DEF Spec, KeyLifecycle, MovesOn
=============================================================================
