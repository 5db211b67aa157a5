----------------------------- MODULE KeyRotation -----------------------------
(***************************************************************************)
(* The key-rotation ceremony: RotationCeremony (src/keys), the quorum      *)
(* collector CommitmentBroadcaster (src/consensus), the registry they act  *)
(* on, and the exception PenaltyCalculator (src/slashing) makes for        *)
(* double-sign evidence that a rotation explains.                          *)
(*                                                                         *)
(* One step is one turn of the event loop: what runs between two awaits,   *)
(* or one timer.  Rotation ids are fresh or supplied by the caller; a      *)
(* caller may supply one that is in use.                                   *)
(***************************************************************************)
EXTENDS KeyRegistry, FiniteSets, Sequences

CONSTANTS
  RotationIds,              \* ids of rotations
  NoRotation,               \* no entry in activeRotationByValidator
  Initiators,               \* concurrent calls of initiate()
  OLD_KEY_RETIREMENT_SLOTS, \* 4096 in the code
  ROTATION_GRACE_EPOCHS,    \* 256 in the code
  SlotsPerEpoch,            \* how the two readings of the clock relate
  maxCompletedCommitments,  \* size of the cache of completed commitments
  MaxSlot                   \* bound: the last slot of the clock

ASSUME RotationAssumption ==
  /\ NoRotation \notin RotationIds
  /\ IsFiniteSet(Validators)
  /\ OLD_KEY_RETIREMENT_SLOTS \in Nat
  /\ ROTATION_GRACE_EPOCHS \in Nat
  /\ SlotsPerEpoch \in Nat \ {0}
  /\ maxCompletedCommitments \in Nat
  /\ MaxSlot \in Nat

VARIABLES
  slot,         \* currentSlot()
  rotations,    \* RotationCeremony.rotations; phase NONE: not in the map
  active,       \* activeRotationByValidator
  call,         \* each call of initiate() that awaits its stake
  commit,       \* approvalAttempts, and the broadcaster's starting and pending
  completed     \* the broadcaster's completed, oldest entry first

vars == <<registry, slot, rotations, active, call, commit, completed>>

Phases == {"NONE", "INITIATE", "APPROVE", "ACTIVATE", "RETIRE"}

RotationRecord ==
  [phase     : Phases,
   validator : Validators \cup {NoOne},
   oldKey    : PublicKeys \cup {NoKey},
   newKey    : PublicKeys \cup {NoKey},
   activated : Nat \cup {NoSlot},
   approvals : SUBSET Validators,
   threshold : Nat,
   eligible  : SUBSET Validators]

\* at: none, starting (awaits the validator set), pending (collects approvals),
\* settled (the promise is resolved, its continuation has not run).
Commitment ==
  [at        : {"none", "starting", "pending", "settled"},
   approvals : SUBSET Validators,
   threshold : Nat,
   eligible  : SUBSET Validators]

Waiting == [validator : Validators, newKey : PublicKeys, id : RotationIds]

TypeOK ==
  /\ RegistryTypeOK
  /\ slot \in Nat
  /\ rotations \in [RotationIds -> RotationRecord]
  /\ active \in [Validators -> RotationIds \cup {NoRotation}]
  /\ call \in [Initiators -> SUBSET Waiting]
  /\ commit \in [RotationIds -> Commitment]
  /\ completed \in Seq([id : RotationIds, result : Commitment])
  /\ Len(completed) <= maxCompletedCommitments

Idle == [at |-> "none", approvals |-> {}, threshold |-> 0, eligible |-> {}]

Init ==
  /\ RegistryInit
  /\ slot = 0
  /\ rotations = [r \in RotationIds |->
                    [phase |-> "NONE", validator |-> NoOne, oldKey |-> NoKey,
                     newKey |-> NoKey, activated |-> NoSlot, approvals |-> {},
                     threshold |-> 0, eligible |-> {}]]
  /\ active = [v \in Validators |-> NoRotation]
  /\ call = [i \in Initiators |-> {}]
  /\ commit = [r \in RotationIds |-> Idle]
  /\ completed = <<>>

-----------------------------------------------------------------------------
(***************************************************************************)
(* The environment: the clock, and the operator who registers validators.  *)
(***************************************************************************)
currentEpoch(s) == s \div SlotsPerEpoch

Tick ==
  /\ slot < MaxSlot
  /\ slot' = slot + 1
  /\ UNCHANGED <<registry, rotations, active, call, commit, completed>>

Register(v, k) ==
  /\ registerActiveKey(v, k, slot)
  /\ UNCHANGED <<slot, rotations, active, call, commit, completed>>

-----------------------------------------------------------------------------
(***************************************************************************)
(* RotationCeremony.initiate()                                             *)
(***************************************************************************)

\* Up to the await of getValidatorStake().
Initiate(i, v, k, r) ==
  /\ call[i] = {}
  /\ ~hasPublicKey(k)
  /\ call' = [call EXCEPT ![i] = {[validator |-> v, newKey |-> k, id |-> r]}]
  /\ UNCHANGED <<registry, slot, rotations, active, commit, completed>>

\* Fault: a rotation in progress is not looked up again after the await.
Reserve_NoConflictCheck(i, w) ==
  LET v == w.validator IN
  /\ signing[v] # NoKey
  /\ keys[signing[v]].state = "ACTIVE" /\ keys[signing[v]].enabled
  /\ rotations[w.id].phase = "NONE"
  /\ reservePendingKey(v, w.newKey)
  /\ rotations' = [rotations EXCEPT ![w.id] =
                     [@ EXCEPT !.phase = "INITIATE", !.validator = v,
                               !.oldKey = signing[v], !.newKey = w.newKey]]
  /\ active' = [active EXCEPT ![v] = w.id]
  /\ call' = [call EXCEPT ![i] = {}]
  /\ UNCHANGED <<slot, commit, completed>>

\* From the await on, the stake being sufficient.
Reserve(i, w) ==
  LET v == w.validator IN
  /\ active[v] = NoRotation
  /\ signing[v] # NoKey
  /\ keys[signing[v]].state = "ACTIVE" /\ keys[signing[v]].enabled
  /\ rotations[w.id].phase = "NONE"
  /\ reservePendingKey(v, w.newKey)
  /\ rotations' = [rotations EXCEPT ![w.id] =
                     [@ EXCEPT !.phase = "INITIATE", !.validator = v,
                               !.oldKey = signing[v], !.newKey = w.newKey]]
  /\ active' = [active EXCEPT ![v] = w.id]
  /\ call' = [call EXCEPT ![i] = {}]
  /\ UNCHANGED <<slot, commit, completed>>

\* The stake is too low, or one of the conditions of Reserve fails: throw.
InitiateThrows(i) ==
  /\ call[i] # {}
  /\ call' = [call EXCEPT ![i] = {}]
  /\ UNCHANGED <<registry, slot, rotations, active, commit, completed>>

-----------------------------------------------------------------------------
(***************************************************************************)
(* RotationCeremony.approve() and CommitmentBroadcaster                    *)
(***************************************************************************)

\* Fault: rounded down.
calculateRotationApprovalThreshold_Floor(n) == (2 * n) \div 3

calculateRotationApprovalThreshold(n) == (2 * n + 2) \div 3

\* approve() on a rotation without an attempt, through performApproval() into
\* commitRotation(): a completed commitment answers at once.
Approve(r) ==
  /\ rotations[r].phase = "INITIATE"
  /\ commit[r].at = "none"
  /\ commit' = [commit EXCEPT ![r] =
       IF \E i \in DOMAIN completed : completed[i].id = r
       THEN completed[CHOOSE i \in DOMAIN completed : completed[i].id = r].result
       ELSE [Idle EXCEPT !.at = "starting"]]
  /\ UNCHANGED <<registry, slot, rotations, active, call, completed>>

\* startCommit() after getActiveValidatorSnapshot(): the timer is armed and the
\* event emitted.
Snapshot(r, S) ==
  /\ commit[r].at = "starting"
  /\ S # {}
  /\ commit' = [commit EXCEPT ![r] =
       [at |-> "pending", approvals |-> {}, eligible |-> S,
        threshold |-> calculateRotationApprovalThreshold(Cardinality(S))]]
  /\ UNCHANGED <<registry, slot, rotations, active, call, completed>>

\* The attempt is rejected: the validator set is empty, does not come in time
\* or cannot be read; the timer fires; a listener of the event throws.
CommitFails(r) ==
  /\ commit[r].at \in {"starting", "pending"}
  /\ commit' = [commit EXCEPT ![r] = Idle]
  /\ UNCHANGED <<registry, slot, rotations, active, call, completed>>

\* Fault: nothing is ever dropped.
rememberCompleted_Unbounded(entry) == Append(completed, entry)

\* rememberCompleted(): append, then drop the oldest beyond the limit.
rememberCompleted(entry) ==
  LET all == Append(completed, entry) IN
  IF Len(all) > maxCompletedCommitments THEN Tail(all) ELSE all

\* approveRotation(): a counted approval, and completeCommitment() at quorum.
ApproveRotation(r, v) ==
  LET c == [commit[r] EXCEPT !.approvals = @ \cup {v}]
      done == [c EXCEPT !.at = "settled"] IN
  /\ commit[r].at = "pending"
  /\ v \in commit[r].eligible \ commit[r].approvals
  /\ IF Cardinality(c.approvals) >= c.threshold
     THEN /\ commit' = [commit EXCEPT ![r] = done]
          /\ completed' = rememberCompleted([id |-> r, result |-> done])
     ELSE /\ commit' = [commit EXCEPT ![r] = c]
          /\ UNCHANGED completed
  /\ UNCHANGED <<registry, slot, rotations, active, call>>

\* persistApproval() and the clean-up of approvalAttempts.
PersistApproval(r) ==
  LET c == commit[r] IN
  /\ c.at = "settled"
  /\ IF /\ rotations[r].phase = "INITIATE"
        /\ c.threshold = calculateRotationApprovalThreshold(Cardinality(c.eligible))
        /\ Cardinality(c.approvals) >= c.threshold
        /\ c.approvals \subseteq c.eligible
     THEN rotations' = [rotations EXCEPT ![r] =
            [@ EXCEPT !.phase = "APPROVE", !.approvals = c.approvals,
                      !.threshold = c.threshold, !.eligible = c.eligible]]
     ELSE UNCHANGED rotations
  /\ commit' = [commit EXCEPT ![r] = Idle]
  /\ UNCHANGED <<registry, slot, active, call, completed>>

\* persistApproval() throws because the clock's reading is not valid; the
\* completed commitment stays in the cache.
PersistFails(r) ==
  /\ commit[r].at = "settled"
  /\ commit' = [commit EXCEPT ![r] = Idle]
  /\ UNCHANGED <<registry, slot, rotations, active, call, completed>>

-----------------------------------------------------------------------------
(***************************************************************************)
(* RotationCeremony.activate() and retire()                                *)
(***************************************************************************)

Activate(r) ==
  LET q == rotations[r] IN
  /\ q.phase = "APPROVE"
  /\ activateRotation(q.validator, q.oldKey, q.newKey, slot)
  /\ rotations' = [rotations EXCEPT ![r].phase = "ACTIVATE",
                                    ![r].activated = slot]
  /\ UNCHANGED <<slot, active, call, commit, completed>>

\* Fault: the retirement delay is not checked.
Retire_Early(r) ==
  LET q == rotations[r] IN
  /\ q.phase = "ACTIVATE"
  /\ retireKey(q.validator, q.oldKey)
  /\ rotations' = [rotations EXCEPT ![r].phase = "RETIRE"]
  /\ active' = [active EXCEPT ![q.validator] = IF @ = r THEN NoRotation ELSE @]
  /\ UNCHANGED <<slot, call, commit, completed>>

Retire(r) ==
  LET q == rotations[r] IN
  /\ q.phase = "ACTIVATE"
  /\ slot - q.activated >= OLD_KEY_RETIREMENT_SLOTS
  /\ retireKey(q.validator, q.oldKey)
  /\ rotations' = [rotations EXCEPT ![r].phase = "RETIRE"]
  /\ active' = [active EXCEPT ![q.validator] = IF @ = r THEN NoRotation ELSE @]
  /\ UNCHANGED <<slot, call, commit, completed>>

-----------------------------------------------------------------------------
(***************************************************************************)
(* PenaltyCalculator.calculate(): is the penalty suppressed?  The evidence *)
(* e is of double signing and names a rotation.                            *)
(***************************************************************************)
ValidCommitment(q) ==
  /\ q.eligible # {}
  /\ q.threshold = calculateRotationApprovalThreshold(Cardinality(q.eligible))
  /\ Cardinality(q.approvals) >= q.threshold
  /\ q.approvals \subseteq q.eligible

ValidKeyState(q) ==
  LET old == keys[q.oldKey]
      new == keys[q.newKey] IN
  /\ old.owner = q.validator /\ old.state = "ACTIVE" /\ ~old.enabled
  /\ old.deactivated = q.activated
  /\ new.owner = q.validator /\ new.state = "ACTIVE" /\ new.enabled
  /\ new.activated = q.activated

suppressed(e) ==
  LET q == rotations[e.rotation]
      oldFirst == e.firstKey = q.oldKey
      oldSlot == IF oldFirst THEN e.firstSlot ELSE e.secondSlot
      newSlot == IF oldFirst THEN e.secondSlot ELSE e.firstSlot IN
  /\ q.phase = "ACTIVATE"
  /\ q.validator = e.validator
  /\ e.firstKey # e.secondKey /\ {e.firstKey, e.secondKey} = {q.oldKey, q.newKey}
  /\ oldSlot \in 0..(q.activated - 1)
  /\ newSlot \in q.activated..slot
  /\ ValidCommitment(q)
  /\ ValidKeyState(q)
  /\ currentEpoch(slot) - currentEpoch(q.activated) \in 0..(ROTATION_GRACE_EPOCHS - 1)

-----------------------------------------------------------------------------
InitiateStep(i) ==
  \/ \E v \in Validators, k \in PublicKeys, r \in RotationIds : Initiate(i, v, k, r)
  \/ \E w \in call[i] : Reserve(i, w)
  \/ InitiateThrows(i)

RotationStep(r) ==
  \/ Approve(r)
  \/ \E S \in SUBSET Validators : Snapshot(r, S)
  \/ CommitFails(r)
  \/ \E v \in Validators : ApproveRotation(r, v)
  \/ PersistApproval(r)
  \/ PersistFails(r)
  \/ Activate(r)
  \/ Retire(r)

Next ==
  \/ Tick
  \/ \E v \in Validators, k \in PublicKeys : Register(v, k)
  \/ \E i \in Initiators : InitiateStep(i)
  \/ \E r \in RotationIds : RotationStep(r)

Spec == Init /\ [][Next]_vars

\* The timers of the broadcaster fire, and resolved promises run on.
Fairness ==
  \A r \in RotationIds : /\ WF_vars(CommitFails(r))
                         /\ WF_vars(PersistApproval(r) \/ PersistFails(r))

LiveSpec == Spec /\ Fairness

-----------------------------------------------------------------------------
Open == {"INITIATE", "APPROVE", "ACTIVATE"}

\* However calls of initiate() overlap in their await, a validator has at most
\* one rotation that is not retired, the one the ceremony's index names.
OneOpenRotation ==
  \A r \in RotationIds : rotations[r].phase \in Open =>
    active[rotations[r].validator] = r

\* Each phase of a rotation goes with one state of its two keys in the registry,
\* which the ceremony changes in separate calls.
RotationCoherent ==
  \A r \in RotationIds :
    LET q == rotations[r]
        old == keys[q.oldKey]
        new == keys[q.newKey] IN
    q.phase # "NONE" =>
      /\ old.owner = q.validator /\ new.owner = q.validator
      /\ q.oldKey # q.newKey
      /\ q.phase \in {"INITIATE", "APPROVE"} =>
           /\ signing[q.validator] = q.oldKey
           /\ pendingKey[q.validator] = q.newKey
           /\ new.state = "PENDING"
      /\ q.phase = "ACTIVATE" => signing[q.validator] = q.newKey /\ ValidKeyState(q)
      /\ q.phase = "RETIRE" => old.state = "RETIRED" /\ new.state # "PENDING"

\* A rotation past INITIATE has the approval of two thirds of one validator set.
ApprovedByQuorum ==
  \A r \in RotationIds :
    LET q == rotations[r] IN
    q.phase \in {"APPROVE", "ACTIVATE", "RETIRE"} =>
      /\ q.eligible # {} /\ q.approvals \subseteq q.eligible
      /\ 3 * Cardinality(q.approvals) >= 2 * Cardinality(q.eligible)

\* Until the old key is retired, evidence across the activation slot is excused
\* in the grace epochs and only then: the calculator's checks of the commitment
\* and of the key states never refuse a rotation that the ceremony activated.
OverlapExcused ==
  \A r \in RotationIds :
    LET q == rotations[r] IN
    q.phase = "ACTIVATE" =>
      \A s \in 0..(q.activated - 1), t \in q.activated..slot :
        LET e == [rotation |-> r, validator |-> q.validator,
                  firstKey |-> q.newKey, secondKey |-> q.oldKey,
                  firstSlot |-> t, secondSlot |-> s] IN
        suppressed(e) <=>
          currentEpoch(slot) < currentEpoch(q.activated) + ROTATION_GRACE_EPOCHS

\* The registry's indexes agree with its keys, and the index of active rotations
\* with the one open rotation of each validator.
IndexesAgree == RegistryConsistent /\ OneOpenRotation

\* Only a quorum of the eligible voters approves, and signing with either key
\* during the overlap of an approved rotation is never penalised.
CeremonySound == ApprovedByQuorum /\ OverlapExcused

\* A key is never handed to another validator, given a signing right twice,
\* or forgotten: its state only moves on.
KeyLifecycle ==
  [][\A k \in PublicKeys : keys[k].state # "FREE" =>
       /\ keys'[k].owner = keys[k].owner
       /\ keys[k].state # keys'[k].state =>
            <<keys[k].state, keys'[k].state>> \in
              {<<"PENDING", "ACTIVE">>, <<"ACTIVE", "RETIRED">>}
       /\ keys[k].deactivated # NoSlot => ~keys'[k].enabled]_vars

\* A key is retired only after it could not sign for the retirement delay.
RetirementDelayed ==
  [][\A k \in PublicKeys : keys[k].state = "ACTIVE" /\ keys'[k].state = "RETIRED" =>
       slot - keys[k].deactivated >= OLD_KEY_RETIREMENT_SLOTS]_vars

\* approvalAttempts never keeps an attempt for ever, so approve() can be retried.
AttemptSettles ==
  \A r \in RotationIds : commit[r].at # "none" ~> commit[r].at = "none"
=============================================================================
