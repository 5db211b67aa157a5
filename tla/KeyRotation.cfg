\* Three voters, overlapping calls of initiate(), two rotations that share the cache.
CONSTANTS
  v1 = v1
  v2 = v2
  v3 = v3
  k1 = k1
  k2 = k2
  k3 = k3
  r1 = r1
  r2 = r2
  i1 = i1
  i2 = i2
  NoKey = NoKey
  NoOne = NoOne
  NoRotation = NoRotation
  Validators = {v1, v2, v3}
  PublicKeys = {k1, k2, k3}
  RotationIds = {r1, r2}
  Initiators = {i1, i2}
  OLD_KEY_RETIREMENT_SLOTS = 1
  ROTATION_GRACE_EPOCHS = 1
  SlotsPerEpoch = 1
  maxCompletedCommitments = 1
  MaxSlot = 2
SPECIFICATION Spec
SYMMETRY Symmetry
INVARIANTS TypeOK OneSigningKey RotationCoherent IndexesAgree CeremonySound
PROPERTIES KeyLifecycle RetirementDelayed
CHECK_DEADLOCK FALSE
