----------------------------- MODULE KeyRegistry -----------------------------
(***************************************************************************)
(* The in-memory registry of validator keys, src/keys/key-registry.ts.     *)
(* Every mutation is synchronous, so every operator below is one atomic    *)
(* step; an operator is disabled where the method throws.                  *)
(*                                                                         *)
(* currentEpoch() and currentSlot() are read in the same turn, so a slot   *)
(* stands for both coordinates of an activation.                           *)
(***************************************************************************)
EXTENDS Integers

CONSTANTS
  Validators,   \* validator ids
  PublicKeys,   \* public keys that callers may present
  NoKey,        \* no entry in an index
  NoOne         \* owner of a key that is not registered

ASSUME RegistryAssumption ==
  /\ NoKey \notin PublicKeys
  /\ NoOne \notin Validators

VARIABLES
  keys,         \* keysByPublicKey; state FREE: the key is not in the map
  signing,      \* currentSigningKeyByValidator
  pendingKey    \* pendingKeyByValidator

registry == <<keys, signing, pendingKey>>

\* An undefined activationSlot or deactivationSlot.
NoSlot == -1

KeyRecord ==
  [state       : {"FREE", "PENDING", "ACTIVE", "RETIRED"},
   owner       : Validators \cup {NoOne},
   enabled     : BOOLEAN,
   activated   : Nat \cup {NoSlot},
   deactivated : Nat \cup {NoSlot}]

RegistryTypeOK ==
  /\ keys \in [PublicKeys -> KeyRecord]
  /\ signing \in [Validators -> PublicKeys \cup {NoKey}]
  /\ pendingKey \in [Validators -> PublicKeys \cup {NoKey}]

RegistryInit ==
  /\ keys = [k \in PublicKeys |-> [state |-> "FREE", owner |-> NoOne,
                                   enabled |-> FALSE, activated |-> NoSlot,
                                   deactivated |-> NoSlot]]
  /\ signing = [v \in Validators |-> NoKey]
  /\ pendingKey = [v \in Validators |-> NoKey]

hasPublicKey(k) == keys[k].state # "FREE"

registerActiveKey(v, k, s) ==
  /\ ~hasPublicKey(k)
  /\ signing[v] = NoKey
  /\ keys' = [keys EXCEPT ![k] = [state |-> "ACTIVE", owner |-> v,
                                  enabled |-> TRUE, activated |-> s,
                                  deactivated |-> NoSlot]]
  /\ signing' = [signing EXCEPT ![v] = k]
  /\ UNCHANGED pendingKey

\* Fault: the check is left to the caller, who made it before its await.
reservePendingKey_Unchecked(v, k) ==
  /\ pendingKey[v] = NoKey
  /\ keys' = [keys EXCEPT ![k] = [state |-> "PENDING", owner |-> v,
                                  enabled |-> FALSE, activated |-> NoSlot,
                                  deactivated |-> NoSlot]]
  /\ pendingKey' = [pendingKey EXCEPT ![v] = k]
  /\ UNCHANGED signing

reservePendingKey(v, k) ==
  /\ ~hasPublicKey(k)
  /\ pendingKey[v] = NoKey
  /\ keys' = [keys EXCEPT ![k] = [state |-> "PENDING", owner |-> v,
                                  enabled |-> FALSE, activated |-> NoSlot,
                                  deactivated |-> NoSlot]]
  /\ pendingKey' = [pendingKey EXCEPT ![v] = k]
  /\ UNCHANGED signing

\* The same rotation was activated before, with the same coordinates.
AlreadyActivated(v, old, new, s) ==
  /\ keys[old].owner = v /\ keys[old].state = "ACTIVE" /\ ~keys[old].enabled
  /\ keys[new].owner = v /\ keys[new].state = "ACTIVE" /\ keys[new].enabled
  /\ signing[v] = new
  /\ keys[old].deactivated = s /\ keys[new].activated = s

\* Fault: the old key keeps its signing right.
activateRotation_OldKeyStaysEnabled(v, old, new, s) ==
  /\ keys[old].owner = v /\ keys[old].state = "ACTIVE"
  /\ keys[old].enabled /\ signing[v] = old
  /\ keys[new].owner = v /\ keys[new].state = "PENDING"
  /\ pendingKey[v] = new
  /\ keys' = [keys EXCEPT ![old].deactivated = s,
                          ![new].state = "ACTIVE", ![new].enabled = TRUE,
                          ![new].activated = s]
  /\ signing' = [signing EXCEPT ![v] = new]
  /\ pendingKey' = [pendingKey EXCEPT ![v] = NoKey]

\* Fault: the new record does not take the activation coordinates.
activateRotation_NoCoordinates(v, old, new, s) ==
  /\ keys[old].owner = v /\ keys[old].state = "ACTIVE"
  /\ keys[old].enabled /\ signing[v] = old
  /\ keys[new].owner = v /\ keys[new].state = "PENDING"
  /\ pendingKey[v] = new
  /\ keys' = [keys EXCEPT ![old].enabled = FALSE, ![old].deactivated = s,
                          ![new].state = "ACTIVE", ![new].enabled = TRUE]
  /\ signing' = [signing EXCEPT ![v] = new]
  /\ pendingKey' = [pendingKey EXCEPT ![v] = NoKey]

activateRotation(v, old, new, s) ==
  IF AlreadyActivated(v, old, new, s)
  THEN UNCHANGED registry
  ELSE /\ keys[old].owner = v /\ keys[old].state = "ACTIVE"
       /\ keys[old].enabled /\ signing[v] = old
       /\ keys[new].owner = v /\ keys[new].state = "PENDING"
       /\ pendingKey[v] = new
       /\ keys' = [keys EXCEPT ![old].enabled = FALSE, ![old].deactivated = s,
                               ![new].state = "ACTIVE", ![new].enabled = TRUE,
                               ![new].activated = s]
       /\ signing' = [signing EXCEPT ![v] = new]
       /\ pendingKey' = [pendingKey EXCEPT ![v] = NoKey]

\* Retiring a RETIRED key again changes nothing.
retireKey(v, k) ==
  /\ keys[k].owner = v
  /\ \/ keys[k].state = "RETIRED"
     \/ /\ keys[k].state = "ACTIVE"
        /\ ~keys[k].enabled
        /\ keys[k].deactivated # NoSlot
  /\ keys' = [keys EXCEPT ![k].state = "RETIRED"]
  /\ UNCHANGED <<signing, pendingKey>>

-----------------------------------------------------------------------------
\* A validator never has two keys with an unrestricted signing right, and the
\* index getCurrentSigningKey() reads names the one it has.
OneSigningKey ==
  \A k \in PublicKeys : keys[k].enabled =>
    keys[k].owner \in Validators /\ signing[keys[k].owner] = k

\* assertConsistent() never throws: the two indexes and the records agree.
RegistryConsistent ==
  \A v \in Validators :
    /\ signing[v] # NoKey =>
         /\ keys[signing[v]].owner = v
         /\ keys[signing[v]].state = "ACTIVE"
         /\ keys[signing[v]].enabled
    /\ pendingKey[v] # NoKey =>
         /\ keys[pendingKey[v]].owner = v
         /\ keys[pendingKey[v]].state = "PENDING"
=============================================================================
