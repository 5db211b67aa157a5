---------------------------- MODULE DriftAuditor ----------------------------
(***************************************************************************)
(* src/config-drift/: the auditor that compares the running configuration  *)
(* with the committed baseline on a timer, its bounded history with the    *)
(* JSON-lines file behind it, and the alert on a critical drift; and its   *)
(* start and stop by index.js.                                             *)
(*                                                                         *)
(* A snapshot is its number; a configuration is flat, from keys to values. *)
(* The alert policy is enabled and the file configured.                    *)
(***************************************************************************)
EXTENDS Integers, Sequences

CONSTANTS
  DriftKeys,
  committedKeys,  \* keys the baseline has
  criticalKeys,   \* keys under one of the policy's prefixes
  maxInMemory,
  MaxSnapshots    \* bound

ASSUME DriftAssumption ==
  /\ committedKeys \cup criticalKeys \subseteq DriftKeys
  /\ maxInMemory \in Nat \ {0} /\ MaxSnapshots \in Nat

VARIABLES
  auditor,        \* "new", "on", "stopped", or "down": init() failed
  runtimeConfig,           \* the running configuration
  running,
  alerting,       \* number of the snapshot an alert is sent for, 0 when none
  snapshots,      \* number of snapshots taken
  inMemory,       \* numbers of the snapshots in the history
  jsonl           \* numbers of the snapshots in the file

driftVars == <<auditor, runtimeConfig, running, alerting, snapshots, inMemory, jsonl>>

baseline == [k \in DriftKeys |-> IF k \in committedKeys THEN "committed" ELSE "absent"]
Numbers == 1..MaxSnapshots

DriftTypeOK ==
  /\ auditor \in {"new", "on", "stopped", "down"} /\ running \in BOOLEAN
  /\ runtimeConfig \in [DriftKeys -> {"committed", "edited", "absent"}]
  /\ alerting \in 0..MaxSnapshots /\ snapshots \in 0..MaxSnapshots
  /\ \A s \in {inMemory, jsonl} : \A i \in 1..Len(s) : s[i] \in Numbers

DriftInit ==
  /\ auditor = "new" /\ running = FALSE /\ runtimeConfig = baseline
  /\ alerting = 0 /\ snapshots = 0 /\ inMemory = <<>> /\ jsonl = <<>>

-----------------------------------------------------------------------------
LiveConfigChanges ==
  /\ \E k \in DriftKeys : \E v \in {"committed", "edited", "absent"} \ {runtimeConfig[k]} :
       runtimeConfig' = [runtimeConfig EXCEPT ![k] = v]
  /\ UNCHANGED <<auditor, running, alerting, snapshots, inMemory, jsonl>>

\* diffFlattenedConfigs() and pickCriticalPrefix(): the keys that were added, removed
\* or changed, and whether the policy cares for one of them.
findings == {k \in DriftKeys : runtimeConfig[k] # baseline[k]}
critical == findings \cap criticalKeys # {}

\* The shift() loops.
trimmed(s) == IF Len(s) > maxInMemory THEN SubSeq(s, Len(s) - maxInMemory + 1, Len(s)) ELSE s

\* runOnce() in one go up to the alert; the immediate run of start() and the timer's
\* are alike.  An error of the append is swallowed, and no alert is sent; the
\* snapshot stays in memory.
runOnce ==
  /\ snapshots < MaxSnapshots
  /\ snapshots' = snapshots + 1
  /\ inMemory' = trimmed(Append(inMemory, snapshots'))
  /\ \/ /\ jsonl' = Append(jsonl, snapshots')
        /\ running' = critical
        /\ alerting' = IF critical THEN snapshots' ELSE 0
     \/ UNCHANGED <<jsonl, running, alerting>>

\* init() reads the baseline; when it throws, nobody catches it and the process ends.
init ==
  /\ auditor = "new"
  /\ \/ auditor' = "on" /\ runOnce
     \/ auditor' = "down" /\ UNCHANGED <<running, alerting, snapshots, inMemory, jsonl>>
  /\ UNCHANGED runtimeConfig

\* The timer; a run under way is not overtaken.
Timer ==
  /\ auditor = "on" /\ ~running /\ runOnce
  /\ UNCHANGED <<auditor, runtimeConfig>>

\* The alert is accepted, refused, or aborted after five seconds; finally the flag.
triggerAlert ==
  /\ alerting # 0
  /\ alerting' = 0 /\ running' = FALSE
  /\ UNCHANGED <<auditor, runtimeConfig, snapshots, inMemory, jsonl>>

\* The handler of SIGINT and SIGTERM; an alert under way goes on.
stopAuditor ==
  /\ auditor = "on"
  /\ auditor' = "stopped"
  /\ UNCHANGED <<runtimeConfig, running, alerting, snapshots, inMemory, jsonl>>

\* A new process reads the history from the file; an alert under way is lost.
RestartAuditor ==
  /\ auditor \in {"stopped", "down", "on"}
  /\ auditor' = "new" /\ running' = FALSE /\ alerting' = 0
  /\ inMemory' = trimmed(jsonl)
  /\ UNCHANGED <<runtimeConfig, snapshots, jsonl>>

DriftNext == LiveConfigChanges \/ init \/ Timer \/ triggerAlert \/ stopAuditor \/ RestartAuditor

-----------------------------------------------------------------------------
Rising(s) == \A i \in 1..(Len(s) - 1) : s[i] < s[i + 1]
Holds(s, n) == \E i \in 1..Len(s) : s[i] = n

\* Across failed appends, restarts and slow alerts, the history is bounded, in order,
\* and has no hole the file could fill.  (Nothing is said of the alerts: a critical
\* snapshot whose append failed is never alerted.)
HistoryIsTail ==
  /\ Rising(inMemory) /\ Rising(jsonl) /\ Len(inMemory) <= maxInMemory
  /\ \A n \in Numbers : Holds(jsonl, n) /\ ~Holds(inMemory, n) =>
       Len(inMemory) = maxInMemory /\ n < inMemory[1]
=============================================================================
