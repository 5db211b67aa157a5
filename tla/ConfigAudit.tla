----------------------------- MODULE ConfigAudit -----------------------------
(***************************************************************************)
(* Baselines, drift detection, alerts and rollback of src/src/audit: the   *)
(* BaselineManager's transactions, the detection each change starts, the   *)
(* AlertDispatcher's idempotent delivery, and the ConfigAuditService's     *)
(* rollback, which awaits an audit write after every key.                  *)
(***************************************************************************)
EXTENDS Naturals, FiniteSets, Functions

CONSTANTS
  ConfigKeys,    \* keys of the configuration, one level
  CriticalKeys,  \* those classify() calls critical
  Captures,      \* capture() calls, and the rows they insert
  MaxLiveChanges \* bound: changes of the live configuration

ASSUME ConfigAuditAssumption == CriticalKeys \subseteq ConfigKeys /\ MaxLiveChanges \in Nat

\* "absent": no such key.  "undefined": a key whose value rollback took away.
LiveValues == {"a", "b", "absent", "undefined"}
Snapshots == [ConfigKeys -> LiveValues]
Empty == [k \in ConfigKeys |-> "absent"]

VARIABLES
  live,        \* configManager.get()
  baselines,   \* committed rows of config_baselines: status and snapshot
  capture,     \* each capture(): pc, snapshot, the rows its UPDATE matched
  detection,   \* the detection in flight: [pc, config, report]
  alerts,      \* alerts by id, "sent" to a channel or stored as "failed"
  rollbackRun, \* the rollback in flight: [pc, report, todo, skipped]
  disturbed,   \* the live configuration changed since the rollback's report
  liveChanges

configAuditVars == <<live, baselines, capture, detection, alerts, rollbackRun, disturbed,
                     liveChanges>>

NoReport == [ids |-> {}, baseline |-> Empty, keys |-> {}]

ConfigAuditInit ==
  /\ live = [k \in ConfigKeys |-> "a"]
  /\ baselines = [c \in Captures |-> [status |-> "none", snapshot |-> Empty]]
  /\ capture = [c \in Captures |-> [pc |-> "idle", snapshot |-> Empty, matched |-> {}]]
  /\ detection = [pc |-> "idle", config |-> Empty, report |-> NoReport]
  /\ alerts = {}
  /\ rollbackRun = [pc |-> "idle", report |-> NoReport, todo |-> {}, skipped |-> {}]
  /\ disturbed = FALSE /\ liveChanges = 0

Reports == [ids : SUBSET Captures, baseline : Snapshots, keys : SUBSET ConfigKeys]

ConfigAuditTypeOK ==
  /\ live \in Snapshots
  /\ baselines \in [Captures -> [status : {"none", "active", "superseded", "expired"},
                                 snapshot : Snapshots]]
  /\ capture \in [Captures -> [pc : {"idle", "waiting", "updated", "inserted", "done", "failed"},
                               snapshot : Snapshots, matched : SUBSET Captures]]
  /\ detection \in [pc : {"idle", "loading", "alerting"}, config : Snapshots, report : Reports]
  /\ alerts \subseteq Captures \X {"sent", "failed"}
  /\ rollbackRun \in [pc : {"idle", "running", "done"}, report : Reports,
                   todo : SUBSET ConfigKeys, skipped : SUBSET ConfigKeys]
  /\ disturbed \in BOOLEAN /\ liveChanges \in 0..MaxLiveChanges

-----------------------------------------------------------------------------
(* BaselineManager.capture: one transaction. *)

Active == {c \in Captures : baselines[c].status = "active"}
Open == {c \in Captures : capture[c].pc \in {"updated", "inserted"}}

\* The configuration is serialised; UPDATE ... WHERE status = 'active' sees the rows
\* that are active when it begins.
captureUpdate(c) ==
  /\ capture[c].pc = "idle"
  /\ capture' = [capture EXCEPT ![c] = [pc |-> "waiting", snapshot |-> live,
                                        matched |-> Active]]
  /\ UNCHANGED <<live, baselines, detection, alerts, rollbackRun, disturbed, liveChanges>>

\* It waits for the transaction that holds one of them, and then takes it only if it
\* is active still: after a commit of the other it has matched no row.
captureLock(c) ==
  /\ capture[c].pc = "waiting"
  /\ \A d \in Open : capture[d].matched \cap capture[c].matched = {}
  /\ capture' = [capture EXCEPT ![c].pc = "updated", ![c].matched = @ \cap Active]
  /\ UNCHANGED <<live, baselines, detection, alerts, rollbackRun, disturbed, liveChanges>>

\* The partial unique index of migration 009 allows one active row.
single_active(c) == Active \subseteq capture[c].matched

\* INSERT waits for another uncommitted active row; a committed one it did not
\* supersede is a duplicate, and the transaction rolls back.  So does any error.
captureInsert(c) ==
  /\ capture[c].pc = "updated"
  /\ \A d \in Open \ {c} : capture[d].pc # "inserted"
  /\ \/ single_active(c) /\ capture' = [capture EXCEPT ![c].pc = "inserted"]
     \/ capture' = [capture EXCEPT ![c].pc = "failed", ![c].matched = {}]
  /\ UNCHANGED <<live, baselines, detection, alerts, rollbackRun, disturbed, liveChanges>>

captureCommit(c) ==
  /\ capture[c].pc = "inserted"
  /\ \/ /\ baselines' = [d \in Captures |->
             IF d = c THEN [status |-> "active", snapshot |-> capture[c].snapshot]
             ELSE IF d \in capture[c].matched THEN [baselines[d] EXCEPT !.status = "superseded"]
             ELSE baselines[d]]
        /\ capture' = [capture EXCEPT ![c].pc = "done", ![c].matched = {}]
     \/ /\ capture' = [capture EXCEPT ![c].pc = "failed", ![c].matched = {}]
        /\ UNCHANGED baselines
  /\ UNCHANGED <<live, detection, alerts, rollbackRun, disturbed, liveChanges>>

expireOldBaselines ==
  /\ \E c \in Captures : baselines[c].status = "superseded"
  /\ baselines' = [c \in Captures |->
       IF baselines[c].status = "superseded"
         THEN [baselines[c] EXCEPT !.status = "expired"] ELSE baselines[c]]
  /\ UNCHANGED <<live, capture, detection, alerts, rollbackRun, disturbed, liveChanges>>

-----------------------------------------------------------------------------
(* A change, and the drift detection it starts. *)

\* A mutant: keys that were deleted from the live configuration are missed.
deepDiff_IgnoresDeleted(base, config) ==
  {k \in ConfigKeys : base[k] # config[k] /\ config[k] # "absent"}

\* deepDiff: a key only one side has, or one whose values serialise differently.
deepDiff(base, config) == {k \in ConfigKeys : base[k] # config[k]}

\* The 'updated' listener starts a detection; the model follows one at a time.
updated ==
  IF detection.pc = "idle"
    THEN detection' \in {detection, [pc |-> "loading", config |-> live', report |-> NoReport]}
    ELSE UNCHANGED detection

changeLive ==
  /\ liveChanges < MaxLiveChanges /\ liveChanges' = liveChanges + 1
  /\ \E k \in ConfigKeys, v \in {"a", "b", "absent"} :
       v # live[k] /\ live' = [live EXCEPT ![k] = v]
  /\ updated
  /\ disturbed' = TRUE
  /\ UNCHANGED <<baselines, capture, alerts, rollbackRun>>

\* getActive, then the diff against the configuration of the event; the five
\* seconds of detect() only stop the waiting.
_detectInternal ==
  /\ detection.pc = "loading"
  /\ \E c \in Active :
       LET base == baselines[c].snapshot
           keys == deepDiff(base, detection.config)
       IN  detection' = [detection EXCEPT
             !.pc = IF keys \cap CriticalKeys # {} THEN "alerting" ELSE "idle",
             !.report = [ids |-> {c}, baseline |-> base, keys |-> keys]]
  /\ UNCHANGED <<live, baselines, capture, alerts, rollbackRun, disturbed, liveChanges>>

\* No active baseline, or it cannot be loaded: detection is skipped.
detectSkipped ==
  /\ detection.pc = "loading"
  /\ detection' = [detection EXCEPT !.pc = "idle", !.report = NoReport]
  /\ UNCHANGED <<live, baselines, capture, alerts, rollbackRun, disturbed, liveChanges>>

\* The alert's id is the baseline and the second: a repeat within it reaches
\* no channel again and conflicts in the table.  If every channel fails the
\* alert is stored, unless that fails too; canary mode sends nothing.
_dispatchAsync ==
  /\ detection.pc = "alerting"
  /\ alerts' \in {alerts} \cup {alerts \cup (detection.report.ids \X {how}) :
                              how \in {"sent", "failed"}}
  /\ detection' = [detection EXCEPT !.pc = "idle"]
  /\ UNCHANGED <<live, baselines, capture, rollbackRun, disturbed, liveChanges>>

-----------------------------------------------------------------------------
(* ConfigAuditService.rollback *)

\* An operator rolls back with a report taken from the live configuration.
rollbackStart ==
  /\ rollbackRun.pc = "idle" /\ detection.report.keys # {}
  /\ rollbackRun' = [pc |-> "running", report |-> detection.report,
                  todo |-> detection.report.keys, skipped |-> {}]
  /\ disturbed' = (detection.config # live)
  /\ UNCHANGED <<live, baselines, capture, detection, alerts, liveChanges>>

\* update(path, baselineValue): a key the baseline lacks is set to undefined.
restoredValue(k) ==
  IF rollbackRun.report.baseline[k] = "absent" THEN "undefined" ELSE rollbackRun.report.baseline[k]

\* One key: the update is validated, then the audit write is awaited.  A
\* refused update, or a write that throws after the update, reports it skipped.
rollbackKey ==
  /\ rollbackRun.pc = "running"
  /\ \E k \in rollbackRun.todo :
       \/ /\ live' = [live EXCEPT ![k] = restoredValue(k)]
          /\ \E threw \in BOOLEAN :
               rollbackRun' = [rollbackRun EXCEPT !.todo = @ \ {k},
                              !.skipped = IF threw THEN @ \cup {k} ELSE @]
       \/ /\ rollbackRun' = [rollbackRun EXCEPT !.todo = @ \ {k}, !.skipped = @ \cup {k}]
          /\ UNCHANGED live
  /\ updated
  /\ UNCHANGED <<baselines, capture, alerts, disturbed, liveChanges>>

rollbackComplete ==
  /\ rollbackRun.pc = "running" /\ rollbackRun.todo = {}
  /\ rollbackRun' = [rollbackRun EXCEPT !.pc = "done"]
  /\ UNCHANGED <<live, baselines, capture, detection, alerts, disturbed, liveChanges>>

ConfigAuditNext ==
  \/ \E c \in Captures : captureUpdate(c) \/ captureLock(c) \/ captureInsert(c) \/ captureCommit(c)
  \/ expireOldBaselines \/ changeLive \/ _detectInternal \/ detectSkipped \/ _dispatchAsync
  \/ rollbackStart \/ rollbackKey \/ rollbackComplete

-----------------------------------------------------------------------------
(* Properties. *)

\* Captures may overlap: there is never a second active baseline, and after the
\* first capture there is never none, so no detection is skipped for the lack
\* of one while another capture replaces it.
OneActiveBaseline ==
  /\ Cardinality(Active) <= 1
  /\ (\E c \in Captures : capture[c].pc = "done") => Active # {}

\* A rollback that skipped nothing, of a report nobody overtook, leaves no
\* drift but the keys the baseline does not have: those stay, undefined.
RollbackReverts ==
  rollbackRun.pc = "done" /\ rollbackRun.skipped = {} /\ ~disturbed =>
    \A k \in ConfigKeys :
      \/ live[k] = rollbackRun.report.baseline[k]
      \/ live[k] = "undefined" /\ rollbackRun.report.baseline[k] = "absent"
=============================================================================
