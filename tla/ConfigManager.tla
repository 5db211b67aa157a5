--------------------------- MODULE ConfigManager ---------------------------
(***************************************************************************)
(* The configuration manager of src/src/config: polling a watched file,    *)
(* debounced reloads over the remote, file and default sources, hot        *)
(* updates, and a subscriber of one scalar path.                           *)
(*                                                                         *)
(* A value of the path is a pair: the source it comes from, and which      *)
(* version of it.  Between the answer of the remote store and the end of a *)
(* reload only resolved promises are awaited, so no other callback runs    *)
(* there.  The environment does not set the path, and what it sets is      *)
(* valid: initialize() fails on what is not, before anything runs.         *)
(***************************************************************************)
EXTENDS Naturals

CONSTANTS
  MaxEdits,     \* bound: the last version of the file
  MaxUpdates,   \* bound: hot updates and deletions
  MaxSignals    \* bound: SIGHUPs and reloadConfig() calls

ASSUME ConfigAssumption == MaxEdits \in Nat \ {0} /\ {MaxUpdates, MaxSignals} \subseteq Nat

VARIABLES
  file,          \* [version |-> its mtime, kind |-> what a reload makes of it]
  remote,        \* what the remote store holds: a value for the path, nothing, or values
                 \* that the schema refuses
  lastModified,  \* WatchedFile.lastModified
  reloadTimer,   \* the debounce timer is armed
  reloads,       \* reload() calls in flight: [on, old] by caller
  config,        \* this.config at the path
  fileRead,      \* the file version the last reload read
  subscriber,    \* an onChangePath callback: [on, seen, missable]
  listening,     \* a reloadConfig() call has an 'error' listener installed
  running,       \* the process lives and cleanup() has not run
  updates,       \* hot updates so far
  signals        \* reload requests so far

configVars == <<file, remote, lastModified, reloadTimer, reloads, config, fileRead,
                subscriber, listening, running, updates, signals>>

Callers == {"initialize", "timer"}
Kinds == {"valid", "invalid", "malformed", "missing"}
Remotes == {"absent", "valid", "invalid"}
Absent == <<"absent", 0>>
Sources == {Absent, <<"default", 0>>, <<"remote", 0>>}
             \cup ({"file"} \X (1..MaxEdits)) \cup ({"hot"} \X (1..MaxUpdates))

\* Before initialize().
ConfigInit ==
  /\ file = [version |-> 1, kind |-> "valid"]
  /\ remote \in Remotes
  /\ lastModified = 0
  /\ reloadTimer = FALSE
  /\ config = Absent /\ fileRead = 0
  /\ reloads = [c \in Callers |-> [on |-> FALSE, old |-> Absent]]
  /\ subscriber = [on |-> FALSE, seen |-> Absent, missable |-> FALSE]
  /\ listening = FALSE /\ running = FALSE
  /\ updates = 0 /\ signals = 0

ConfigTypeOK ==
  /\ file \in [version : 1..MaxEdits, kind : Kinds]
  /\ remote \in Remotes
  /\ lastModified \in 0..MaxEdits
  /\ reloads \in [Callers -> [on : BOOLEAN, old : Sources]]
  /\ config \in Sources /\ fileRead \in 0..MaxEdits
  /\ subscriber \in [on : BOOLEAN, seen : Sources, missable : BOOLEAN]
  /\ {reloadTimer, listening, running} \subseteq BOOLEAN
  /\ updates \in 0..MaxUpdates /\ signals \in 0..MaxSignals

-----------------------------------------------------------------------------
(* The sources. *)

\* loadFile: a missing file contributes nothing; a malformed one throws, which
\* load() swallows.  Either way the next source decides.
loadFile ==
  IF file.kind = "valid" THEN <<"file", file.version>> ELSE <<"default", 0>>

\* load: the remote store, when it answers, outranks the file and the defaults.
load(answered) ==
  IF answered /\ remote = "valid" THEN <<"remote", 0>> ELSE loadFile

\* The merged configuration is validated: a source that parses may hold, at some
\* path, a value that is refused.
LoadThrows(answered) == file.kind = "invalid" \/ (answered /\ remote = "invalid")

\* onChangePath compares the value its caller read earlier with the new one.
changed(old, new) == old # new

\* A mutant: callbacks run on reloads only.
notify_OnlyReloads(old, new, others) ==
  LET fires == subscriber.on /\ changed(old, new) /\ new[1] # "hot"
  IN  subscriber' =
        [subscriber EXCEPT
           !.seen = IF fires THEN new ELSE @,
           !.missable = (others # {} /\ config # new) \/ (@ /\ ~fires)]

\* Every change callback runs with the configuration its caller cloned first.
\* `others' are the reloads in flight whose clone the change makes stale.
notify(old, new, others) ==
  LET fires == subscriber.on /\ changed(old, new)
  IN  subscriber' =
        [subscriber EXCEPT
           !.seen = IF fires THEN new ELSE @,
           !.missable = (others # {} /\ config # new) \/ (@ /\ ~fires)]

-----------------------------------------------------------------------------
(* Start, watching, and the debounce timer. *)

\* initialize() loads the local sources, watches the file, adds the remote
\* source and awaits the reload over all of them.
initialize ==
  /\ lastModified = 0
  /\ running' = TRUE
  /\ config' = loadFile /\ fileRead' = file.version
  /\ lastModified' = file.version
  /\ reloads' = [reloads EXCEPT !["initialize"] = [on |-> TRUE, old |-> config']]
  /\ UNCHANGED <<file, remote, reloadTimer, subscriber, listening, updates, signals>>

EditFile ==
  /\ running /\ file.version < MaxEdits
  /\ \E k \in Kinds : file' = [version |-> file.version + 1, kind |-> k]
  /\ UNCHANGED <<remote, lastModified, reloadTimer, reloads, config, fileRead,
                 subscriber, listening, running, updates, signals>>

\* The poll: a file that is gone is skipped, and comes back with a later mtime.
checkFileChanges ==
  /\ running /\ file.kind # "missing" /\ file.version > lastModified
  /\ lastModified' = file.version
  /\ reloadTimer' = TRUE
  /\ UNCHANGED <<file, remote, reloads, config, fileRead, subscriber, listening,
                 running, updates, signals>>

\* SIGHUP, or reloadConfig(), which listens for the outcome.
triggerReload ==
  /\ running /\ signals < MaxSignals /\ signals' = signals + 1
  /\ reloadTimer' = TRUE
  /\ listening' \in {listening, TRUE}
  /\ UNCHANGED <<file, remote, lastModified, reloads, config, fileRead, subscriber,
                 running, updates>>

\* The timer fires: it is armed again while the previous reload is running.
TimerFires ==
  IF reloads["timer"].on
    THEN UNCHANGED <<reloadTimer, reloads>>
    ELSE /\ reloadTimer' = FALSE
         /\ reloads' = [reloads EXCEPT !["timer"] = [on |-> TRUE, old |-> config]]

reloadTimerCallback ==
  /\ running /\ reloadTimer
  /\ TimerFires
  /\ UNCHANGED <<file, remote, lastModified, config, fileRead, subscriber, listening,
                 running, updates, signals>>

-----------------------------------------------------------------------------
(* Reloads. *)

Closed(c) == [reloads EXCEPT ![c] = [on |-> FALSE, old |-> Absent]]

\* The remote store answers, or fails within its timeout, and the reload ends.
reload(c) ==
  /\ running /\ reloads[c].on
  /\ \E answered \in BOOLEAN :
       LET new == load(answered)
           others == {d \in Callers \ {c} : reloads[d].on}
       IN  /\ ~LoadThrows(answered)
           /\ config' = new
           /\ IF c = "initialize" /\ ~subscriber.on
                THEN subscriber' = [on |-> TRUE, seen |-> new, missable |-> others # {}]
                ELSE notify(reloads[c].old, new, others)
  /\ fileRead' = file.version
  /\ reloads' = Closed(c)
  /\ listening' = (listening /\ c = "initialize")
  /\ UNCHANGED <<file, remote, lastModified, reloadTimer, running, updates, signals>>

\* Validation fails.  A timer's reload emits 'error': with no listener the emit
\* throws in an async callback, and the rejection ends the process.  A failed
\* initialize() is the caller's failure to start.
reloadFails(c) ==
  /\ running /\ reloads[c].on /\ \E answered \in BOOLEAN : LoadThrows(answered)
  /\ reloads' = Closed(c) /\ fileRead' = file.version
  /\ running' = (c = "timer" /\ listening)
  /\ listening' = FALSE
  /\ UNCHANGED <<file, remote, lastModified, reloadTimer, config, subscriber, updates,
                 signals>>

-----------------------------------------------------------------------------
(* Hot changes and the end. *)

InFlight == {c \in Callers : reloads[c].on}

\* A rejected value throws and changes nothing.
update ==
  /\ running /\ subscriber.on /\ updates < MaxUpdates /\ updates' = updates + 1
  /\ config' = <<"hot", updates'>>
  /\ notify(config, config', InFlight)
  /\ UNCHANGED <<file, remote, lastModified, reloadTimer, reloads, fileRead, listening,
                 running, signals>>

\* delete(): false for an absent path.
deletePath ==
  /\ running /\ subscriber.on /\ updates < MaxUpdates /\ updates' = updates + 1
  /\ config # Absent /\ config' = Absent
  /\ notify(config, config', InFlight)
  /\ UNCHANGED <<file, remote, lastModified, reloadTimer, reloads, fileRead, listening,
                 running, signals>>

\* An operator sets or removes keys in etcd or Consul; nothing watches them.
RemoteChanges ==
  /\ running /\ remote' \in Remotes \ {remote}
  /\ UNCHANGED <<file, lastModified, reloadTimer, reloads, config, fileRead, subscriber,
                 listening, running, updates, signals>>

cleanup ==
  /\ running /\ running' = FALSE /\ reloadTimer' = FALSE
  /\ UNCHANGED <<file, remote, lastModified, reloads, config, fileRead, subscriber,
                 listening, updates, signals>>

ConfigNext ==
  \/ initialize \/ EditFile \/ checkFileChanges \/ triggerReload \/ reloadTimerCallback
  \/ \E c \in Callers : reload(c) \/ reloadFails(c)
  \/ update \/ deletePath \/ RemoteChanges \/ cleanup

\* Intervals and timers fire, and a fetch has a five-second timeout.
ConfigFairness ==
  /\ WF_configVars(checkFileChanges)
  /\ WF_configVars(reloadTimerCallback)
  /\ \A c \in Callers : WF_configVars(reload(c) \/ reloadFails(c))

-----------------------------------------------------------------------------
(* Properties. *)

\* A subscriber of a path holds the value the manager serves, although every
\* reload compares against a clone taken before it awaited the sources.  The
\* one exception: the value changed while a reload was in flight, and that
\* reload then restored the value it had cloned.
SubscriberCurrent ==
  running /\ subscriber.on /\ subscriber.seen # config => subscriber.missable

\* A file that is changed to something valid is read by a reload, whatever reload was
\* already running when the change was noticed.  (That reload may fail all the same:
\* on values of the remote store that are refused; it is then not retried.)
EditIsRead ==
  \A v \in 1..MaxEdits :
    file = [version |-> v, kind |-> "valid"]
      ~> (fileRead = v \/ file.version # v \/ ~running)
=============================================================================
