-------------------------- MODULE JobSchedulerProofs --------------------------
(***************************************************************************)
(* Proofs about JobScheduler for any sets of jobs and workers, any limits  *)
(* and any number of overlapping polls and crashes.                        *)
(***************************************************************************)
EXTENDS MCJobScheduler, FiniteSetTheorems, TLAPS

\* A call that is not executing a job holds none.
IdleHoldsNothing ==
  \A e \in Executions : exec[e].pc \notin Live => exec[e].job = {}

\* The job of an execution has its lease held, is settled, or its lease lapsed
\* under an execution.
HeldOrOverrun ==
  \A e \in Executions, j \in Jobs : exec[e].job = {j} =>
    \/ j \in overrun
    \/ job[j].lease = "held"
    \/ job[j].status \in {"completed", "failed", "purged"}

IndInv == JobTypeOK /\ IdleHoldsNothing /\ HeldOrOverrun /\ ActiveCounted /\ OneRunner
-----------------------------------------------------------------------------
(***************************************************************************)
(* The slots of a worker                                                   *)
(***************************************************************************)
ExecRecord == [pc : {"idle", "claiming"} \cup Live, job : SUBSET Jobs,
               retry : Nat, renewing : BOOLEAN]

Slots(w) == {e \in Executions : e[1] = w /\ exec[e].pc \in Live}

\* The calls of one worker are finitely many, so the slots taken are a number.
LEMMA SlotsFinite ==
  ASSUME NEW w \in JobWorkers
  PROVE  IsFiniteSet(Slots(w)) /\ IsFiniteSet(Slots(w)')
<1>1. IsFiniteSet({w} \X (1..Polls))
  <2>1. IsFiniteSet({w})
    BY FS_Singleton, Zenon
  <2>2. IsFiniteSet(1..Polls)
    BY FS_Interval, SchedulerAssumption
  <2> QED BY <2>1, <2>2, FS_Product
<1>2. Slots(w) \subseteq {w} \X (1..Polls) /\ Slots(w)' \subseteq {w} \X (1..Polls)
  BY DEF Slots, Executions
<1> QED BY <1>1, <1>2, FS_Subset

\* A step of one call changes the counter of its worker exactly when it takes or
\* gives back a slot.
LEMMA SlotStep ==
  ASSUME JobTypeOK, ActiveCounted, NEW e \in Executions, NEW r \in ExecRecord,
         exec' = [exec EXCEPT ![e] = r],
         \/ /\ r.pc \in Live <=> exec[e].pc \in Live
            /\ activeJobs' = activeJobs
         \/ /\ r.pc \in Live /\ exec[e].pc \notin Live
            /\ activeJobs' = [activeJobs EXCEPT ![e[1]] = @ + 1]
         \/ /\ r.pc \notin Live /\ exec[e].pc \in Live
            /\ activeJobs' = [activeJobs EXCEPT ![e[1]] = IF @ > 0 THEN @ - 1 ELSE 0]
  PROVE  ActiveCounted' /\ activeJobs' \in [JobWorkers -> Nat]
<1>1. /\ e[1] \in JobWorkers /\ activeJobs \in [JobWorkers -> Nat]
      /\ exec \in [Executions -> ExecRecord]
  BY DEF JobTypeOK, Executions, ExecRecord
<1>2. exec'[e] = r /\ \A f \in Executions : f # e => exec'[f] = exec[f]
  BY <1>1
<1>3. \A w \in JobWorkers : activeJobs[w] = Cardinality(Slots(w))
  BY DEF ActiveCounted, Slots
<1>4. \A w \in JobWorkers : w # e[1] => Slots(w)' = Slots(w)
  BY <1>2 DEF Slots
<1> SUFFICES /\ activeJobs' \in [JobWorkers -> Nat]
             /\ \A w \in JobWorkers : activeJobs'[w] = Cardinality(Slots(w)')
  BY DEF ActiveCounted, Slots
<1>5. CASE (r.pc \in Live <=> exec[e].pc \in Live) /\ activeJobs' = activeJobs
  <2>1. Slots(e[1])' = Slots(e[1])
    BY <1>2, <1>5 DEF Slots
  <2> QED BY <1>1, <1>3, <1>4, <1>5, <2>1
<1>6. CASE /\ r.pc \in Live /\ exec[e].pc \notin Live
           /\ activeJobs' = [activeJobs EXCEPT ![e[1]] = @ + 1]
  <2>1. Slots(e[1])' = Slots(e[1]) \cup {e} /\ e \notin Slots(e[1])
    BY <1>2, <1>6 DEF Slots
  <2>2. Cardinality(Slots(e[1])') = Cardinality(Slots(e[1])) + 1
    BY <1>1, <2>1, SlotsFinite, FS_AddElement
  <2> QED BY <1>1, <1>3, <1>4, <1>6, <2>2
<1>7. CASE /\ r.pc \notin Live /\ exec[e].pc \in Live
           /\ activeJobs' = [activeJobs EXCEPT ![e[1]] = IF @ > 0 THEN @ - 1 ELSE 0]
  <2>1. Slots(e[1])' = Slots(e[1]) \ {e} /\ e \in Slots(e[1])
    BY <1>2, <1>7 DEF Slots
  <2>2. Cardinality(Slots(e[1])') = Cardinality(Slots(e[1])) - 1
    <3>1. IsFiniteSet(Slots(e[1]))
      BY <1>1, SlotsFinite
    <3>2. Cardinality(Slots(e[1]) \ {e}) = Cardinality(Slots(e[1])) - 1
      BY <2>1, <3>1, FS_RemoveElement
    <3> QED BY <2>1, <3>2
  <2>3. Cardinality(Slots(e[1])') \in Nat /\ Cardinality(Slots(e[1])) \in Nat
    BY <1>1, SlotsFinite, FS_CardinalityType
  <2> QED BY <1>1, <1>3, <1>4, <1>7, <2>2, <2>3
<1> QED BY <1>5, <1>6, <1>7

-----------------------------------------------------------------------------
(***************************************************************************)
(* Steps of the table and steps of a call                                  *)
(***************************************************************************)
Settled == {"completed", "failed", "purged"}

\* status, locked_by and locked_until of a row go together.
RowOK(r) ==
  /\ r \in JobRow
  /\ r.status = "running" <=> r.by # NoWorker
  /\ r.status = "running" <=> r.lease # "none"

\* A step of the table alone keeps the invariant if every row that an execution
\* holds stays held, settles, or is counted as overrun.
LEMMA TableStep ==
  ASSUME IndInv, job' \in [Jobs -> JobRow], \A j \in Jobs : RowOK(job'[j]),
         UNCHANGED <<exec, running, activeJobs, dlq, crashes>>,
         overrun \subseteq overrun', overrun' \subseteq Jobs,
         \A j \in Jobs : (\E e \in Executions : exec[e].job = {j}) =>
           \/ j \in overrun'
           \/ job'[j].lease = "held"
           \/ job'[j].status \in Settled
  PROVE  IndInv'
<1>1. JobTypeOK'
  BY DEF IndInv, JobTypeOK, RowOK
<1>2. IdleHoldsNothing' /\ ActiveCounted'
  BY DEF IndInv, IdleHoldsNothing, ActiveCounted
<1>3. HeldOrOverrun'
  BY DEF HeldOrOverrun, Settled
<1>4. OneRunner'
  BY DEF IndInv, OneRunner
<1> QED BY <1>1, <1>2, <1>3, <1>4 DEF IndInv

\* What a step of call e that leaves it as r does: rows stay as they are, get held or
\* settle; a job is taken only by claiming it.
RowsChange(e, r) ==
  /\ job' \in [Jobs -> JobRow] /\ \A j \in Jobs : RowOK(job'[j])
  /\ \A j \in Jobs : \/ job'[j] = job[j]
                     \/ job'[j].lease = "held"
                     \/ job'[j].status \in Settled
  /\ \A j \in Jobs : r.job = {j} => \/ exec[e].job = {j}
                                    \/ Claimable(j) /\ job'[j].lease = "held"

\* The counter of the worker follows the slots taken and given back.
CounterChange(e, r) ==
  \/ /\ r.pc \in Live <=> exec[e].pc \in Live
     /\ activeJobs' = activeJobs
  \/ /\ r.pc \in Live /\ exec[e].pc \notin Live
     /\ activeJobs' = [activeJobs EXCEPT ![e[1]] = @ + 1]
  \/ /\ r.pc \notin Live /\ exec[e].pc \in Live
     /\ activeJobs' = [activeJobs EXCEPT ![e[1]] = IF @ > 0 THEN @ - 1 ELSE 0]

CallEffect(e, r) ==
  /\ exec' = [exec EXCEPT ![e] = r] /\ r \in ExecRecord
  /\ r.pc \in Live => \E j \in Jobs : r.job = {j}
  /\ r.pc \notin Live => r.job = {}
  /\ RowsChange(e, r)
  /\ CounterChange(e, r)
  /\ UNCHANGED <<running, overrun, crashes>> /\ dlq' \subseteq Jobs

\* A step with such an effect keeps the invariant.
LEMMA CallStep ==
  ASSUME IndInv, NEW e \in Executions, NEW r, CallEffect(e, r)
  PROVE  IndInv'
<1> USE DEF CallEffect, RowsChange
<1>1. exec \in [Executions -> ExecRecord] /\ exec' \in [Executions -> ExecRecord]
  BY DEF IndInv, JobTypeOK, ExecRecord
<1>2. exec'[e] = r /\ \A f \in Executions : f # e => exec'[f] = exec[f]
  BY <1>1
<1>3. ActiveCounted' /\ activeJobs' \in [JobWorkers -> Nat]
  BY SlotStep DEF IndInv, CounterChange
<1>4. JobTypeOK'
  <2>1. \A f \in Executions : exec'[f].pc \in Live <=> \E j \in Jobs : exec'[f].job = {j}
    BY <1>2 DEF IndInv, JobTypeOK
  <2> QED BY <1>1, <1>3, <2>1 DEF IndInv, JobTypeOK, RowOK, ExecRecord
<1>5. IdleHoldsNothing'
  BY <1>2 DEF IndInv, IdleHoldsNothing
<1>6. HeldOrOverrun'
  BY <1>2 DEF IndInv, HeldOrOverrun, Settled
<1>7. OneRunner'
  <2> SUFFICES ASSUME NEW f \in Executions, NEW g \in Executions, f # g,
                      NEW j \in exec'[f].job, j \in exec'[g].job
               PROVE  j \in overrun
    BY DEF OneRunner
  <2>1. j \in Jobs
    BY <1>1 DEF ExecRecord
  <2>2. \A h \in Executions : j \in exec[h].job => exec[h].job = {j}
    BY <2>1 DEF IndInv, JobTypeOK, IdleHoldsNothing
  <2>3. j \in r.job => r.job = {j}
    OBVIOUS
  <2>4. \A h \in Executions : exec[h].job = {j} /\ Claimable(j) => j \in overrun
    BY <2>1 DEF IndInv, HeldOrOverrun, Claimable
  <2>5. CASE f # e /\ g # e
    BY <1>2, <2>5 DEF IndInv, OneRunner
  <2>6. CASE f = e
    BY <1>2, <2>1, <2>2, <2>3, <2>4, <2>6 DEF IndInv, OneRunner
  <2>7. CASE g = e
    BY <1>2, <2>1, <2>2, <2>3, <2>4, <2>7 DEF IndInv, OneRunner
  <2> QED BY <2>5, <2>6, <2>7
<1> QED BY <1>3, <1>4, <1>5, <1>6, <1>7 DEF IndInv
-----------------------------------------------------------------------------
(***************************************************************************)
(* Every step keeps the invariant                                          *)
(***************************************************************************)
\* The tables start empty and nobody runs.
LEMMA InitOK == JobInit => IndInv
<1> SUFFICES ASSUME JobInit PROVE IndInv
  OBVIOUS
<1>1. /\ \A e \in Executions : exec[e] = NoExec
      /\ \A j \in Jobs : job[j] = [status |-> "absent", lease |-> "none",
                                   by |-> NoWorker, retry |-> 0, due |-> FALSE]
  BY DEF JobInit
<1>2. JobTypeOK
  <2>1. NoExec \in ExecRecord /\ NoExec.pc \notin Live /\ NoExec.job = {}
    BY DEF NoExec, ExecRecord, Live
  <2>2. exec \in [Executions -> ExecRecord]
    BY <2>1 DEF JobInit
  <2>3. job \in [Jobs -> JobRow]
    BY DEF JobInit, JobRow, Status
  <2>4. \A e \in Executions : exec[e].pc \notin Live /\ \A j \in Jobs : exec[e].job # {j}
    BY <1>1, <2>1
  <2>5. \A j \in Jobs : /\ job[j].status # "running" /\ job[j].by = NoWorker
                        /\ job[j].lease = "none"
    BY <1>1
  <2>6. /\ running \in [JobWorkers -> BOOLEAN] /\ activeJobs \in [JobWorkers -> Nat]
        /\ dlq \subseteq Jobs /\ overrun \subseteq Jobs /\ crashes \in 0..MaxCrashes
    BY SchedulerAssumption DEF JobInit
  <2> QED BY <2>2, <2>3, <2>4, <2>5, <2>6 DEF JobTypeOK, ExecRecord
<1>3. IdleHoldsNothing /\ HeldOrOverrun /\ OneRunner
  BY <1>1 DEF IdleHoldsNothing, HeldOrOverrun, OneRunner, NoExec, Live
<1>4. ActiveCounted
  <2> SUFFICES ASSUME NEW w \in JobWorkers PROVE activeJobs[w] = Cardinality(Slots(w))
    BY DEF ActiveCounted, Slots
  <2>1. Slots(w) = {}
    BY <1>1 DEF Slots, NoExec, Live
  <2> QED BY <2>1, FS_EmptySet DEF JobInit
<1> QED BY <1>2, <1>3, <1>4 DEF IndInv

\* scheduleJob(), run_at being reached, a lease that lapses, and the purge.
LEMMA TableSteps ==
  ASSUME IndInv,
         \/ \E j \in Jobs : scheduleJob(j) \/ Due(j) \/ LeaseLapses(j)
         \/ purgeCompleted
  PROVE  IndInv'
<1> USE DEF Status
<1>1. /\ job \in [Jobs -> JobRow] /\ overrun \subseteq Jobs
      /\ \A j \in Jobs : RowOK(job[j])
      /\ \A e \in Executions, j \in Jobs : exec[e].job = {j} =>
           j \in overrun \/ job[j].lease = "held" \/ job[j].status \in Settled
  BY DEF IndInv, JobTypeOK, RowOK, HeldOrOverrun, Settled
<1>2. ASSUME NEW j \in Jobs, scheduleJob(j) PROVE IndInv'
  <2>1. RowOK([job[j] EXCEPT !.status = "pending"])
    BY <1>1, <1>2 DEF RowOK, JobRow, scheduleJob
  <2> QED BY <1>1, <1>2, <2>1, TableStep DEF scheduleJob, RowOK, Settled
<1>3. ASSUME NEW j \in Jobs, Due(j) PROVE IndInv'
  <2>1. RowOK([job[j] EXCEPT !.due = TRUE])
    BY <1>1 DEF RowOK, JobRow
  <2> QED BY <1>1, <1>3, <2>1, TableStep DEF Due, RowOK, JobRow, Settled
<1>4. ASSUME NEW j \in Jobs, LeaseLapses(j) PROVE IndInv'
  <2>1. RowOK([job[j] EXCEPT !.lease = "lapsed"])
    BY <1>1, <1>4 DEF RowOK, JobRow, LeaseLapses
  <2> QED BY <1>1, <1>4, <2>1, TableStep DEF LeaseLapses, RowOK, Settled
<1>5. ASSUME purgeCompleted PROVE IndInv'
  <2>1. PICK S \in SUBSET {j \in Jobs : job[j].status \in {"completed", "failed"}} :
          job' = [j \in Jobs |-> IF j \in S THEN [job[j] EXCEPT !.status = "purged"]
                                 ELSE job[j]]
    BY <1>5 DEF purgeCompleted
  <2>2. \A j \in S : RowOK([job[j] EXCEPT !.status = "purged"])
    BY <1>1 DEF RowOK, JobRow
  <2>3. \A j \in Jobs : RowOK(job'[j])
    BY <1>1, <2>1, <2>2
  <2>4. job' \in [Jobs -> JobRow]
    BY <2>1, <2>3 DEF RowOK
  <2>5. \A j \in Jobs : job'[j] = job[j] \/ job'[j].status \in Settled
    BY <1>1, <2>1 DEF Settled, JobRow
  <2> QED BY <1>1, <1>5, <2>3, <2>4, <2>5, TableStep DEF purgeCompleted
<1> QED BY <1>2, <1>3, <1>4, <1>5
\* start(), stop() and the crash of a process, which takes its calls and its
\* counter with it.
LEMMA WorkerSteps ==
  ASSUME IndInv, NEW w \in JobWorkers, start(w) \/ stop(w) \/ WorkerCrash(w)
  PROVE  IndInv'
<1>1. CASE start(w) \/ stop(w)
  <2>1. running' \in [JobWorkers -> BOOLEAN]
    BY <1>1 DEF IndInv, JobTypeOK, start, stop
  <2>2. UNCHANGED <<job, exec, activeJobs, dlq, overrun, crashes>>
    BY <1>1 DEF start, stop
  <2> QED BY <2>1, <2>2 DEF IndInv, JobTypeOK, IdleHoldsNothing, HeldOrOverrun,
                            ActiveCounted, OneRunner
<1>2. CASE WorkerCrash(w)
  <2>1. NoExec \in ExecRecord /\ NoExec.pc \notin Live /\ NoExec.job = {}
    BY DEF NoExec, ExecRecord, Live
  <2>2. exec \in [Executions -> ExecRecord]
    BY DEF IndInv, JobTypeOK, ExecRecord
  <2>3. /\ exec' \in [Executions -> ExecRecord]
        /\ \A e \in Executions : exec'[e] = NoExec \/ exec'[e] = exec[e]
        /\ \A e \in Executions : IF e[1] = w THEN exec'[e] = NoExec ELSE exec'[e] = exec[e]
    BY <1>2, <2>1, <2>2 DEF WorkerCrash
  <2>4. activeJobs' \in [JobWorkers -> Nat] /\ activeJobs'[w] = 0
        /\ \A v \in JobWorkers : v # w => activeJobs'[v] = activeJobs[v]
    BY <1>2 DEF WorkerCrash, IndInv, JobTypeOK
  <2>5. JobTypeOK'
    <3>1. \A e \in Executions : exec'[e].pc \in Live <=> \E j \in Jobs : exec'[e].job = {j}
      <4> SUFFICES ASSUME NEW e \in Executions
                   PROVE  exec'[e].pc \in Live <=> \E j \in Jobs : exec'[e].job = {j}
        OBVIOUS
      <4>1. CASE exec'[e] = NoExec
        BY <2>1, <4>1
      <4>2. CASE exec'[e] = exec[e]
        BY <4>2 DEF IndInv, JobTypeOK
      <4> QED BY <2>3, <4>1, <4>2
    <3>2. /\ running' \in [JobWorkers -> BOOLEAN]
          /\ crashes' \in 0..MaxCrashes
      <4>1. running' \in [JobWorkers -> BOOLEAN]
        BY <1>2 DEF WorkerCrash, IndInv, JobTypeOK
      <4>2. crashes' \in 0..MaxCrashes
        BY <1>2, SchedulerAssumption DEF WorkerCrash, IndInv, JobTypeOK
      <4> QED BY <4>1, <4>2
    <3>3. exec' \in [Executions -> [pc : {"idle", "claiming"} \cup Live, job : SUBSET Jobs,
                                    retry : Nat, renewing : BOOLEAN]]
      BY <2>3 DEF ExecRecord
    <3>4. UNCHANGED <<job, dlq, overrun>>
      BY <1>2 DEF WorkerCrash
    <3> QED BY <2>4, <3>1, <3>2, <3>3, <3>4 DEF IndInv, JobTypeOK
  <2>6. IdleHoldsNothing' /\ HeldOrOverrun' /\ OneRunner'
    BY <1>2, <2>1, <2>3 DEF IndInv, IdleHoldsNothing, HeldOrOverrun, OneRunner, WorkerCrash
  <2>7. ActiveCounted'
    <3> SUFFICES ASSUME NEW v \in JobWorkers
                 PROVE  activeJobs'[v] = Cardinality(Slots(v)')
      BY DEF ActiveCounted, Slots
    <3>1. CASE v = w
      <4>1. Slots(v)' = {}
        BY <2>1, <2>3, <3>1 DEF Slots
      <4> QED BY <2>4, <3>1, <4>1, FS_EmptySet
    <3>2. CASE v # w
      <4>1. Slots(v)' = Slots(v)
        BY <2>3, <3>2 DEF Slots
      <4> QED BY <2>4, <3>2, <4>1 DEF IndInv, ActiveCounted, Slots
    <3> QED BY <3>1, <3>2
  <2> QED BY <2>5, <2>6, <2>7 DEF IndInv
<1> QED BY <1>1, <1>2
\* The steps of tryClaimAndExecute() and executeJob().
LEMMA CallSteps ==
  ASSUME IndInv, NEW e \in Executions, ExecStep(e)
  PROVE  IndInv'
<1>1. /\ job \in [Jobs -> JobRow] /\ dlq \subseteq Jobs
      /\ exec[e] \in ExecRecord /\ e[1] \in JobWorkers /\ e[1] # NoWorker
      /\ exec \in [Executions -> ExecRecord]
      /\ \A j \in Jobs : RowOK(job[j])
      /\ exec[e].pc \in Live => \E j \in Jobs : exec[e].job = {j}
      /\ \A j \in Jobs : exec[e].job = {j} => exec[e].pc \in Live
      /\ exec[e].pc \notin Live => exec[e].job = {}
  BY SchedulerAssumption
     DEF IndInv, JobTypeOK, RowOK, IdleHoldsNothing, ExecRecord, Executions
<1>2. /\ NoExec \in ExecRecord /\ NoExec.pc \notin Live /\ NoExec.job = {}
  BY DEF NoExec, ExecRecord, Live
<1>3. \A p \in {"idle", "claiming"} \cup Live :
        LET r == [exec[e] EXCEPT !.pc = p]
        IN  /\ r \in ExecRecord /\ r.pc = p /\ r.job = exec[e].job
            /\ [exec EXCEPT ![e].pc = p] = [exec EXCEPT ![e] = r]
  BY <1>1 DEF ExecRecord
<1>4. \A j \in Jobs : Claimable(j) =>
        /\ RowOK([job[j] EXCEPT !.status = "running", !.lease = "held", !.by = e[1]])
        /\ [job EXCEPT ![j].status = "running", ![j].lease = "held", ![j].by = e[1]]
             = [job EXCEPT ![j] =
                 [job[j] EXCEPT !.status = "running", !.lease = "held", !.by = e[1]]]
  BY <1>1 DEF RowOK, JobRow, Status
<1>5. \A j \in Jobs : /\ RowOK(completeJob(j)) /\ completeJob(j).status \in Settled
                      /\ RowOK(failJob(j)) /\ failJob(j).status \in Settled
  <2> SUFFICES ASSUME NEW j \in Jobs, NEW st \in {"completed", "failed"}, NEW n \in {0, 1}
               PROVE  RowOK(Finished(j, st, n)) /\ Finished(j, st, n).status \in Settled
    BY DEF completeJob, failJob
  <2>1. RowOK(job[j])
    BY <1>1
  <2>2. CASE job[j].status = "purged"
    BY <2>1, <2>2 DEF Finished, Settled
  <2>3. CASE job[j].status # "purged"
    <3> DEFINE s == [job[j] EXCEPT !.status = st, !.lease = "none", !.by = NoWorker,
                                   !.retry = @ + n]
    <3>1. job[j].retry + n \in Nat /\ st \in Status /\ job[j] \in JobRow
      BY <2>1 DEF RowOK, JobRow, Status
    <3>2. s \in JobRow /\ s.status = st /\ s.lease = "none" /\ s.by = NoWorker
      BY <3>1 DEF JobRow
    <3>3. Finished(j, st, n) = s
      BY <2>3 DEF Finished
    <3> QED BY <3>2, <3>3 DEF RowOK, Settled
  <2> QED BY <2>2, <2>3
<1>6. CASE poll(e)
  <2>1. exec[e].pc \notin Live /\ "claiming" \notin Live
    BY <1>6 DEF poll, Live
  <2>2. CallEffect(e, [exec[e] EXCEPT !.pc = "claiming"])
    BY <1>1, <1>3, <1>6, <2>1 DEF poll, CallEffect, RowsChange, CounterChange
  <2> QED BY <2>2, CallStep
<1>7. CASE ClaimNone(e)
  <2>1. exec[e].pc \notin Live
    BY <1>7 DEF ClaimNone, Live
  <2>2. CallEffect(e, NoExec)
    BY <1>1, <1>2, <1>7, <2>1 DEF ClaimNone, CallEffect, RowsChange, CounterChange
  <2> QED BY <2>2, CallStep
<1>8. CASE HandlerEnds(e)
  <2>1. PICK p \in {"completing", "failing"} : exec' = [exec EXCEPT ![e].pc = p]
    BY <1>8 DEF HandlerEnds
  <2>2. exec[e].pc \in Live /\ p \in Live
    BY <1>8 DEF HandlerEnds, Live
  <2>3. CallEffect(e, [exec[e] EXCEPT !.pc = p])
    BY <1>1, <1>3, <1>8, <2>1, <2>2
       DEF HandlerEnds, CallEffect, RowsChange, CounterChange
  <2> QED BY <2>3, CallStep
<1>9. ASSUME NEW j \in Jobs, claimJob(e, j) PROVE IndInv'
  <2> DEFINE r == [pc |-> "running", job |-> {j}, retry |-> job[j].retry,
                   renewing |-> TRUE]
             s == [job[j] EXCEPT !.status = "running", !.lease = "held", !.by = e[1]]
  <2>1. r \in ExecRecord /\ r.pc \in Live /\ r.job = {j} /\ exec[e].pc \notin Live
    BY <1>1, <1>9 DEF ExecRecord, Live, claimJob, RowOK, JobRow
  <2>2. RowOK(s) /\ s.lease = "held" /\ Claimable(j) /\ s \in JobRow
    BY <1>1, <1>4, <1>9 DEF claimJob, RowOK, JobRow
  <2>3. exec' = [exec EXCEPT ![e] = r] /\ job' = [job EXCEPT ![j] = s]
    BY <1>4, <1>9, <2>2 DEF claimJob
  <2>4. activeJobs' = [activeJobs EXCEPT ![e[1]] = @ + 1]
        /\ UNCHANGED <<running, dlq, overrun, crashes>>
    BY <1>9 DEF claimJob
  <2> HIDE DEF r, s
  <2>5. /\ job' \in [Jobs -> JobRow]
        /\ \A k \in Jobs : RowOK(job'[k])
        /\ job'[j].lease = "held"
        /\ \A k \in Jobs : k # j => job'[k] = job[k]
    BY <1>1, <2>2, <2>3
  <2>6. CallEffect(e, r)
    BY <1>1, <2>1, <2>2, <2>3, <2>4, <2>5 DEF CallEffect, RowsChange, CounterChange
  <2> QED BY <2>6, CallStep
<1>10. ASSUME NEW j \in Jobs, ClaimLost(e, j) PROVE IndInv'
  <2> DEFINE s == [job[j] EXCEPT !.status = "running", !.lease = "held", !.by = e[1]]
  <2>1. exec[e].pc \notin Live
    BY <1>10 DEF Live, ClaimLost
  <2>2. RowOK(s) /\ s.lease = "held" /\ s \in JobRow
    BY <1>1, <1>4, <1>10 DEF ClaimLost, RowOK, JobRow
  <2>3. exec' = [exec EXCEPT ![e] = NoExec] /\ job' = [job EXCEPT ![j] = s]
    BY <1>4, <1>10 DEF ClaimLost
  <2> HIDE DEF s
  <2>4. /\ job' \in [Jobs -> JobRow]
        /\ \A k \in Jobs : RowOK(job'[k])
        /\ job'[j].lease = "held"
        /\ \A k \in Jobs : k # j => job'[k] = job[k]
    BY <1>1, <2>2, <2>3
  <2>5. CallEffect(e, NoExec)
    BY <1>1, <1>2, <1>10, <2>1, <2>3, <2>4
       DEF ClaimLost, CallEffect, RowsChange, CounterChange
  <2> QED BY <2>5, CallStep
<1>11. ASSUME NEW j \in Jobs, renewLease(e, j) PROVE IndInv'
  <2>1. CASE job[j].by = e[1] /\ job[j].status = "running"
    <3> DEFINE s == [job[j] EXCEPT !.lease = "held"]
    <3>1. RowOK(s) /\ s.lease = "held" /\ s \in JobRow
      BY <1>1, <2>1 DEF RowOK, JobRow
    <3>2. /\ job' = [job EXCEPT ![j] = s]
          /\ UNCHANGED <<exec, running, activeJobs, dlq, overrun, crashes>>
      BY <1>1, <1>11, <2>1 DEF renewLease
    <3> HIDE DEF s
    <3>3. /\ job' \in [Jobs -> JobRow]
          /\ \A k \in Jobs : RowOK(job'[k])
          /\ job'[j].lease = "held"
          /\ \A k \in Jobs : k # j => job'[k] = job[k]
      BY <1>1, <3>1, <3>2
    <3>4. \A f \in Executions, k \in Jobs : exec[f].job = {k} =>
            k \in overrun \/ job[k].lease = "held" \/ job[k].status \in Settled
      BY DEF IndInv, HeldOrOverrun, Settled
    <3>5. overrun \subseteq Jobs
      BY DEF IndInv, JobTypeOK
    <3> QED BY <3>2, <3>3, <3>4, <3>5, TableStep
  <2>2. CASE ~(job[j].by = e[1] /\ job[j].status = "running")
    <3> DEFINE r == [exec[e] EXCEPT !.renewing = FALSE]
    <3>1. r \in ExecRecord /\ r.pc = exec[e].pc /\ r.job = exec[e].job
      BY <1>1 DEF ExecRecord
    <3>2. /\ exec' = [exec EXCEPT ![e] = r]
          /\ UNCHANGED <<job, running, activeJobs, dlq, overrun, crashes>>
      BY <1>1, <1>11, <2>2 DEF renewLease
    <3> HIDE DEF r
    <3>3. CallEffect(e, r)
      BY <1>1, <3>1, <3>2 DEF CallEffect, RowsChange, CounterChange
    <3> QED BY <3>3, CallStep
  <2> QED BY <2>1, <2>2
<1>12. ASSUME NEW j \in Jobs, Complete(e, j) PROVE IndInv'
  <2>1. exec[e].pc \in Live
    BY <1>12 DEF Complete, Live
  <2>2. RowsChange(e, NoExec)
    BY <1>1, <1>2, <1>5, <1>12 DEF Complete, RowsChange, RowOK
  <2>3. CallEffect(e, NoExec)
    BY <1>1, <1>2, <1>12, <2>1, <2>2 DEF Complete, Release, CallEffect, CounterChange
  <2> QED BY <2>3, CallStep
<1>13. ASSUME NEW j \in Jobs, CompleteFails(e, j) PROVE IndInv'
  <2>1. exec[e].pc \in Live /\ "failing" \in Live
    BY <1>13 DEF CompleteFails, Live
  <2> DEFINE r == [exec[e] EXCEPT !.pc = "failing"]
  <2>2. r \in ExecRecord /\ r.pc = "failing" /\ r.job = exec[e].job
        /\ exec' = [exec EXCEPT ![e] = r]
    BY <1>3, <1>13, <2>1 DEF CompleteFails
  <2> HIDE DEF r
  <2>3. RowsChange(e, r)
    <3>1. CASE job' = job
      BY <1>1, <2>2, <3>1 DEF RowsChange
    <3>2. CASE job' = [job EXCEPT ![j] = completeJob(j)]
      BY <1>1, <1>5, <2>2, <3>2 DEF RowsChange, RowOK
    <3> QED BY <1>13, <3>1, <3>2 DEF CompleteFails
  <2>4. CallEffect(e, r)
    BY <1>1, <1>13, <2>1, <2>2, <2>3 DEF CompleteFails, CallEffect, CounterChange
  <2> QED BY <2>4, CallStep
<1>14. ASSUME NEW j \in Jobs, Fail(e, j) PROVE IndInv'
  <2>1. exec[e].pc \in Live /\ "dlq" \in Live
    BY <1>14 DEF Fail, Live
  <2>2. CASE exec[e].retry < maxRetries
    <3>1. RowsChange(e, NoExec)
      BY <1>1, <1>2, <1>5, <1>14 DEF Fail, RowsChange, RowOK
    <3>2. CallEffect(e, NoExec)
      BY <1>1, <1>2, <1>14, <2>1, <2>2, <3>1 DEF Fail, Release, CallEffect, CounterChange
    <3> QED BY <3>2, CallStep
  <2>3. CASE ~(exec[e].retry < maxRetries)
    <3> DEFINE r == [exec[e] EXCEPT !.pc = "dlq"]
    <3>1. r \in ExecRecord /\ r.pc = "dlq" /\ r.job = exec[e].job
          /\ exec' = [exec EXCEPT ![e] = r]
      BY <1>3, <1>14, <2>1, <2>3 DEF Fail
    <3> HIDE DEF r
    <3>2. RowsChange(e, r)
      BY <1>1, <1>5, <1>14, <3>1 DEF Fail, RowsChange, RowOK
    <3>3. CallEffect(e, r)
      BY <1>1, <1>14, <2>1, <2>3, <3>1, <3>2 DEF Fail, CallEffect, CounterChange
    <3> QED BY <3>3, CallStep
  <2> QED BY <2>2, <2>3
<1>15. ASSUME NEW j \in Jobs, FailFails(e, j) PROVE IndInv'
  <2>1. exec[e].pc \in Live
    BY <1>15 DEF FailFails, Live
  <2>2. RowsChange(e, NoExec)
    BY <1>1, <1>2, <1>5, <1>15 DEF FailFails, RowsChange, RowOK
  <2>3. CallEffect(e, NoExec)
    BY <1>1, <1>2, <1>15, <2>1, <2>2 DEF FailFails, Release, CallEffect, CounterChange
  <2> QED BY <2>3, CallStep
<1>16. ASSUME NEW j \in Jobs, RouteToDlq(e, j) PROVE IndInv'
  <2>1. exec[e].pc \in Live
    BY <1>16 DEF RouteToDlq, Live
  <2>2. RowsChange(e, NoExec)
    BY <1>1, <1>2, <1>16 DEF RouteToDlq, RowsChange
  <2>3. CallEffect(e, NoExec)
    BY <1>1, <1>2, <1>16, <2>1, <2>2 DEF RouteToDlq, Release, CallEffect, CounterChange
  <2> QED BY <2>3, CallStep
<1> QED BY <1>6, <1>7, <1>8, <1>9, <1>10, <1>11, <1>12, <1>13, <1>14, <1>15, <1>16
        DEF ExecStep

\* The invariant is inductive.
LEMMA StepOK == IndInv /\ [JobNext]_jobVars => IndInv'
<1> SUFFICES ASSUME IndInv, [JobNext]_jobVars PROVE IndInv'
  OBVIOUS
<1>1. CASE UNCHANGED jobVars
  BY <1>1 DEF jobVars, IndInv, JobTypeOK, IdleHoldsNothing, HeldOrOverrun, ActiveCounted,
              OneRunner
<1>2. CASE JobNext
  BY <1>2, TableSteps, WorkerSteps, CallSteps DEF JobNext
<1> QED BY <1>1, <1>2

\* The inductive invariant holds in every reachable state.
THEOREM Invariance == JobSpec => []IndInv
<1> QED BY InitOK, StepOK, PTL DEF JobSpec

-----------------------------------------------------------------------------
(***************************************************************************)
(* The theorems                                                            *)
(***************************************************************************)

\* Through errors, lost answers and crashes, activeJobs of a worker is the number
\* of its executions in progress, so no slot leaks and none is given back twice.
THEOREM SlotsAreCounted == JobSpec => []SlotsCounted
<1>1. IndInv => SlotsCounted
  BY DEF IndInv, SlotsCounted
<1> QED BY <1>1, Invariance, PTL

\* Two executions hold the same job only after its lease lapsed under one.
THEOREM OneRunnerHolds == JobSpec => []OneRunner
<1>1. IndInv => OneRunner
  BY DEF IndInv
<1> QED BY <1>1, Invariance, PTL

\* A settled job is never run again: no claim, renewal or late answer takes its row
\* back to pending or running.
THEOREM SettledStaysSettled == JobSpec => SettledIsFinal
<1>1. ASSUME IndInv, [JobNext]_jobVars, NEW j \in Jobs,
             job[j].status \in {"completed", "failed"}
      PROVE  job'[j].status \in {"completed", "failed", "purged"}
  <2>1. job \in [Jobs -> JobRow] /\ job[j] \in JobRow /\ job[j].lease = "none"
    BY <1>1 DEF IndInv, JobTypeOK
  <2>2. CASE UNCHANGED job
    BY <1>1, <2>2
  <2>3. ASSUME NEW i \in Jobs, scheduleJob(i) \/ Due(i) \/ LeaseLapses(i)
        PROVE  job'[j].status = job[j].status
    BY <1>1, <2>1, <2>3 DEF scheduleJob, Due, LeaseLapses, JobRow
  <2>4. CASE purgeCompleted
    BY <1>1, <2>1, <2>4 DEF purgeCompleted, JobRow
  <2>5. ASSUME NEW e \in Executions, NEW i \in Jobs,
               claimJob(e, i) \/ ClaimLost(e, i) \/ renewLease(e, i)
        PROVE  job'[j] = job[j]
    BY <1>1, <2>1, <2>5 DEF claimJob, ClaimLost, Claimable, renewLease, JobRow
  <2>6. ASSUME NEW e \in Executions, NEW i \in Jobs,
               \/ Complete(e, i) \/ CompleteFails(e, i)
               \/ Fail(e, i) \/ FailFails(e, i)
        PROVE  job'[j].status \in {"completed", "failed", "purged"}
    <3>1. \/ job' = job \/ job' = [job EXCEPT ![i] = completeJob(i)]
          \/ job' = [job EXCEPT ![i] = failJob(i)]
      BY <2>6 DEF Complete, CompleteFails, Fail, FailFails
    <3>2. job[i] \in JobRow
      BY <2>1
    <3>3. /\ completeJob(i).status \in {"completed", "failed", "purged"}
          /\ failJob(i).status \in {"completed", "failed", "purged"}
      BY <3>2 DEF completeJob, failJob, Finished, JobRow
    <3> QED BY <1>1, <2>1, <3>1, <3>3
  <2>7. \/ UNCHANGED job \/ purgeCompleted
        \/ \E i \in Jobs : scheduleJob(i) \/ Due(i) \/ LeaseLapses(i)
        \/ \E e \in Executions, i \in Jobs :
             \/ claimJob(e, i) \/ ClaimLost(e, i) \/ renewLease(e, i)
             \/ Complete(e, i) \/ CompleteFails(e, i) \/ Fail(e, i) \/ FailFails(e, i)
    BY <1>1 DEF JobNext, jobVars, ExecStep, start, stop, WorkerCrash, poll, ClaimNone, HandlerEnds,
                RouteToDlq
  <2> QED BY <1>1, <2>2, <2>3, <2>4, <2>5, <2>6, <2>7
<1>2. IndInv /\ [JobNext]_jobVars =>
        [\A j \in Jobs : job[j].status \in {"completed", "failed"} =>
           job'[j].status \in {"completed", "failed", "purged"}]_jobVars
  BY <1>1
<1> QED BY <1>2, Invariance, PTL DEF JobSpec, SettledIsFinal
=============================================================================
