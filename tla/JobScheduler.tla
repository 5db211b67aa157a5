---------------------------- MODULE JobScheduler ----------------------------
(***************************************************************************)
(* The distributed job scheduler of src/scheduler: JobWorker's poll loop   *)
(* and executeJob() in several processes over the table distributed_jobs   *)
(* of PostgresJobStore.                                                    *)
(*                                                                         *)
(* One step is one SQL statement, or what runs between two awaits.  A      *)
(* lease (locked_until) is held or has lapsed; run_at is reached or not.   *)
(* Jobs of one type; the ORDER BY run_at of the claim is left open.        *)
(***************************************************************************)
EXTENDS Naturals, FiniteSets

CONSTANTS
  Jobs,            \* jobs that are scheduled
  JobWorkers,      \* JobWorker instances, each in its own process
  NoWorker,        \* locked_by IS NULL
  maxConcurrency,  \* WorkerConfig.maxConcurrency
  maxRetries,      \* max_retries of every job
  Polls,           \* bound: overlapping calls of tryClaimAndExecute() per worker
  MaxCrashes       \* bound: crashes of worker processes

ASSUME SchedulerAssumption ==
  /\ NoWorker \notin JobWorkers
  /\ maxConcurrency \in Nat \ {0}
  /\ maxRetries \in Nat
  /\ Polls \in Nat \ {0}
  /\ MaxCrashes \in Nat

Executions == JobWorkers \X (1..Polls)

VARIABLES
  job,             \* distributed_jobs
  exec,            \* each call of tryClaimAndExecute()
  running,         \* _running of each worker
  activeJobs,      \* activeJobs of each worker
  dlq,             \* jobs handed to DeadLetterQueueManager.process()
  overrun,         \* history: jobs whose lease lapsed under an execution
  crashes          \* crashes so far

jobVars == <<job, exec, running, activeJobs, dlq, overrun, crashes>>

Status == {"absent", "pending", "running", "completed", "failed", "purged"}

\* A row; status absent: not inserted yet.
JobRow == [status : Status, lease : {"none", "held", "lapsed"},
           by : JobWorkers \cup {NoWorker}, retry : Nat, due : BOOLEAN]

\* pc of a call: Live are the ones that hold a job.
Live == {"running", "completing", "failing", "dlq"}

NoExec == [pc |-> "idle", job |-> {}, retry |-> 0, renewing |-> FALSE]

JobTypeOK ==
  /\ job \in [Jobs -> JobRow]
  /\ \A j \in Jobs : /\ job[j].status = "running" <=> job[j].by # NoWorker
                     /\ job[j].status = "running" <=> job[j].lease # "none"
  /\ exec \in [Executions -> [pc : {"idle", "claiming"} \cup Live, job : SUBSET Jobs,
                              retry : Nat, renewing : BOOLEAN]]
  /\ \A e \in Executions : exec[e].pc \in Live <=> \E j \in Jobs : exec[e].job = {j}
  /\ running \in [JobWorkers -> BOOLEAN]
  /\ activeJobs \in [JobWorkers -> Nat]
  /\ dlq \subseteq Jobs
  /\ overrun \subseteq Jobs
  /\ crashes \in 0..MaxCrashes

JobInit ==
  /\ job = [j \in Jobs |-> [status |-> "absent", lease |-> "none", by |-> NoWorker,
                            retry |-> 0, due |-> FALSE]]
  /\ exec = [e \in Executions |-> NoExec]
  /\ running = [w \in JobWorkers |-> FALSE]
  /\ activeJobs = [w \in JobWorkers |-> 0]
  /\ dlq = {}
  /\ overrun = {}
  /\ crashes = 0

-----------------------------------------------------------------------------
(***************************************************************************)
(* PostgresJobStore                                                        *)
(***************************************************************************)

scheduleJob(j) ==
  /\ job[j].status = "absent"
  /\ job' = [job EXCEPT ![j].status = "pending"]
  /\ UNCHANGED <<exec, running, activeJobs, dlq, overrun, crashes>>

\* Fault: only pending jobs, so a crashed worker's job is lost.
Claimable_PendingOnly(j) ==
  /\ job[j].status = "pending"
  /\ job[j].lease # "held"
  /\ job[j].due

\* Fault: the lease is not looked at.
Claimable_IgnoresLease(j) ==
  /\ job[j].status \in {"pending", "running"}
  /\ job[j].due

\* Fault: a finished job can be claimed again.
Claimable_Finished(j) ==
  /\ job[j].status \in {"pending", "running", "completed", "failed"}
  /\ job[j].lease # "held"
  /\ job[j].due

Claimable(j) ==
  /\ job[j].status \in {"pending", "running"}
  /\ job[j].lease # "held"
  /\ job[j].due

\* UPDATE ... WHERE id = $1 finds no row once the job is purged.
Finished(j, status, failures) ==
  IF job[j].status = "purged" THEN job[j]
  ELSE [job[j] EXCEPT !.status = status, !.lease = "none", !.by = NoWorker,
                      !.retry = @ + failures]

completeJob(j) == Finished(j, "completed", 0)

failJob(j) == Finished(j, "failed", 1)

\* DELETE of the finished jobs that are old enough: any of them.
purgeCompleted ==
  /\ \E S \in SUBSET {j \in Jobs : job[j].status \in {"completed", "failed"}} :
       /\ S # {}
       /\ job' = [j \in Jobs |-> IF j \in S THEN [job[j] EXCEPT !.status = "purged"]
                                 ELSE job[j]]
  /\ UNCHANGED <<exec, running, activeJobs, dlq, overrun, crashes>>

-----------------------------------------------------------------------------
(***************************************************************************)
(* Time                                                                    *)
(***************************************************************************)

\* NOW() passes run_at.
Due(j) ==
  /\ job[j].status # "absent" /\ ~job[j].due
  /\ job' = [job EXCEPT ![j].due = TRUE]
  /\ UNCHANGED <<exec, running, activeJobs, dlq, overrun, crashes>>

\* NOW() passes locked_until.
LeaseLapses(j) ==
  /\ job[j].lease = "held"
  /\ job' = [job EXCEPT ![j].lease = "lapsed"]
  /\ overrun' = IF \E e \in Executions : exec[e].job = {j} THEN overrun \cup {j}
                ELSE overrun
  /\ UNCHANGED <<exec, running, activeJobs, dlq, crashes>>

-----------------------------------------------------------------------------
(***************************************************************************)
(* JobWorker                                                               *)
(***************************************************************************)
start(w) ==
  /\ ~running[w]
  /\ running' = [running EXCEPT ![w] = TRUE]
  /\ UNCHANGED <<job, exec, activeJobs, dlq, overrun, crashes>>

\* stop() ends the polling; it waits for running jobs but cancels nothing.
stop(w) ==
  /\ running[w]
  /\ running' = [running EXCEPT ![w] = FALSE]
  /\ UNCHANGED <<job, exec, activeJobs, dlq, overrun, crashes>>

\* The timer of poll() fires: a claim is sent if activeJobs permits.
poll(e) ==
  /\ running[e[1]]
  /\ activeJobs[e[1]] < maxConcurrency
  /\ exec[e].pc = "idle"
  /\ exec' = [exec EXCEPT ![e].pc = "claiming"]
  /\ UNCHANGED <<job, running, activeJobs, dlq, overrun, crashes>>

\* claimJob() returns a row: activeJobs is counted, the lease timer started.
claimJob(e, j) ==
  /\ exec[e].pc = "claiming"
  /\ Claimable(j)
  /\ job' = [job EXCEPT ![j].status = "running", ![j].lease = "held",
                        ![j].by = e[1]]
  /\ exec' = [exec EXCEPT ![e] = [pc |-> "running", job |-> {j},
                                  retry |-> job[j].retry, renewing |-> TRUE]]
  /\ activeJobs' = [activeJobs EXCEPT ![e[1]] = @ + 1]
  /\ UNCHANGED <<running, dlq, overrun, crashes>>

\* The claim commits, but its answer is lost and the query rejects.
ClaimLost(e, j) ==
  /\ exec[e].pc = "claiming"
  /\ Claimable(j)
  /\ job' = [job EXCEPT ![j].status = "running", ![j].lease = "held",
                        ![j].by = e[1]]
  /\ exec' = [exec EXCEPT ![e] = NoExec]
  /\ UNCHANGED <<running, activeJobs, dlq, overrun, crashes>>

\* No row (none is claimable, or SKIP LOCKED skipped it), or the query fails.
ClaimNone(e) ==
  /\ exec[e].pc = "claiming"
  /\ exec' = [exec EXCEPT ![e] = NoExec]
  /\ UNCHANGED <<job, running, activeJobs, dlq, overrun, crashes>>

\* A tick of leaseInterval: renew, or stop renewing when no row matches.
renewLease(e, j) ==
  /\ exec[e].job = {j} /\ exec[e].renewing
  /\ IF job[j].by = e[1] /\ job[j].status = "running"
     THEN job' = [job EXCEPT ![j].lease = "held"] /\ UNCHANGED exec
     ELSE exec' = [exec EXCEPT ![e].renewing = FALSE] /\ UNCHANGED job
  /\ UNCHANGED <<running, activeJobs, dlq, overrun, crashes>>

\* The handler resolves, or throws.
HandlerEnds(e) ==
  /\ exec[e].pc = "running"
  /\ \E next \in {"completing", "failing"} : exec' = [exec EXCEPT ![e].pc = next]
  /\ UNCHANGED <<job, running, activeJobs, dlq, overrun, crashes>>

\* Fault: activeJobs is not given back.
Release_Forgotten(e) ==
  /\ exec' = [exec EXCEPT ![e] = NoExec]
  /\ UNCHANGED activeJobs

\* The finally blocks: the lease timer is cleared, activeJobs given back.
Release(e) ==
  /\ exec' = [exec EXCEPT ![e] = NoExec]
  /\ activeJobs' = [activeJobs EXCEPT ![e[1]] = IF @ > 0 THEN @ - 1 ELSE 0]

Complete(e, j) ==
  /\ exec[e].pc = "completing" /\ exec[e].job = {j}
  /\ job' = [job EXCEPT ![j] = completeJob(j)]
  /\ Release(e)
  /\ UNCHANGED <<running, dlq, overrun, crashes>>

\* completeJob() rejects, before or after its commit: the catch block treats the
\* job as failed.
CompleteFails(e, j) ==
  /\ exec[e].pc = "completing" /\ exec[e].job = {j}
  /\ \/ UNCHANGED job
     \/ job' = [job EXCEPT ![j] = completeJob(j)]
  /\ exec' = [exec EXCEPT ![e].pc = "failing"]
  /\ UNCHANGED <<running, activeJobs, dlq, overrun, crashes>>

\* Both branches of the catch block call failJob(); the second one goes on to
\* the dead-letter queue.
Fail(e, j) ==
  /\ exec[e].pc = "failing" /\ exec[e].job = {j}
  /\ job' = [job EXCEPT ![j] = failJob(j)]
  /\ IF exec[e].retry < maxRetries
     THEN Release(e)
     ELSE exec' = [exec EXCEPT ![e].pc = "dlq"] /\ UNCHANGED activeJobs
  /\ UNCHANGED <<running, dlq, overrun, crashes>>

\* failJob() rejects before its commit (the row stays running until its lease
\* lapses) or after it.
FailFails(e, j) ==
  /\ exec[e].pc = "failing" /\ exec[e].job = {j}
  /\ \/ UNCHANGED job
     \/ job' = [job EXCEPT ![j] = failJob(j)]
  /\ Release(e)
  /\ UNCHANGED <<running, dlq, overrun, crashes>>

\* dlqManager.process(), best effort.
RouteToDlq(e, j) ==
  /\ exec[e].pc = "dlq" /\ exec[e].job = {j}
  /\ \/ dlq' = dlq \cup {j}
     \/ UNCHANGED dlq
  /\ Release(e)
  /\ UNCHANGED <<job, running, overrun, crashes>>

\* The process dies; its calls and its counter go with it.
WorkerCrash(w) ==
  /\ crashes < MaxCrashes
  /\ crashes' = crashes + 1
  /\ running' = [running EXCEPT ![w] = FALSE]
  /\ exec' = [e \in Executions |-> IF e[1] = w THEN NoExec ELSE exec[e]]
  /\ activeJobs' = [activeJobs EXCEPT ![w] = 0]
  /\ UNCHANGED <<job, dlq, overrun>>

-----------------------------------------------------------------------------
ExecStep(e) ==
  \/ poll(e) \/ ClaimNone(e) \/ HandlerEnds(e)
  \/ \E j \in Jobs : \/ claimJob(e, j) \/ ClaimLost(e, j) \/ renewLease(e, j)
                     \/ Complete(e, j) \/ CompleteFails(e, j)
                     \/ Fail(e, j) \/ FailFails(e, j) \/ RouteToDlq(e, j)

JobNext ==
  \/ \E j \in Jobs : scheduleJob(j) \/ Due(j) \/ LeaseLapses(j)
  \/ purgeCompleted
  \/ \E w \in JobWorkers : start(w) \/ stop(w) \/ WorkerCrash(w)
  \/ \E e \in Executions : ExecStep(e)

JobSpec == JobInit /\ [][JobNext]_jobVars

(***************************************************************************)
(* JobFairness.  Time passes, so run_at is reached and a lease that nobody    *)
(* renews lapses; stopped and crashed workers are started again; timers    *)
(* fire and awaits settle; a statement that is sent again and again is     *)
(* answered at last (strong fairness), for a claim and for the end of an   *)
(* execution.                                                              *)
(***************************************************************************)
JobFairness ==
  /\ \A j \in Jobs :
       /\ WF_jobVars(Due(j))
       /\ WF_jobVars((\A e \in Executions : exec[e].job # {j}) /\ LeaseLapses(j))
  /\ \A w \in JobWorkers : WF_jobVars(start(w))
  /\ \A e \in Executions :
       /\ SF_jobVars(poll(e))
       /\ SF_jobVars(\E j \in Jobs : claimJob(e, j))
       /\ WF_jobVars(HandlerEnds(e))
       /\ WF_jobVars(exec[e].pc \in {"completing", "failing", "dlq"} /\ ExecStep(e))
       /\ SF_jobVars(\E j \in Jobs : Complete(e, j) \/ Fail(e, j))

JobLiveSpec == JobSpec /\ JobFairness

-----------------------------------------------------------------------------
\* activeJobs counts the executions in progress, through errors, lost answers
\* and crashes: a leak would stop the worker from polling for ever.
ActiveCounted ==
  \A w \in JobWorkers :
    activeJobs[w] = Cardinality({e \in Executions : e[1] = w /\ exec[e].pc \in Live})

\* A settled job is never run again, although an execution that lost its lease
\* may still turn completed into failed or back.
SettledIsFinal ==
  [][\A j \in Jobs : job[j].status \in {"completed", "failed"} =>
       job'[j].status \in {"completed", "failed", "purged"}]_jobVars

\* Every scheduled job is settled at last, although workers crash with it, lose
\* their lease, or lose the answers of the database.
JobSettles ==
  \A j \in Jobs : job[j].status \in {"pending", "running"}
                    ~> job[j].status \in {"completed", "failed", "purged"}

\* Two executions hold the same job, in one worker or in two, only after its lease
\* lapsed under an execution: crashes and lost answers alone never start a second.
OneRunner ==
  \A e, f \in Executions :
    e # f => exec[e].job \cap exec[f].job \subseteq overrun

-----------------------------------------------------------------------------
(***************************************************************************)
(* A statement of the repository that the code does not keep.              *)
(***************************************************************************)

\* A failed job with retries left is pending again.
FailedIsRequeued ==
  \A j \in Jobs : job[j].status = "failed" => job[j].retry > maxRetries
=============================================================================
