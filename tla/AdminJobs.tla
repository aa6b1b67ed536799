------------------------------ MODULE AdminJobs ------------------------------
(***************************************************************************)
(* Jobs that an administrator starts for one target: the route that        *)
(* creates the row and publishes the message, the workers that claim the   *)
(* row and do the work, and the broker, which delivers a message again     *)
(* when its worker dies or takes longer than the visibility timeout.       *)
(*                                                                         *)
(* The work itself (an import, an optimisation, a retention run) is one    *)
(* transaction: its commit, its rollback and the refusal of its lock are   *)
(* the outcomes.  A worker dies between two of its transactions.           *)
(***************************************************************************)
EXTENDS Integers, FiniteSets

CONSTANTS
  Requests,      \* sessions that serve the trigger route
  Workers,
  MaxJobs,       \* bound: jobs that are created
  MaxDeliveries  \* bound: deliveries of one message

ASSUME JobsAssumption == MaxJobs \in Nat /\ MaxDeliveries \in Nat

VARIABLES
  jobs,       \* AdminJob.status
  created,    \* how many rows there are
  messages,   \* messages of a job that wait in the broker
  handovers, \* how often a message of the job was delivered
  executions, \* TaskExecution.status of the job's task
  effects,    \* commits of the job's work
  triggers,   \* the trigger requests in progress
  workers     \* the tasks in progress

jobVars == <<jobs, created, messages, handovers, executions, effects, triggers, workers>>

JobIds == 1 .. MaxJobs
NoJob == 0
ActiveJob == {"queued", "running"}
IdleRequest == [job |-> NoJob, step |-> "idle"]
IdleWorker == [job |-> NoJob, step |-> "idle"]

JobsInit ==
  /\ jobs = [j \in JobIds |-> "none"]
  /\ created = 0
  /\ messages = [j \in JobIds |-> 0]
  /\ handovers = [j \in JobIds |-> 0]
  /\ executions = [j \in JobIds |-> "none"]
  /\ effects = [j \in JobIds |-> 0]
  /\ triggers = [r \in Requests |-> IdleRequest]
  /\ workers = [w \in Workers |-> IdleWorker]

(***************************************************************************)
(* The trigger routes                                                      *)
(***************************************************************************)
TargetIsFree == \A j \in JobIds : jobs[j] \notin ActiveJob

(* The advisory lock of the target is held from the look to the commit.    *)
TriggerJob(r) ==
  LET j == created + 1 IN
  /\ triggers[r].step = "idle"
  /\ created < MaxJobs
  /\ TargetIsFree
  /\ created' = j
  /\ jobs' = [jobs EXCEPT ![j] = "queued"]
  /\ triggers' = [triggers EXCEPT ![r] = [job |-> j, step |-> "publish"]]
  /\ UNCHANGED <<messages, handovers, executions, effects, workers>>

(* _enqueue_admin_job: the broker has the message and the route knows.     *)
PublishJob(r) ==
  /\ triggers[r].step = "publish"
  /\ messages' = [messages EXCEPT ![triggers[r].job] = @ + 1]
  /\ triggers' = [triggers EXCEPT ![r] = IdleRequest]
  /\ UNCHANGED <<jobs, created, handovers, executions, effects, workers>>

(* delay() raises; the broker may have the message all the same.           *)
PublishRaises(r, arrived) ==
  /\ triggers[r].step = "publish"
  /\ messages' = [messages EXCEPT ![triggers[r].job] = IF arrived THEN @ + 1 ELSE @]
  /\ triggers' = [triggers EXCEPT ![r].step = "give_up"]
  /\ UNCHANGED <<jobs, created, handovers, executions, effects, workers>>

(* The route marks the job as failed, whatever has become of it.           *)
GiveUpJob(r) ==
  /\ triggers[r].step = "give_up"
  /\ jobs' = [jobs EXCEPT ![triggers[r].job] = "failed"]
  /\ triggers' = [triggers EXCEPT ![r] = IdleRequest]
  /\ UNCHANGED <<created, messages, handovers, executions, effects, workers>>

RequestDies(r) ==
  /\ triggers[r].step # "idle"
  /\ triggers' = [triggers EXCEPT ![r] = IdleRequest]
  /\ UNCHANGED <<jobs, created, messages, handovers, executions, effects, workers>>

(***************************************************************************)
(* The workers                                                             *)
(***************************************************************************)
WorkerGoesTo(w, step) == workers' = [workers EXCEPT ![w].step = step]

(* record_task_started                                                     *)
ReceiveJob(w, j) ==
  /\ workers[w].step = "idle"
  /\ messages[j] > 0
  /\ messages' = [messages EXCEPT ![j] = @ - 1]
  /\ handovers' = [handovers EXCEPT ![j] = @ + 1]
  /\ executions' = [executions EXCEPT ![j] = "running"]
  /\ workers' = [workers EXCEPT ![w] = [job |-> j, step |-> "claim"]]
  /\ UNCHANGED <<jobs, created, effects, triggers>>

(* Mutant: a delivery of a job that was claimed before claims it again.    *)
AnyStatus(j) == jobs[j] # "none"

Claimable(j) == jobs[j] = "queued"

(* _claim_admin_job                                                        *)
ClaimJob(w) ==
  LET j == workers[w].job IN
  /\ workers[w].step = "claim"
  /\ IF Claimable(j)
     THEN jobs' = [jobs EXCEPT ![j] = "running"] /\ WorkerGoesTo(w, "work")
     ELSE UNCHANGED jobs /\ WorkerGoesTo(w, "acknowledge")
  /\ UNCHANGED <<created, messages, handovers, executions, effects, triggers>>

WorkCommits(w) ==
  /\ workers[w].step = "work"
  /\ effects' = [effects EXCEPT ![workers[w].job] = @ + 1]
  /\ WorkerGoesTo(w, "succeeded")
  /\ UNCHANGED <<jobs, created, messages, handovers, executions, triggers>>

(* An exception, or OptimizationLockedError.                               *)
WorkStops(w, outcome) ==
  /\ workers[w].step = "work"
  /\ WorkerGoesTo(w, outcome)
  /\ UNCHANGED <<jobs, created, messages, handovers, executions, effects, triggers>>

Outcomes == {"succeeded", "failed", "skipped_locked"}

(* _mark_admin_job and _fail_admin_job, in a transaction of their own      *)
MarkJob(w) ==
  /\ workers[w].step \in Outcomes
  /\ jobs' = [jobs EXCEPT ![workers[w].job] = workers[w].step]
  /\ WorkerGoesTo(w, "acknowledge")
  /\ UNCHANGED <<created, messages, handovers, executions, effects, triggers>>

(* record_task_finished: the answer of a job that failed is no failure of  *)
(* the task.                                                               *)
AcknowledgeJob(w) ==
  /\ workers[w].step = "acknowledge"
  /\ executions' = [executions EXCEPT ![workers[w].job] = "succeeded"]
  /\ workers' = [workers EXCEPT ![w] = IdleWorker]
  /\ UNCHANGED <<jobs, created, messages, handovers, effects, triggers>>

(* record_task_failure: the transaction that claims or marks the job       *)
(* raises, and the message is acknowledged all the same.                   *)
TaskRaises(w) ==
  /\ workers[w].step \in {"claim"} \cup Outcomes
  /\ executions' = [executions EXCEPT ![workers[w].job] = "failed"]
  /\ workers' = [workers EXCEPT ![w] = IdleWorker]
  /\ UNCHANGED <<jobs, created, messages, handovers, effects, triggers>>

(* task_acks_late: the message of a dead worker is delivered again.        *)
WorkerDies(w) ==
  LET j == workers[w].job IN
  /\ workers[w].step # "idle"
  /\ handovers[j] < MaxDeliveries
  /\ messages' = [messages EXCEPT ![j] = @ + 1]
  /\ workers' = [workers EXCEPT ![w] = IdleWorker]
  /\ UNCHANGED <<jobs, created, handovers, executions, effects, triggers>>

(* The visibility timeout passes while the worker is still at it.          *)
DeliverAgain(w) ==
  LET j == workers[w].job IN
  /\ workers[w].step # "idle"
  /\ handovers[j] + messages[j] < MaxDeliveries
  /\ messages' = [messages EXCEPT ![j] = @ + 1]
  /\ UNCHANGED <<jobs, created, handovers, executions, effects, triggers, workers>>

JobsNext ==
  \/ \E r \in Requests :
       TriggerJob(r) \/ PublishJob(r) \/ GiveUpJob(r) \/ RequestDies(r)
  \/ \E r \in Requests, arrived \in BOOLEAN : PublishRaises(r, arrived)
  \/ \E w \in Workers, j \in JobIds : ReceiveJob(w, j)
  \/ \E w \in Workers :
       \/ ClaimJob(w) \/ WorkCommits(w) \/ MarkJob(w) \/ AcknowledgeJob(w)
       \/ TaskRaises(w) \/ WorkerDies(w) \/ DeliverAgain(w)
  \/ \E w \in Workers, outcome \in {"failed", "skipped_locked"} : WorkStops(w, outcome)

JobsSpec == JobsInit /\ [][JobsNext]_jobVars

(***************************************************************************)
(* Properties                                                              *)
(***************************************************************************)
JobsTypeOK ==
  /\ jobs \in [JobIds -> {"none"} \cup ActiveJob \cup Outcomes]
  /\ created \in 0 .. MaxJobs
  /\ messages \in [JobIds -> Nat] /\ handovers \in [JobIds -> Nat]
  /\ executions \in [JobIds -> {"none", "running", "succeeded", "failed"}]
  /\ effects \in [JobIds -> Nat]
  /\ triggers \in [Requests -> [job : 0 .. MaxJobs, step : {"idle", "publish", "give_up"}]]
  /\ workers \in [Workers ->
       [job : 0 .. MaxJobs, step : {"idle", "claim", "work", "acknowledge"} \cup Outcomes]]

(* However often a message is delivered and whenever a worker dies, the    *)
(* work of a job is done at most once, a job that succeeded did it, and a  *)
(* target has one active job at most.                                      *)
JobsRunOnce ==
  /\ \A j \in JobIds : effects[j] <= 1 /\ (jobs[j] = "succeeded" => effects[j] = 1)
  /\ Cardinality({j \in JobIds : jobs[j] \in ActiveJob}) <= 1
=============================================================================
