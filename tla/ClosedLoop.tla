----------------------------- MODULE ClosedLoop -----------------------------
(***************************************************************************)
(* Closed-loop control of one station: the operator's control mode and     *)
(* policy, the optimizer's plans and their approvals, and the commands the *)
(* worker derives from an approved plan and the device executes.           *)
(*                                                                         *)
(* Every handler of this component starts by locking the station row       *)
(* (lock_station) and holds it to the end of its transaction, so a handler *)
(* is one action.  Two kinds of transaction read the station, or the plan, *)
(* into their session BEFORE they take the lock and do not read it again:  *)
(* the operator's web requests and the worker's pass over all stations.    *)
(* For these the read is an action of its own (ClientLoad, WorkerLoad) and *)
(* what it read is kept in `client' and `worker'.                          *)
(*                                                                         *)
(* Time is counted in ticks; slot s of the 15-minute grid covers the ticks *)
(* Start(s) .. End(s)-1.                                                   *)
(***************************************************************************)
EXTENDS Integers, FiniteSets

CONSTANTS
  Devices,          \* the devices allocated to the station
  NoDevice,         \* a plan no device has accepted
  Clients,          \* concurrent operator requests
  MaxPlan,          \* bound: plans the optimizer publishes
  MaxPolicy,        \* bound: policies the administrator saves
  MaxConfig,        \* bound: station configuration and preference versions
  MaxRevision,      \* bound: revision at which operators stop sending requests
  NumSlots,         \* bound: slots of the grid
  MaxTime,          \* bound: ticks
  SlotLen,          \* ticks in an interval of a plan (15 minutes)
  Horizon,          \* intervals in a plan
  PolicyTerms,      \* ticks at which a policy may expire
  ReadbackWait,     \* ticks the device has to read back (2 minutes)
  ReadbackAge,      \* ticks for which an observation is fresh (5 minutes)
  OutcomeDelay,     \* ticks before an interval is evaluated (5 minutes)
  PartialWait,      \* ticks to wait for missing measurements (1 day)
  AutomaticEnabled  \* settings.closed_loop_automatic_enabled

Plans    == 1 .. MaxPlan
Policies == 1 .. MaxPolicy
Configs  == 1 .. MaxConfig
Slots    == 1 .. NumSlots
Time     == 0 .. MaxTime

ASSUME ConstantsAssumption ==
  /\ NoDevice \notin Devices
  /\ MaxPlan \in Nat /\ MaxPolicy \in Nat /\ MaxConfig \in Nat \ {0}
  /\ MaxRevision \in Nat /\ NumSlots \in Nat /\ MaxTime \in Nat
  /\ SlotLen \in Nat \ {0} /\ Horizon \in Nat \ {0}
  /\ PolicyTerms \subseteq Nat
  /\ ReadbackWait \in Nat /\ ReadbackAge \in Nat
  /\ OutcomeDelay \in Nat /\ PartialWait \in Nat
  /\ AutomaticEnabled \in BOOLEAN

(* A command is identified by the device it is for, the plan and the slot: *)
(* the unique pair (device_id, idempotency_key) of the commands table.     *)
Keys == Devices \X Plans \X Slots

VARIABLES
  now,         \* utcnow()
  control,     \* StationControl: mode, reason, revision, policy (0: none)
  execMode,    \* Station.execution_mode
  policies,    \* ControlPolicy by version; expires = 0 for one never saved
  plans,       \* Plan and OptimizationRun by version; status "none": not published
  approvals,   \* PlanApproval by plan; rev = 0: not approved
  status,      \* Command.status by key; "none": not created
  executedAt,  \* Command.executed_at
  ver,         \* CommandVerification.status; "none": no verification row
  evidence,    \* CommandVerification.read_back_at, -1 when there is none
  outcome,     \* PlanOutcome.status by plan and slot
  cfg,         \* newest station configuration and preference version
  gate,        \* what device_gate and the authentication see of each device
  inputs,      \* whether the measured data pass every other check of policy_check
  worker,      \* the worker's pass: pc, cached execution mode, commands to visit
  client       \* operators' requests: what they read before taking the lock

controlVars == <<control, execMode>>
planVars    == <<policies, plans, approvals>>
cmdVars     == <<status, executedAt, ver, evidence>>
envVars     == <<cfg, gate, inputs>>
vars == <<now, controlVars, planVars, cmdVars, outcome, envVars, worker, client>>

LiveModes == {"assisted", "automatic"}
Modes     == LiveModes \cup {"shadow", "suspended"}
Reasons   == {"initial_shadow", "operator", "policy_changed", "user_emergency_stop",
              "partial_execution_failure", "read_back_mismatch", "read_back_timeout",
              "manual_override"}
ActivePlan == {"published", "accepted_by_device", "executing"}
Accepted   == {"accepted_by_device", "executing"}
PlanStatus == ActivePlan \cup {"none", "superseded"}
OpenCmd    == {"created", "delivered", "accepted"}
FailedCmd  == {"failed", "rejected", "expired"}
Terminal   == FailedCmd \cup {"executed", "superseded"}
CmdStatus  == OpenCmd \cup Terminal \cup {"none"}
ReadBack   == {"read_back_verified", "read_back_mismatch"}
VerStatus  == ReadBack \cup {"none", "applied", "failed", "read_back_timeout"}
Outcomes   == {"none", "outcome_verified", "deviation", "partial", "application_unverified"}
GateStates == {"ready", "offline", "revoked"}
Requests   == {"none", "stop", "mode", "policy", "approve", "preset"}

(***************************************************************************)
(* The grid of intervals                                                   *)
(***************************************************************************)
Start(s) == (s - 1) * SlotLen
End(s)   == s * SlotLen

Due(k)     == Start(k[3]) <= now
Expired(k) == End(k[3]) <= now

FirstSlotAt(t)  == t \div SlotLen + 2
HorizonEnd(p)   == End(plans[p].first + Horizon - 1)
PlanSlots(p)    == {s \in Slots : plans[p].first <= s /\ s < plans[p].first + Horizon}

(* The newest plan whose status is in S, 0 when there is none.             *)
LatestPlan(S) ==
  LET candidates == {p \in Plans : plans[p].status \in S}
  IN IF candidates = {} THEN 0
     ELSE CHOOSE p \in candidates : \A q \in candidates : q <= p

(***************************************************************************)
(* Authorization                                                           *)
(***************************************************************************)
(* Mutant: mode and reason are assigned in the wrong order.                *)
ControlSwapped(mode, why, base) ==
  [mode |-> why, reason |-> mode, revision |-> base.revision + 1, policy |-> base.policy]

ControlOf(mode, why, base) ==
  [mode |-> mode, reason |-> why, revision |-> base.revision + 1, policy |-> base.policy]

(* Mutant: the policy need not outlast the plan.                           *)
PolicyNotExpired(p, pol) == now < policies[pol].expires

PolicyOutlastsPlan(p, pol) == HorizonEnd(p) <= policies[pol].expires

(* policy_check returns no reason.  st is the status of plan p as the      *)
(* session of the caller knows it.                                         *)
PolicyCheck(p, st, pol) ==
  /\ pol # 0
  /\ policies[pol].expires > now
  /\ gate[policies[pol].device] = "ready"
  /\ plans[p].cfg = cfg
  /\ st \in ActivePlan
  /\ plans[p].sound
  /\ inputs
  /\ now < HorizonEnd(p)
  /\ PolicyOutlastsPlan(p, pol)

PlanAllowsDispatch(p, mode) ==
  /\ mode = "live"
  /\ plans[p].live
  /\ plans[p].status \in Accepted
  /\ plans[p].sound
  /\ plans[p].cfg = cfg
  /\ inputs

(* Mutant: whichever device accepted the plan may execute it.              *)
ApprovedForAny(a, d) ==
  /\ a.rev = control.revision
  /\ a.mode = control.mode
  /\ a.policy = control.policy

(* The approval was given in this session of control, for this device.     *)
ApprovedFor(a, d) ==
  /\ a.rev = control.revision
  /\ a.mode = control.mode
  /\ a.device = d
  /\ a.policy = control.policy

(* Execution requires that, and that a fresh snapshot of the plan still    *)
(* has the approved hash.                                                  *)
ExecutionAuthorized(p, d) ==
  LET a == approvals[p]
  IN /\ a.rev # 0
     /\ control.mode \in LiveModes
     /\ ApprovedFor(a, d)
     /\ a.expires > now
     /\ control.mode = "automatic" => AutomaticEnabled
     /\ a.cfg = cfg
     /\ PolicyCheck(p, plans[p].status, a.policy)

(* Mutant: the checks made when the command was created are not repeated.  *)
DeviceAllowsDelivery(k) == plans[k[2]].by = k[1] /\ gate[k[1]] # "revoked"

CommandAllowsDelivery(k) ==
  /\ plans[k[2]].by = k[1]
  /\ gate[k[1]] # "revoked"
  /\ PlanAllowsDispatch(k[2], execMode)
  /\ ExecutionAuthorized(k[2], k[1])

NotApproved(p) == approvals[p].rev = 0

NewApproval(p) ==
  [rev |-> control.revision, mode |-> control.mode, policy |-> control.policy,
   device |-> policies[control.policy].device, cfg |-> cfg,
   expires |-> IF policies[control.policy].expires <= HorizonEnd(p)
               THEN policies[control.policy].expires ELSE HorizonEnd(p)]

NoApproval == [rev |-> 0, mode |-> "shadow", policy |-> 0, device |-> NoDevice,
               cfg |-> 1, expires |-> 0]

(***************************************************************************)
(* Suspension                                                              *)
(***************************************************************************)
(* An ORM attribute set to the value the session read writes nothing: the  *)
(* column keeps what other transactions committed since.                   *)
Written(cached, value) == IF cached = value THEN execMode ELSE value

(* Mutant: a command the device has accepted is not withdrawn.             *)
CancelUnaccepted(db, mem) ==
  [k \in Keys |-> IF db[k] \in OpenCmd \ {"accepted"} THEN "superseded" ELSE mem[k]]

(* cancel_pending selects the commands by their status in the database,    *)
(* db, and overwrites the session's objects, mem.                          *)
CancelPending(db, mem) ==
  [k \in Keys |-> IF db[k] \in OpenCmd THEN "superseded" ELSE mem[k]]

Suspend(why, base, cached, db, mem) ==
  IF base.mode = "suspended" /\ base.reason = why
  THEN /\ control' = base
       /\ status' = mem
       /\ UNCHANGED execMode
  ELSE /\ control' = ControlOf("suspended", why, base)
       /\ execMode' = Written(cached, "shadow")
       /\ status' = CancelPending(db, mem)

(***************************************************************************)
(* Initial state: a shadow station with one published configuration        *)
(***************************************************************************)
NoPlan == [status |-> "none", live |-> FALSE, by |-> NoDevice, sound |-> FALSE,
           cfg |-> 1, first |-> 1]

NoRequest == [kind |-> "none", exec |-> "shadow", rev |-> 0, plan |-> 0,
              planStatus |-> "none", cfg |-> 1, policy |-> 0]

Init ==
  /\ now = 0
  /\ control = [mode |-> "shadow", reason |-> "initial_shadow", revision |-> 1, policy |-> 0]
  /\ execMode = "shadow"
  /\ policies = [v \in Policies |-> [device |-> NoDevice, expires |-> 0]]
  /\ plans = [p \in Plans |-> NoPlan]
  /\ approvals = [p \in Plans |-> NoApproval]
  /\ status = [k \in Keys |-> "none"]
  /\ executedAt = [k \in Keys |-> 0]
  /\ ver = [k \in Keys |-> "none"]
  /\ evidence = [k \in Keys |-> -1]
  /\ outcome = [i \in Plans \X Slots |-> "none"]
  /\ cfg = 1
  /\ gate = [d \in Devices |-> "ready"]
  /\ inputs = TRUE
  /\ worker = [pc |-> "idle", exec |-> "shadow", todo |-> {}]
  /\ client = [c \in Clients |-> NoRequest]

(* Only the worker keeps the station row locked over several actions.      *)
LockFree == worker.pc # "reconciling"

(***************************************************************************)
(* The environment                                                         *)
(***************************************************************************)
Tick ==
  /\ LockFree
  /\ now < MaxTime
  /\ now' = now + 1
  /\ UNCHANGED <<controlVars, planVars, cmdVars, outcome, envVars, worker, client>>

(* A new version of the configuration or of the preferences: these         *)
(* requests do not lock the station.                                       *)
ConfigChanges ==
  /\ cfg < MaxConfig
  /\ cfg' = cfg + 1
  /\ UNCHANGED <<now, controlVars, planVars, cmdVars, outcome, gate, inputs, worker, client>>

InputsChange ==
  /\ inputs' = ~inputs
  /\ UNCHANGED <<now, controlVars, planVars, cmdVars, outcome, cfg, gate, worker, client>>

(* A device goes offline or comes back, or is revoked for good.            *)
GateChanges(d) ==
  /\ gate[d] # "revoked"
  /\ \E g \in GateStates \ {gate[d]} : gate' = [gate EXCEPT ![d] = g]
  /\ UNCHANGED <<now, controlVars, planVars, cmdVars, outcome, cfg, inputs, worker, client>>

(***************************************************************************)
(* The optimizer                                                           *)
(***************************************************************************)
(* Mutant: a plan that a device accepted is not retired.                   *)
RetiredUnaccepted(q) == q = LatestPlan({"published"})

Retired(q) == q = LatestPlan(ActivePlan)

(* _publish_plan: the run read configuration c when it started; an unsound *)
(* run is a fallback.                                                      *)
PublishPlan(p, c, sound) ==
  /\ LockFree
  /\ \A q \in Plans : plans[q].status = "none" <=> q >= p
  /\ c <= cfg
  /\ FirstSlotAt(now) <= NumSlots
  /\ plans' = [q \in Plans |->
       IF q = p
       THEN [NoPlan EXCEPT !.status = "published", !.sound = sound, !.cfg = c,
                           !.first = FirstSlotAt(now)]
       ELSE IF Retired(q)
            THEN [plans[q] EXCEPT !.status = "superseded"]
            ELSE plans[q]]
  /\ UNCHANGED <<now, controlVars, policies, approvals, cmdVars, outcome, envVars,
                 worker, client>>

(***************************************************************************)
(* Operators                                                               *)
(***************************************************************************)
(* The request reads the station, and the plan it names; the form it       *)
(* carries was rendered from the state of the same moment.                 *)
ClientLoad(c, kind, p) ==
  /\ client[c].kind = "none"
  /\ kind # "none"
  /\ control.revision < MaxRevision
  /\ IF kind = "approve" THEN p \in Plans /\ plans[p].status # "none" ELSE p = 0
  /\ client' = [client EXCEPT ![c] =
       [kind |-> kind, exec |-> execMode, rev |-> control.revision, plan |-> p,
        planStatus |-> IF p = 0 THEN "none" ELSE plans[p].status,
        cfg |-> cfg, policy |-> control.policy]]
  /\ UNCHANGED <<now, controlVars, planVars, cmdVars, outcome, envVars, worker>>

Serves(c, kind) ==
  /\ LockFree
  /\ client[c].kind = kind
  /\ client' = [client EXCEPT ![c] = NoRequest]

(* The handler raised, or the connection broke: rollback.                  *)
ClientFails(c) ==
  /\ client[c].kind # "none"
  /\ client' = [client EXCEPT ![c] = NoRequest]
  /\ UNCHANGED <<now, controlVars, planVars, cmdVars, outcome, envVars, worker>>

EmergencyStop(c) ==
  /\ Serves(c, "stop")
  /\ Suspend("user_emergency_stop", control, client[c].exec, status, status)
  /\ UNCHANGED <<now, planVars, executedAt, ver, evidence, outcome, envVars, worker>>

(* Mutant: the revision shown in the form is not compared.                 *)
AnyRevision(c) == TRUE

ExpectedRevision(c) == control.revision = client[c].rev

ChangeMode(c, mode) ==
  /\ Serves(c, "mode")
  /\ ExpectedRevision(c)
  /\ mode = "automatic" => AutomaticEnabled
  /\ mode \in LiveModes =>
       /\ control.policy # 0
       /\ policies[control.policy].expires > now
       /\ gate[policies[control.policy].device] = "ready"
  /\ control' = ControlOf(mode, "operator", control)
  /\ execMode' = Written(client[c].exec, IF mode \in LiveModes THEN "live" ELSE "shadow")
  /\ status' = CancelPending(status, status)
  /\ UNCHANGED <<now, planVars, executedAt, ver, evidence, outcome, envVars, worker>>

SavePolicy(c, v, d, expires) ==
  /\ Serves(c, "policy")
  /\ \A w \in Policies : policies[w].expires = 0 <=> w >= v
  /\ now < expires
  /\ gate[d] # "revoked"
  /\ policies' = [policies EXCEPT ![v] = [device |-> d, expires |-> expires]]
  /\ Suspend("policy_changed", [control EXCEPT !.policy = v], client[c].exec, status, status)
  /\ UNCHANGED <<now, plans, approvals, executedAt, ver, evidence, outcome, envVars, worker>>

Approve(p) ==
  /\ approvals' = [approvals EXCEPT ![p] = NewApproval(p)]
  /\ plans' = [plans EXCEPT ![p].live = TRUE]

(* approve_plan.  The preview hash of the form must be the hash of a fresh *)
(* snapshot, but the status of the plan is the one the request read.       *)
ApprovePlan(c) ==
  LET r == client[c] IN
  /\ Serves(c, "approve")
  /\ control.mode = "assisted"
  /\ NotApproved(r.plan)
  /\ r.cfg = cfg /\ r.policy = control.policy
  /\ PolicyCheck(r.plan, r.planStatus, control.policy)
  /\ Approve(r.plan)
  /\ UNCHANGED <<now, controlVars, policies, cmdVars, outcome, envVars, worker>>

(* recommendation_service.act applies an operating preset: a new           *)
(* preference version and a new session of control.  The Manual preset     *)
(* also suspends the automation.                                           *)
ApplyPreset(c, manual) ==
  LET ended == [control EXCEPT !.revision = @ + 1] IN
  /\ Serves(c, "preset")
  /\ control.mode = "assisted"
  /\ client[c].cfg = cfg
  /\ cfg < MaxConfig
  /\ cfg' = cfg + 1
  /\ IF manual
     THEN /\ Suspend("manual_override", ended, client[c].exec, status,
                     CancelPending(status, status))
          /\ inputs' = FALSE
     ELSE /\ control' = ended
          /\ status' = CancelPending(status, status)
          /\ UNCHANGED <<execMode, inputs>>
  /\ UNCHANGED <<now, planVars, executedAt, ver, evidence, outcome, gate, worker>>

(***************************************************************************)
(* The device                                                              *)
(***************************************************************************)
DeviceCalls(d) ==
  /\ LockFree
  /\ gate[d] # "revoked"

AcceptPlan(d, p) ==
  /\ DeviceCalls(d)
  /\ p = LatestPlan(ActivePlan)
  /\ plans[p].status = "published"
  /\ plans' = [plans EXCEPT ![p].status = "accepted_by_device", ![p].by = d]
  /\ UNCHANGED <<now, controlVars, policies, approvals, cmdVars, outcome, envVars,
                 worker, client>>

ListPendingCommands(d) ==
  /\ DeviceCalls(d)
  /\ status' = [k \in Keys |->
       IF k[1] # d \/ status[k] \notin OpenCmd THEN status[k]
       ELSE IF Expired(k) THEN "expired"
       ELSE IF status[k] = "accepted" \/ ~Due(k) THEN status[k]
       ELSE IF CommandAllowsDelivery(k) THEN "delivered" ELSE "superseded"]
  /\ UNCHANGED <<now, controlVars, planVars, executedAt, ver, evidence, outcome, envVars,
                 worker, client>>

Answerable(k) == status[k] \in {"created", "delivered"}

(* A retry of an answer already given, or a contradictory one, changes     *)
(* nothing.                                                                *)
AcknowledgeCommand(k, answer) ==
  /\ DeviceCalls(k[1])
  /\ Answerable(k)
  /\ Due(k)
  /\ IF Expired(k)
     THEN status' = [status EXCEPT ![k] = "expired"]
     ELSE /\ answer = "accepted" => CommandAllowsDelivery(k)
          /\ status' = [status EXCEPT ![k] = answer]
  /\ UNCHANGED <<now, controlVars, planVars, executedAt, ver, evidence, outcome, envVars,
                 worker, client>>

ReportExecuted(k) ==
  /\ DeviceCalls(k[1])
  /\ status[k] = "accepted"
  /\ ~Expired(k)
  /\ status' = [status EXCEPT ![k] = "executed"]
  /\ executedAt' = [executedAt EXCEPT ![k] = now]
  /\ ver' = [ver EXCEPT ![k] = "applied"]
  /\ UNCHANGED <<now, controlVars, planVars, evidence, outcome, envVars, worker, client>>

ReportFailed(k) ==
  LET failed == [status EXCEPT ![k] = "failed"] IN
  /\ DeviceCalls(k[1])
  /\ status[k] = "accepted"
  /\ ~Expired(k)
  /\ ver' = [ver EXCEPT ![k] = "failed"]
  /\ Suspend("partial_execution_failure", control, execMode, failed, failed)
  /\ UNCHANGED <<now, planVars, executedAt, evidence, outcome, envVars, worker, client>>

(* Mutant: a measurement from before the application is evidence.          *)
MeasuredInInterval(k, observed) == Start(k[3]) <= observed /\ observed < End(k[3])

MeasuredAfterApplication(k, observed) ==
  /\ Start(k[3]) <= observed /\ executedAt[k] <= observed
  /\ observed < End(k[3])

(* verify_readback: observed is the tick of the measurement, match whether *)
(* it shows the commanded setpoint.                                        *)
VerifyReadback(k, observed, match) ==
  /\ DeviceCalls(k[1])
  /\ gate[k[1]] = "ready"
  /\ status[k] = "executed"
  /\ ver[k] # "none"
  /\ evidence[k] = -1
  /\ MeasuredAfterApplication(k, observed)
  /\ observed <= now /\ now - observed <= ReadbackAge
  /\ evidence' = [evidence EXCEPT ![k] = observed]
  /\ IF match
     THEN /\ ver' = [ver EXCEPT ![k] = "read_back_verified"]
          /\ UNCHANGED <<controlVars, status>>
     ELSE /\ ver' = [ver EXCEPT ![k] = "read_back_mismatch"]
          /\ Suspend("read_back_mismatch", control, execMode, status, status)
  /\ UNCHANGED <<now, planVars, executedAt, outcome, envVars, worker, client>>

(***************************************************************************)
(* The worker: command_dispatch_task                                       *)
(***************************************************************************)
WorkerLoad ==
  /\ worker.pc = "idle"
  /\ worker' = [worker EXCEPT !.pc = "loaded", !.exec = execMode]
  /\ UNCHANGED <<now, controlVars, planVars, cmdVars, outcome, envVars, client>>

(* reconcile_station takes the lock, approves the newest plan in automatic *)
(* mode and selects the commands to visit.                                 *)
WorkerLock ==
  LET p == LatestPlan(ActivePlan) IN
  /\ worker.pc = "loaded"
  /\ worker' = [worker EXCEPT !.pc = "reconciling",
                              !.todo = {k \in Keys : status[k] # "none"}]
  /\ IF /\ control.mode = "automatic" /\ AutomaticEnabled
        /\ p # 0
        /\ NotApproved(p)
        /\ PolicyCheck(p, plans[p].status, control.policy)
     THEN Approve(p)
     ELSE UNCHANGED <<plans, approvals>>
  /\ UNCHANGED <<now, controlVars, policies, cmdVars, outcome, envVars, client>>

(* Mutant: an application that was not read back counts as verified.       *)
OutcomeOfApplied(k, complete, deviates) ==
  IF ~complete THEN "partial"
  ELSE IF deviates THEN "deviation"
  ELSE IF ver[k] \in {"applied", "read_back_verified"} THEN "outcome_verified"
  ELSE "application_unverified"

(* PlanOutcome of the interval of command k, from the measurements found.  *)
OutcomeOf(k, complete, deviates) ==
  IF ~complete THEN "partial"
  ELSE IF deviates THEN "deviation"
  ELSE IF ver[k] = "read_back_verified" THEN "outcome_verified"
  ELSE "application_unverified"

EvaluateInterval(k) ==
  LET i == <<k[2], k[3]>> IN
  IF End(k[3]) + OutcomeDelay > now \/ outcome[i] # "none"
  THEN UNCHANGED outcome
  ELSE \E complete, deviates \in BOOLEAN :
         IF OutcomeOf(k, complete, deviates) = "partial" /\ now < End(k[3]) + PartialWait
         THEN UNCHANGED outcome
         ELSE outcome' = [outcome EXCEPT ![i] = OutcomeOf(k, complete, deviates)]

ReadbackOverdue(k) ==
  /\ status[k] = "executed"
  /\ ver[k] # "none" /\ evidence[k] = -1
  /\ executedAt[k] + ReadbackWait <= now

(* Mutant: an accepted command does not lapse.                             *)
LapsedUnaccepted(k) == status[k] \in OpenCmd \ {"accepted"} /\ Expired(k)

Lapsed(k) == status[k] \in OpenCmd /\ Expired(k)

(* Mutant: a command the device rejected is not a failure.                 *)
FailedUnrejected(k) == status[k] \in FailedCmd \ {"rejected"} /\ ver[k] # "failed"

NewlyFailed(k) == status[k] \in FailedCmd /\ ver[k] # "failed"

(* The session does not flush before cancel_pending selects: a command     *)
(* that just expired is still open in the database.                        *)
ReconcileExpired(k) ==
  /\ Lapsed(k)
  /\ ver' = [ver EXCEPT ![k] = "failed"]
  /\ Suspend("partial_execution_failure", control, worker.exec, status,
             [status EXCEPT ![k] = "expired"])

ReconcileFailed(k) ==
  /\ NewlyFailed(k)
  /\ ver' = [ver EXCEPT ![k] = "failed"]
  /\ Suspend("partial_execution_failure", control, worker.exec, status, status)

ReconcileOverdue(k) ==
  /\ ReadbackOverdue(k)
  /\ ver' = [ver EXCEPT ![k] = "read_back_timeout"]
  /\ Suspend("read_back_timeout", control, worker.exec, status, status)

ReconcileSettled(k) ==
  /\ ~Lapsed(k)
  /\ ~NewlyFailed(k)
  /\ ~ReadbackOverdue(k)
  /\ UNCHANGED <<ver, status, controlVars>>

(* One turn of the loop over the commands, by valid_from.                  *)
Reconcile(k) ==
  /\ worker.pc = "reconciling"
  /\ k \in worker.todo
  /\ \A l \in worker.todo : k[3] <= l[3]
  /\ ReconcileExpired(k) \/ ReconcileFailed(k) \/ ReconcileOverdue(k) \/ ReconcileSettled(k)
  /\ EvaluateInterval(k)
  /\ worker' = [worker EXCEPT !.todo = @ \ {k},
                  !.exec = IF control' = control THEN @ ELSE "shadow"]
  /\ UNCHANGED <<now, planVars, executedAt, evidence, envVars, client>>

(* Mutant: a finished command does not count as issued.                    *)
NotPending(k) == status[k] \notin OpenCmd

NotIssued(k) == status[k] = "none"

(* dispatch_due_commands for this station, then commit.  The query for     *)
(* live stations sees the column, plan_allows_dispatch the cached station. *)
Dispatchable(k) ==
  /\ execMode = "live"
  /\ k[2] = LatestPlan(Accepted)
  /\ PlanAllowsDispatch(k[2], worker.exec)
  /\ k[3] \in PlanSlots(k[2]) /\ Due(k) /\ ~Expired(k)
  /\ k[1] = plans[k[2]].by /\ gate[k[1]] # "revoked"
  /\ ExecutionAuthorized(k[2], k[1])
  /\ NotIssued(k)

Dispatch ==
  /\ worker.pc = "reconciling"
  /\ worker.todo = {}
  /\ worker' = [worker EXCEPT !.pc = "idle", !.exec = "shadow"]
  /\ status' = [k \in Keys |-> IF Dispatchable(k) THEN "created" ELSE status[k]]
  /\ plans' = [p \in Plans |->
       IF \E k \in Keys : k[2] = p /\ Dispatchable(k)
       THEN [plans[p] EXCEPT !.status = "executing"] ELSE plans[p]]
  /\ UNCHANGED <<now, controlVars, policies, approvals, executedAt, ver, evidence,
                 outcome, envVars, client>>

(***************************************************************************)
(* Specification                                                           *)
(***************************************************************************)
Operator ==
  \E c \in Clients :
    \/ \E kind \in Requests, p \in Plans \cup {0} : ClientLoad(c, kind, p)
    \/ ClientFails(c)
    \/ EmergencyStop(c)
    \/ \E mode \in Modes : ChangeMode(c, mode)
    \/ \E v \in Policies, d \in Devices, t \in PolicyTerms : SavePolicy(c, v, d, t)
    \/ ApprovePlan(c)
    \/ \E manual \in BOOLEAN : ApplyPreset(c, manual)

Device ==
  \/ \E d \in Devices, p \in Plans : AcceptPlan(d, p)
  \/ \E d \in Devices : ListPendingCommands(d)
  \/ \E k \in Keys :
       \/ \E answer \in {"accepted", "rejected"} : AcknowledgeCommand(k, answer)
       \/ ReportExecuted(k)
       \/ ReportFailed(k)
       \/ \E observed \in Time, match \in BOOLEAN : VerifyReadback(k, observed, match)

Worker ==
  \/ WorkerLoad
  \/ WorkerLock
  \/ \E k \in Keys : Reconcile(k)
  \/ Dispatch

Environment ==
  \/ Tick
  \/ ConfigChanges
  \/ InputsChange
  \/ \E d \in Devices : GateChanges(d)
  \/ \E p \in Plans, c \in Configs, sound \in BOOLEAN : PublishPlan(p, c, sound)

Next == Operator \/ Device \/ Worker \/ Environment

(* Celery beat starts the worker's task every two minutes, and each pass   *)
(* ends.  Nothing obliges operators, devices or the optimizer to act.      *)
Fairness == WF_vars(Worker)

Spec == Init /\ [][Next]_vars
FairSpec == Spec /\ Fairness

(***************************************************************************)
(* Types                                                                   *)
(***************************************************************************)
ControlType == [mode : Modes, reason : Reasons, revision : Nat, policy : {0} \cup Policies]
PolicyType  == [device : Devices \cup {NoDevice}, expires : Nat]
PlanType    == [status : PlanStatus, live : BOOLEAN, by : Devices \cup {NoDevice},
                sound : BOOLEAN, cfg : Configs, first : Nat]
ApprovalType == [rev : Nat, mode : Modes, policy : {0} \cup Policies,
                 device : Devices \cup {NoDevice}, cfg : Configs, expires : Int]
WorkerType  == [pc : {"idle", "loaded", "reconciling"}, exec : {"live", "shadow"},
                todo : SUBSET Keys]
ClientType  == [kind : Requests, exec : {"live", "shadow"}, rev : Nat,
                plan : {0} \cup Plans, planStatus : PlanStatus, cfg : Configs,
                policy : {0} \cup Policies]

(* Every variable holds a value the columns of its table can hold.         *)
TypeOK ==
  /\ now \in Time
  /\ control \in ControlType
  /\ execMode \in {"live", "shadow"}
  /\ policies \in [Policies -> PolicyType]
  /\ plans \in [Plans -> PlanType]
  /\ approvals \in [Plans -> ApprovalType]
  /\ status \in [Keys -> CmdStatus]
  /\ executedAt \in [Keys -> Time]
  /\ ver \in [Keys -> VerStatus]
  /\ evidence \in [Keys -> Time \cup {-1}]
  /\ outcome \in [Plans \X Slots -> Outcomes]
  /\ cfg \in Configs
  /\ gate \in [Devices -> GateStates]
  /\ inputs \in BOOLEAN
  /\ worker \in WorkerType
  /\ client \in [Clients -> ClientType]

(***************************************************************************)
(* Safety                                                                  *)
(***************************************************************************)
(* A command the device may still act on belongs to the current session of *)
(* control: its plan's approval carries the current revision, mode and     *)
(* policy, names the command's device, and the mode is a live one.  So a   *)
(* stop, a change of mode, a new policy or a preset leaves no open command *)
(* behind (suspend, change_mode, cancel_pending).                          *)
OpenUnderCurrentApproval ==
  \A k \in Keys : status[k] \in OpenCmd =>
    /\ control.mode \in LiveModes
    /\ approvals[k[2]].rev = control.revision
    /\ approvals[k[2]].mode = control.mode
    /\ approvals[k[2]].policy = control.policy
    /\ approvals[k[2]].device = k[1]

(* An open command ends before the policy it was approved under does       *)
(* (policy_check, approve_plan).                                           *)
OpenWithinPolicyTerm ==
  \A k \in Keys : status[k] \in OpenCmd =>
    /\ End(k[3]) <= approvals[k[2]].expires
    /\ End(k[3]) <= policies[approvals[k[2]].policy].expires

(* A station under live control has the live execution mode, whatever the  *)
(* requests that were in flight had read (change_mode, suspend).           *)
LiveControlHasLiveStation == control.mode \in LiveModes => execMode = "live"

(* The optimizer leaves at most one plan active (_publish_plan).           *)
OneActivePlan ==
  \A p, q \in Plans :
    plans[p].status \in ActivePlan /\ plans[q].status \in ActivePlan => p = q

(* The verification row agrees with its command: it speaks of an           *)
(* application only if the device reported one inside the interval, of a   *)
(* read-back only if one was measured after the application and before the *)
(* command expired, of a failure only if the command ended without being   *)
(* executed (record_application, verify_readback, reconcile_station).      *)
VerificationAgrees ==
  \A k \in Keys :
    /\ ver[k] \in {"applied", "read_back_timeout"} \cup ReadBack <=> status[k] = "executed"
    /\ ver[k] \in ReadBack <=> evidence[k] # -1
    /\ ver[k] \in ReadBack => executedAt[k] <= evidence[k] /\ evidence[k] < End(k[3])
    /\ status[k] = "executed" => Start(k[3]) <= executedAt[k] /\ executedAt[k] < End(k[3])
    /\ ver[k] = "failed" => status[k] \in FailedCmd \cup {"superseded"}

(* An interval is reported as verified only if the setpoint of its command *)
(* was read back (reconcile_station).                                      *)
OutcomeIsBacked ==
  \A p \in Plans, s \in Slots : outcome[<<p, s>>] = "outcome_verified" =>
    \E d \in Devices : ver[<<d, p, s>>] = "read_back_verified"

(***************************************************************************)
(* Action properties                                                       *)
(***************************************************************************)
(* A device is given a command, or accepts one, only for the active plan,  *)
(* which it has accepted, and while the command's interval lasts: a plan   *)
(* superseded between approval and delivery, even one approved after it    *)
(* was superseded, is never executed (command_allows_delivery).            *)
HandedOutForActivePlan ==
  [][\A k \in Keys :
       status'[k] # status[k] /\ status'[k] \in OpenCmd =>
         /\ k[2] = LatestPlan(ActivePlan)
         /\ k[1] = plans[k[2]].by
         /\ Due(k) /\ ~Expired(k)]_vars

(* The step that records a failure, a mismatch or a missing read-back      *)
(* leaves the station suspended and without open commands.                 *)
FailureSuspends ==
  [][\A k \in Keys :
       ver'[k] # ver[k] /\ ver'[k] \in {"failed", "read_back_mismatch", "read_back_timeout"} =>
         /\ control'.mode = "suspended"
         /\ \A l \in Keys : status'[l] \notin OpenCmd]_vars

(***************************************************************************)
(* Refinement: the commands of the station live in sessions of control     *)
(***************************************************************************)
Sessions == INSTANCE ControlSession WITH
  Cmds    <- Keys,
  session <- control.revision,
  live    <- control.mode \in LiveModes,
  open    <- {k \in Keys : status[k] \in OpenCmd},
  done    <- {k \in Keys : status[k] \in Terminal}

RefinesSessions == Sessions!Spec

(***************************************************************************)
(* Liveness                                                                *)
(***************************************************************************)
(* A rejected, failed or expired command is eventually noticed, although   *)
(* acknowledge_command and list_pending_commands do not suspend.           *)
FailureIsNoticed ==
  \A k \in Keys : status[k] \in FailedCmd ~> ver[k] = "failed"

(* A command that the device neither finishes nor loses does not stay open *)
(* after its interval, and an application that is not read back in time    *)
(* does not stay "applied", whether or not the device ever calls again.    *)
NothingStaysPending ==
  \A k \in Keys :
    /\ status[k] \in OpenCmd /\ Expired(k) ~> status[k] \notin OpenCmd
    /\ ver[k] = "applied" /\ ReadbackOverdue(k) ~> ver[k] # "applied"

(***************************************************************************)
(* What the documentation says and the code does not do                    *)
(***************************************************************************)
(* docs/API.md: in the shadow execution mode commands are informative only;*)
(* docs/ENERGY_OPERATIONS.md: a suspended station is blocked.  A station   *)
(* whose control is not live should have the shadow execution mode.        *)
IdleControlHasShadowStation == control.mode \notin LiveModes => execMode = "shadow"
=============================================================================
