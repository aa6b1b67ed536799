-------------------------- MODULE ClosedLoop_proofs --------------------------
(***************************************************************************)
(* Proofs about ClosedLoop for every number of devices, operators, plans   *)
(* and policies.                                                           *)
(***************************************************************************)
EXTENDS ClosedLoop, TLAPS

(* Sanity of the vocabulary: the modes and statuses that the types join.   *)
LEMMA StatusFacts ==
  /\ OpenCmd \subseteq CmdStatus /\ Terminal \subseteq CmdStatus
  /\ FailedCmd \subseteq Terminal
  /\ OpenCmd \cap Terminal = {}
  /\ "none" \notin OpenCmd /\ "none" \notin Terminal
  /\ CmdStatus = OpenCmd \cup Terminal \cup {"none"}
  /\ "superseded" \in Terminal /\ "executed" \in Terminal
  /\ {"failed", "rejected", "expired"} \subseteq Terminal
  /\ {"created", "delivered", "accepted"} \subseteq OpenCmd
  /\ LiveModes \subseteq Modes /\ "suspended" \in Modes /\ "suspended" \notin LiveModes
PROOF BY DEF OpenCmd, FailedCmd, Terminal, CmdStatus, LiveModes, Modes

(* What cancel_pending leaves: no open command when every command that is  *)
(* open in memory is open in the database too.                             *)
LEMMA CancelPendingCloses ==
  ASSUME NEW db \in [Keys -> CmdStatus], NEW mem \in [Keys -> CmdStatus],
         \A k \in Keys : mem[k] \in OpenCmd => db[k] \in OpenCmd
  PROVE  /\ CancelPending(db, mem) \in [Keys -> CmdStatus]
         /\ \A k \in Keys : CancelPending(db, mem)[k] \notin OpenCmd
         /\ \A k \in Keys : CancelPending(db, mem)[k] =
              IF db[k] \in OpenCmd THEN "superseded" ELSE mem[k]
PROOF BY StatusFacts DEF CancelPending

(* Suspending a well-typed station yields a well-typed station.            *)
LEMMA SuspendType ==
  ASSUME NEW why \in Reasons, NEW base \in ControlType, NEW cached \in {"live", "shadow"},
         NEW db \in [Keys -> CmdStatus], NEW mem \in [Keys -> CmdStatus],
         execMode \in {"live", "shadow"},
         Suspend(why, base, cached, db, mem)
  PROVE  /\ control' \in ControlType
         /\ execMode' \in {"live", "shadow"}
         /\ status' \in [Keys -> CmdStatus]
PROOF
<1>1. CancelPending(db, mem) \in [Keys -> CmdStatus]
  BY StatusFacts DEF CancelPending
<1>2. ControlOf("suspended", why, base) \in ControlType
  BY DEF ControlOf, ControlType, Modes
<1>3. QED
  BY <1>1, <1>2 DEF Suspend, Written

(***************************************************************************)
(* Type correctness                                                        *)
(***************************************************************************)
USE DEF controlVars, planVars, cmdVars, envVars

LEMMA InitType == Init => TypeOK
PROOF
<1> SUFFICES ASSUME Init PROVE TypeOK
  OBVIOUS
<1> USE ConstantsAssumption
<1>1. now \in Time /\ control \in ControlType /\ execMode \in {"live", "shadow"}
  BY DEF Init, Time, ControlType, Modes, Reasons
<1>2. policies \in [Policies -> PolicyType]
  BY DEF Init, PolicyType
<1>3. plans \in [Plans -> PlanType]
  BY DEF Init, NoPlan, PlanType, PlanStatus, Configs
<1>4. approvals \in [Plans -> ApprovalType]
  BY DEF Init, NoApproval, ApprovalType, Modes, Configs
<1>5. /\ status \in [Keys -> CmdStatus] /\ executedAt \in [Keys -> Time]
      /\ ver \in [Keys -> VerStatus] /\ evidence \in [Keys -> Time \cup {-1}]
      /\ outcome \in [Plans \X Slots -> Outcomes]
  BY DEF Init, CmdStatus, Time, VerStatus, Outcomes
<1>6. /\ cfg \in Configs /\ gate \in [Devices -> GateStates] /\ inputs \in BOOLEAN
      /\ worker \in WorkerType
  BY DEF Init, Configs, GateStates, WorkerType
<1>7. client \in [Clients -> ClientType]
  BY DEF Init, NoRequest, ClientType, Requests, PlanStatus, Configs
<1>8. QED
  BY <1>1, <1>2, <1>3, <1>4, <1>5, <1>6, <1>7 DEF TypeOK

(* A new approval is well typed when a policy is in force.                 *)
LEMMA ApproveType ==
  ASSUME NEW p, TypeOK, control.policy # 0, Approve(p)
  PROVE  approvals' \in [Plans -> ApprovalType] /\ plans' \in [Plans -> PlanType]
PROOF
<1>1. policies[control.policy] \in PolicyType
  BY DEF TypeOK, ControlType
<1>2. p \in Plans => HorizonEnd(p) \in Int
  BY ConstantsAssumption DEF TypeOK, PlanType, HorizonEnd, End
<1>3. ASSUME p \in Plans PROVE NewApproval(p) \in ApprovalType
  BY <1>1, <1>2, <1>3 DEF NewApproval, ApprovalType, PolicyType, TypeOK, ControlType
<1>4. QED
  BY <1>3 DEF Approve, TypeOK, PlanType

LEMMA OperatorType ==
  ASSUME TypeOK, NEW c \in Clients
  PROVE  /\ \A kind \in Requests, p \in Plans \cup {0} : ClientLoad(c, kind, p) => TypeOK'
         /\ ClientFails(c) => TypeOK'
         /\ EmergencyStop(c) => TypeOK'
         /\ \A mode \in Modes : ChangeMode(c, mode) => TypeOK'
         /\ \A v \in Policies, d \in Devices, t \in PolicyTerms :
              SavePolicy(c, v, d, t) => TypeOK'
         /\ ApprovePlan(c) => TypeOK'
         /\ \A manual \in BOOLEAN : ApplyPreset(c, manual) => TypeOK'
PROOF
<1>a. client[c] \in ClientType
  BY DEF TypeOK
<1>b. NoRequest \in ClientType
  BY ConstantsAssumption DEF NoRequest, ClientType, Requests, PlanStatus, Configs
<1>c. ASSUME NEW kind, Serves(c, kind) PROVE client' \in [Clients -> ClientType]
  BY <1>b, <1>c DEF Serves, TypeOK
<1>1. ASSUME NEW kind \in Requests, NEW p \in Plans \cup {0}, ClientLoad(c, kind, p)
      PROVE  TypeOK'
  <2>1. (IF p = 0 THEN "none" ELSE plans[p].status) \in PlanStatus
    BY DEF TypeOK, PlanType, PlanStatus
  <2>2. [kind |-> kind, exec |-> execMode, rev |-> control.revision, plan |-> p,
         planStatus |-> IF p = 0 THEN "none" ELSE plans[p].status,
         cfg |-> cfg, policy |-> control.policy] \in ClientType
    BY <2>1 DEF ClientType, TypeOK, ControlType
  <2>3. client' \in [Clients -> ClientType]
    BY <1>1, <2>2 DEF ClientLoad, TypeOK
  <2>4. QED
    BY <1>1, <2>3 DEF ClientLoad, TypeOK
<1>2. ASSUME ClientFails(c) PROVE TypeOK'
  BY <1>2, <1>b DEF ClientFails, TypeOK
<1>3. ASSUME EmergencyStop(c) PROVE TypeOK'
  <2>1. control' \in ControlType /\ execMode' \in {"live", "shadow"}
        /\ status' \in [Keys -> CmdStatus]
    BY <1>3, <1>a, SuspendType DEF EmergencyStop, TypeOK, ClientType, Reasons
  <2>2. client' \in [Clients -> ClientType]
    BY <1>3, <1>c DEF EmergencyStop
  <2>3. QED
    BY <1>3, <2>1, <2>2 DEF EmergencyStop, TypeOK
<1>4. ASSUME NEW mode \in Modes, ChangeMode(c, mode) PROVE TypeOK'
  <2>1. control' \in ControlType
    BY <1>4 DEF ChangeMode, ControlOf, ControlType, TypeOK, Reasons
  <2>2. execMode' \in {"live", "shadow"}
    BY <1>4 DEF ChangeMode, Written, TypeOK
  <2>3. status' \in [Keys -> CmdStatus]
    BY <1>4, CancelPendingCloses DEF ChangeMode, TypeOK
  <2>4. client' \in [Clients -> ClientType]
    BY <1>4, <1>c DEF ChangeMode
  <2>5. QED
    BY <1>4, <2>1, <2>2, <2>3, <2>4 DEF ChangeMode, TypeOK
<1>5. ASSUME NEW v \in Policies, NEW d \in Devices, NEW t \in PolicyTerms,
             SavePolicy(c, v, d, t)
      PROVE  TypeOK'
  <2>1. [control EXCEPT !.policy = v] \in ControlType
    BY DEF TypeOK, ControlType
  <2>2. control' \in ControlType /\ execMode' \in {"live", "shadow"}
        /\ status' \in [Keys -> CmdStatus]
    BY <1>5, <1>a, <2>1, SuspendType DEF SavePolicy, TypeOK, ClientType, Reasons
  <2>3. policies' \in [Policies -> PolicyType]
    BY <1>5, ConstantsAssumption DEF SavePolicy, TypeOK, PolicyType
  <2>4. client' \in [Clients -> ClientType]
    BY <1>5, <1>c DEF SavePolicy
  <2>5. QED
    BY <1>5, <2>2, <2>3, <2>4 DEF SavePolicy, TypeOK
<1>6. ASSUME ApprovePlan(c) PROVE TypeOK'
  <2>1. approvals' \in [Plans -> ApprovalType] /\ plans' \in [Plans -> PlanType]
    BY <1>6, ApproveType DEF ApprovePlan, PolicyCheck
  <2>2. client' \in [Clients -> ClientType]
    BY <1>6, <1>c DEF ApprovePlan
  <2>3. QED
    BY <1>6, <2>1, <2>2 DEF ApprovePlan, TypeOK
<1>7. ASSUME NEW manual \in BOOLEAN, ApplyPreset(c, manual) PROVE TypeOK'
  <2> DEFINE ended == [control EXCEPT !.revision = @ + 1]
  <2>1. ended \in ControlType
    BY DEF TypeOK, ControlType
  <2>2. CancelPending(status, status) \in [Keys -> CmdStatus]
    BY CancelPendingCloses DEF TypeOK
  <2>3. control' \in ControlType /\ execMode' \in {"live", "shadow"}
        /\ status' \in [Keys -> CmdStatus] /\ inputs' \in BOOLEAN
    <3>1. CASE manual
      BY <1>7, <1>a, <2>1, <2>2, <3>1, SuspendType
      DEF ApplyPreset, TypeOK, ClientType, Reasons
    <3>2. CASE ~manual
      BY <1>7, <2>1, <2>2, <3>2 DEF ApplyPreset, TypeOK
    <3>3. QED
      BY <3>1, <3>2
  <2>4. client' \in [Clients -> ClientType]
    BY <1>7, <1>c DEF ApplyPreset
  <2>5. cfg' \in Configs
    BY <1>7, ConstantsAssumption DEF ApplyPreset, TypeOK, Configs
  <2>6. QED
    BY <1>7, <2>3, <2>4, <2>5 DEF ApplyPreset, TypeOK
<1>8. QED
  BY <1>1, <1>2, <1>3, <1>4, <1>5, <1>6, <1>7

LEMMA DeviceType ==
  ASSUME TypeOK
  PROVE  /\ \A d \in Devices, p \in Plans : AcceptPlan(d, p) => TypeOK'
         /\ \A d \in Devices : ListPendingCommands(d) => TypeOK'
         /\ \A k \in Keys : \A answer \in {"accepted", "rejected"} :
              AcknowledgeCommand(k, answer) => TypeOK'
         /\ \A k \in Keys : ReportExecuted(k) => TypeOK'
         /\ \A k \in Keys : ReportFailed(k) => TypeOK'
         /\ \A k \in Keys : \A observed \in Time, match \in BOOLEAN :
              VerifyReadback(k, observed, match) => TypeOK'
PROOF
<1>1. ASSUME NEW d \in Devices, NEW p \in Plans, AcceptPlan(d, p) PROVE TypeOK'
  <2>1. [plans[p] EXCEPT !.status = "accepted_by_device", !.by = d] \in PlanType
    BY DEF TypeOK, PlanType, PlanStatus, ActivePlan
  <2>2. plans' = [plans EXCEPT ![p] = [plans[p] EXCEPT !.status = "accepted_by_device", !.by = d]]
    BY <1>1 DEF AcceptPlan, TypeOK
  <2>3. plans' \in [Plans -> PlanType]
    BY <2>1, <2>2 DEF TypeOK
  <2>4. QED
    BY <1>1, <2>3 DEF AcceptPlan, TypeOK
<1>2. ASSUME NEW d \in Devices, ListPendingCommands(d) PROVE TypeOK'
  <2>1. status' \in [Keys -> CmdStatus]
    BY <1>2, StatusFacts DEF ListPendingCommands, TypeOK
  <2>2. QED
    BY <1>2, <2>1 DEF ListPendingCommands, TypeOK
<1>3. ASSUME NEW k \in Keys, NEW answer \in {"accepted", "rejected"},
             AcknowledgeCommand(k, answer)
      PROVE  TypeOK'
  <2>1. status' \in [Keys -> CmdStatus]
    BY <1>3, StatusFacts DEF AcknowledgeCommand, TypeOK
  <2>2. QED
    BY <1>3, <2>1 DEF AcknowledgeCommand, TypeOK
<1>4. ASSUME NEW k \in Keys, ReportExecuted(k) PROVE TypeOK'
  <2>1. status' \in [Keys -> CmdStatus] /\ executedAt' \in [Keys -> Time]
        /\ ver' \in [Keys -> VerStatus]
    BY <1>4, StatusFacts DEF ReportExecuted, TypeOK, VerStatus
  <2>2. QED
    BY <1>4, <2>1 DEF ReportExecuted, TypeOK
<1>5. ASSUME NEW k \in Keys, ReportFailed(k) PROVE TypeOK'
  <2>1. [status EXCEPT ![k] = "failed"] \in [Keys -> CmdStatus]
    BY StatusFacts DEF TypeOK
  <2>2. control' \in ControlType /\ execMode' \in {"live", "shadow"}
        /\ status' \in [Keys -> CmdStatus]
    BY <1>5, <2>1, SuspendType DEF ReportFailed, TypeOK, Reasons
  <2>3. ver' \in [Keys -> VerStatus]
    BY <1>5 DEF ReportFailed, TypeOK, VerStatus
  <2>4. QED
    BY <1>5, <2>2, <2>3 DEF ReportFailed, TypeOK
<1>6. ASSUME NEW k \in Keys, NEW observed \in Time, NEW match \in BOOLEAN,
             VerifyReadback(k, observed, match)
      PROVE  TypeOK'
  <2>1. control' \in ControlType /\ execMode' \in {"live", "shadow"}
        /\ status' \in [Keys -> CmdStatus]
    <3>1. CASE match
      BY <1>6, <3>1 DEF VerifyReadback, TypeOK
    <3>2. CASE ~match
      BY <1>6, <3>2, SuspendType DEF VerifyReadback, TypeOK, Reasons
    <3>3. QED
      BY <3>1, <3>2
  <2>2. ver' \in [Keys -> VerStatus] /\ evidence' \in [Keys -> Time \cup {-1}]
    BY <1>6 DEF VerifyReadback, TypeOK, VerStatus, ReadBack
  <2>3. QED
    BY <1>6, <2>1, <2>2 DEF VerifyReadback, TypeOK
<1>7. QED
  BY <1>1, <1>2, <1>3, <1>4, <1>5, <1>6

LEMMA ReconcileCaseType ==
  ASSUME TypeOK, NEW k \in Keys,
         \/ ReconcileExpired(k) \/ ReconcileFailed(k)
         \/ ReconcileOverdue(k) \/ ReconcileSettled(k)
  PROVE  /\ control' \in ControlType /\ execMode' \in {"live", "shadow"}
         /\ status' \in [Keys -> CmdStatus] /\ ver' \in [Keys -> VerStatus]
PROOF
<1>a. worker.exec \in {"live", "shadow"}
  BY DEF TypeOK, WorkerType
<1>1. CASE ReconcileExpired(k)
  <2>1. [status EXCEPT ![k] = "expired"] \in [Keys -> CmdStatus]
    BY StatusFacts DEF TypeOK
  <2>2. QED
    BY <1>1, <1>a, <2>1, SuspendType DEF ReconcileExpired, TypeOK, Reasons, VerStatus
<1>2. CASE ReconcileFailed(k)
  BY <1>2, <1>a, SuspendType DEF ReconcileFailed, TypeOK, Reasons, VerStatus
<1>3. CASE ReconcileOverdue(k)
  BY <1>3, <1>a, SuspendType DEF ReconcileOverdue, TypeOK, Reasons, VerStatus
<1>4. CASE ReconcileSettled(k)
  BY <1>4 DEF ReconcileSettled, TypeOK
<1>5. QED
  BY <1>1, <1>2, <1>3, <1>4

LEMMA WorkerStepType ==
  ASSUME TypeOK
  PROVE  /\ WorkerLoad => TypeOK'
         /\ WorkerLock => TypeOK'
         /\ \A k \in Keys : Reconcile(k) => TypeOK'
         /\ Dispatch => TypeOK'
PROOF
<1>1. ASSUME WorkerLoad PROVE TypeOK'
  BY <1>1 DEF WorkerLoad, TypeOK, WorkerType
<1>2. ASSUME WorkerLock PROVE TypeOK'
  <2>1. worker' \in WorkerType
    BY <1>2 DEF WorkerLock, TypeOK, WorkerType
  <2>2. approvals' \in [Plans -> ApprovalType] /\ plans' \in [Plans -> PlanType]
    BY <1>2, ApproveType DEF WorkerLock, PolicyCheck, TypeOK
  <2>3. QED
    BY <1>2, <2>1, <2>2 DEF WorkerLock, TypeOK
<1>3. ASSUME NEW k \in Keys, Reconcile(k) PROVE TypeOK'
  <2>1. worker' \in WorkerType
    BY <1>3 DEF Reconcile, TypeOK, WorkerType
  <2>2. \A complete, deviates \in BOOLEAN : OutcomeOf(k, complete, deviates) \in Outcomes
    BY DEF OutcomeOf, Outcomes
  <2>3. <<k[2], k[3]>> \in Plans \X Slots
    BY DEF Keys
  <2>4. outcome' \in [Plans \X Slots -> Outcomes]
    <3>1. \/ UNCHANGED outcome
          \/ \E complete, deviates \in BOOLEAN :
               outcome' = [outcome EXCEPT ![<<k[2], k[3]>>] = OutcomeOf(k, complete, deviates)]
      BY <1>3 DEF Reconcile, EvaluateInterval
    <3>2. outcome \in [Plans \X Slots -> Outcomes]
      BY DEF TypeOK
    <3>3. ASSUME NEW o \in Outcomes, outcome' = [outcome EXCEPT ![<<k[2], k[3]>>] = o]
          PROVE  outcome' \in [Plans \X Slots -> Outcomes]
      BY <2>3, <3>2, <3>3
    <3>4. QED
      BY <2>2, <3>1, <3>2, <3>3
  <2>5. QED
    BY <1>3, <2>1, <2>4, ReconcileCaseType DEF Reconcile, TypeOK
<1>4. ASSUME Dispatch PROVE TypeOK'
  <2>1. worker' \in WorkerType
    BY <1>4 DEF Dispatch, TypeOK, WorkerType
  <2>2. status' \in [Keys -> CmdStatus]
    BY <1>4, StatusFacts DEF Dispatch, TypeOK
  <2>3. plans' \in [Plans -> PlanType]
    <3>1. \A p \in Plans : [plans[p] EXCEPT !.status = "executing"] \in PlanType
      BY DEF TypeOK, PlanType, PlanStatus, ActivePlan
    <3>2. QED
      BY <1>4, <3>1 DEF Dispatch, TypeOK
  <2>4. QED
    BY <1>4, <2>1, <2>2, <2>3 DEF Dispatch, TypeOK
<1>5. QED
  BY <1>1, <1>2, <1>3, <1>4

LEMMA EnvironmentType ==
  ASSUME TypeOK, Environment
  PROVE  TypeOK'
PROOF
<1> USE ConstantsAssumption
<1>1. CASE Tick
  BY <1>1 DEF Tick, TypeOK, Time
<1>2. CASE ConfigChanges
  BY <1>2 DEF ConfigChanges, TypeOK, Configs
<1>3. CASE InputsChange
  BY <1>3 DEF InputsChange, TypeOK
<1>4. ASSUME NEW d \in Devices, GateChanges(d) PROVE TypeOK'
  BY <1>4 DEF GateChanges, TypeOK
<1>5. ASSUME NEW p \in Plans, NEW c \in Configs, NEW sound \in BOOLEAN,
             PublishPlan(p, c, sound)
      PROVE  TypeOK'
  <2>1. FirstSlotAt(now) \in Nat
    BY DEF FirstSlotAt, TypeOK, Time
  <2>2. [NoPlan EXCEPT !.status = "published", !.sound = sound, !.cfg = c,
                       !.first = FirstSlotAt(now)] \in PlanType
    BY <2>1 DEF NoPlan, PlanType, PlanStatus, ActivePlan
  <2>3. plans' \in [Plans -> PlanType]
    BY <1>5, <2>2 DEF PublishPlan, TypeOK, PlanType, PlanStatus
  <2>4. QED
    BY <1>5, <2>3 DEF PublishPlan, TypeOK
<1>6. QED
  BY <1>1, <1>2, <1>3, <1>4, <1>5 DEF Environment

LEMMA NextType == TypeOK /\ [Next]_vars => TypeOK'
PROOF
<1> SUFFICES ASSUME TypeOK, [Next]_vars PROVE TypeOK'
  OBVIOUS
<1>1. CASE Operator
  BY <1>1, OperatorType DEF Operator
<1>2. CASE Device
  BY <1>2, DeviceType DEF Device
<1>3. CASE Worker
  BY <1>3, WorkerStepType DEF Worker
<1>4. CASE Environment
  BY <1>4, EnvironmentType
<1>5. CASE UNCHANGED vars
  BY <1>5 DEF vars, TypeOK
<1>6. QED
  BY <1>1, <1>2, <1>3, <1>4, <1>5 DEF Next

(* Every reachable state is well typed.                                    *)
THEOREM TypeCorrect == Spec => []TypeOK
PROOF
<1>1. QED
  BY InitType, NextType, PTL DEF Spec

(***************************************************************************)
(* Open commands belong to the current session of control                  *)
(***************************************************************************)
NothingOpen == \A k \in Keys : status[k] \notin OpenCmd

(* The inductive invariant.  Revisions start at 1, so that 0, the revision *)
(* of a plan that is not approved, is never the current one.               *)
SessionInv ==
  /\ TypeOK
  /\ control.revision >= 1
  /\ OpenUnderCurrentApproval

LEMMA InitSession == Init => SessionInv
PROOF BY InitType, StatusFacts DEF Init, SessionInv, OpenUnderCurrentApproval

(* However a handler comes to suspend, no open command is left: either     *)
(* they are withdrawn now, or the station was suspended and had none.      *)
LEMMA SuspendCloses ==
  ASSUME SessionInv, NEW why \in Reasons, NEW base \in ControlType,
         NEW cached \in {"live", "shadow"},
         NEW db \in [Keys -> CmdStatus], NEW mem \in [Keys -> CmdStatus],
         base.mode = control.mode, base.revision >= control.revision,
         \A k \in Keys : mem[k] \in OpenCmd => status[k] \in OpenCmd /\ db[k] \in OpenCmd,
         Suspend(why, base, cached, db, mem)
  PROVE  /\ NothingOpen'
         /\ control'.mode = "suspended"
         /\ control'.revision >= control.revision
PROOF
<1>1. CASE base.mode = "suspended" /\ base.reason = why
  BY <1>1, StatusFacts DEF Suspend, SessionInv, OpenUnderCurrentApproval, NothingOpen
<1>2. CASE ~(base.mode = "suspended" /\ base.reason = why)
  <2>1. NothingOpen'
    BY <1>2, CancelPendingCloses DEF Suspend, NothingOpen
  <2>2. control'.mode = "suspended" /\ control'.revision >= control.revision
    BY <1>2 DEF Suspend, ControlOf, ControlType, SessionInv, TypeOK
  <2>3. QED
    BY <2>1, <2>2
<1>3. QED
  BY <1>1, <1>2

(* Steps that leave nothing open, and steps that open nothing and touch    *)
(* neither the control row nor an approval already given.                  *)
LEMMA NothingOpenSuffices ==
  ASSUME SessionInv, TypeOK', NothingOpen', control'.revision >= control.revision
  PROVE  SessionInv'
PROOF BY DEF SessionInv, NothingOpen, OpenUnderCurrentApproval, TypeOK, ControlType

LEMMA OpenKept ==
  ASSUME SessionInv, TypeOK', UNCHANGED control,
         \A p \in Plans : approvals[p].rev # 0 => approvals'[p] = approvals[p],
         \A k \in Keys : status'[k] \in OpenCmd => status[k] \in OpenCmd
  PROVE  SessionInv'
PROOF
<1>1. \A k \in Keys : k[2] \in Plans
  BY DEF Keys
<1>2. QED
  BY <1>1 DEF SessionInv, OpenUnderCurrentApproval

LEMMA NextSession == SessionInv /\ [Next]_vars => SessionInv'
PROOF
<1> SUFFICES ASSUME SessionInv, [Next]_vars PROVE SessionInv'
  OBVIOUS
<1>t. TypeOK'
  BY NextType DEF SessionInv
<1>s. /\ TypeOK /\ control \in ControlType /\ status \in [Keys -> CmdStatus]
      /\ execMode \in {"live", "shadow"} /\ worker.exec \in {"live", "shadow"}
      /\ \A c \in Clients : client[c].exec \in {"live", "shadow"}
  BY DEF SessionInv, TypeOK, WorkerType, ClientType
<1>1. CASE Operator
  <2> SUFFICES ASSUME NEW c \in Clients,
        \/ \E kind \in Requests, p \in Plans \cup {0} : ClientLoad(c, kind, p)
        \/ ClientFails(c)
        \/ EmergencyStop(c)
        \/ \E mode \in Modes : ChangeMode(c, mode)
        \/ \E v \in Policies, d \in Devices, t \in PolicyTerms : SavePolicy(c, v, d, t)
        \/ ApprovePlan(c)
        \/ \E manual \in BOOLEAN : ApplyPreset(c, manual)
      PROVE SessionInv'
    BY <1>1 DEF Operator
  <2>1. CASE \E kind \in Requests, p \in Plans \cup {0} : ClientLoad(c, kind, p)
    BY <2>1, <1>t, OpenKept DEF ClientLoad
  <2>2. CASE ClientFails(c)
    BY <2>2, <1>t, OpenKept DEF ClientFails
  <2>3. CASE EmergencyStop(c)
    <3>1. NothingOpen' /\ control'.revision >= control.revision
      BY <2>3, <1>s, SuspendCloses DEF EmergencyStop, Reasons, ControlType
    <3>2. QED
      BY <1>t, <3>1, NothingOpenSuffices
  <2>4. CASE \E mode \in Modes : ChangeMode(c, mode)
    <3>1. NothingOpen'
      BY <2>4, <1>s, CancelPendingCloses DEF ChangeMode, NothingOpen
    <3>2. control'.revision >= control.revision
      BY <2>4, <1>s DEF ChangeMode, ControlOf, ControlType
    <3>3. QED
      BY <1>t, <3>1, <3>2, NothingOpenSuffices
  <2>5. CASE \E v \in Policies, d \in Devices, t \in PolicyTerms : SavePolicy(c, v, d, t)
    <3>1. PICK v \in Policies, d \in Devices, t \in PolicyTerms : SavePolicy(c, v, d, t)
      BY <2>5
    <3> DEFINE base == [control EXCEPT !.policy = v]
    <3>2. base \in ControlType /\ base.mode = control.mode /\ base.revision >= control.revision
      BY <1>s DEF ControlType
    <3>3. Suspend("policy_changed", base, client[c].exec, status, status)
      BY <3>1 DEF SavePolicy
    <3> HIDE DEF base
    <3>4. NothingOpen' /\ control'.revision >= control.revision
      BY <3>2, <3>3, <1>s, SuspendCloses DEF Reasons
    <3>5. QED
      BY <1>t, <3>4, NothingOpenSuffices
  <2>6. CASE ApprovePlan(c)
    BY <2>6, <1>t, OpenKept DEF ApprovePlan, Approve, NotApproved, SessionInv, TypeOK
  <2>7. CASE \E manual \in BOOLEAN : ApplyPreset(c, manual)
    <3>1. PICK manual \in BOOLEAN : ApplyPreset(c, manual)
      BY <2>7
    <3> DEFINE ended == [control EXCEPT !.revision = @ + 1]
    <3> DEFINE closed == CancelPending(status, status)
    <3>2. ended \in ControlType /\ ended.mode = control.mode
          /\ ended.revision >= control.revision
      BY <1>s DEF ControlType
    <3>3. closed \in [Keys -> CmdStatus] /\ \A k \in Keys : closed[k] \notin OpenCmd
      BY <1>s, CancelPendingCloses
    <3>4. NothingOpen' /\ control'.revision >= control.revision
      <4>1. CASE manual
        <5>1. Suspend("manual_override", ended, client[c].exec, status, closed)
          BY <3>1, <4>1 DEF ApplyPreset
        <5> HIDE DEF ended, closed
        <5>2. QED
          BY <3>2, <3>3, <5>1, <1>s, SuspendCloses DEF Reasons
      <4>2. CASE ~manual
        BY <3>1, <3>2, <3>3, <4>2 DEF ApplyPreset, NothingOpen
      <4>3. QED
        BY <4>1, <4>2
    <3>5. QED
      BY <1>t, <3>4, NothingOpenSuffices
  <2>8. QED
    BY <2>1, <2>2, <2>3, <2>4, <2>5, <2>6, <2>7
<1>2. CASE Device
  <2>1. ASSUME NEW d \in Devices, NEW p \in Plans, AcceptPlan(d, p) PROVE SessionInv'
    BY <2>1, <1>t, OpenKept DEF AcceptPlan
  <2>2. ASSUME NEW d \in Devices, ListPendingCommands(d) PROVE SessionInv'
    <3>1. \A k \in Keys : status'[k] \in OpenCmd => status[k] \in OpenCmd
      BY <2>2, <1>s DEF ListPendingCommands
    <3>2. QED
      BY <2>2, <3>1, <1>t, OpenKept DEF ListPendingCommands
  <2>3. ASSUME NEW k \in Keys, NEW answer \in {"accepted", "rejected"},
               AcknowledgeCommand(k, answer)
        PROVE  SessionInv'
    <3>1. \A l \in Keys : status'[l] \in OpenCmd => status[l] \in OpenCmd
      BY <2>3, <1>s, StatusFacts DEF AcknowledgeCommand, Answerable
    <3>2. QED
      BY <2>3, <3>1, <1>t, OpenKept DEF AcknowledgeCommand
  <2>4. ASSUME NEW k \in Keys, ReportExecuted(k) PROVE SessionInv'
    <3>1. \A l \in Keys : status'[l] \in OpenCmd => status[l] \in OpenCmd
      BY <2>4, <1>s, StatusFacts DEF ReportExecuted
    <3>2. QED
      BY <2>4, <3>1, <1>t, OpenKept DEF ReportExecuted
  <2>5. ASSUME NEW k \in Keys, ReportFailed(k) PROVE SessionInv'
    <3> DEFINE failed == [status EXCEPT ![k] = "failed"]
    <3>1. /\ failed \in [Keys -> CmdStatus]
          /\ \A l \in Keys : failed[l] \in OpenCmd => status[l] \in OpenCmd
      BY <1>s, StatusFacts
    <3>2. Suspend("partial_execution_failure", control, execMode, failed, failed)
      BY <2>5 DEF ReportFailed
    <3> HIDE DEF failed
    <3>3. NothingOpen' /\ control'.revision >= control.revision
      BY <3>1, <3>2, <1>s, SuspendCloses DEF Reasons, ControlType
    <3>4. QED
      BY <1>t, <3>3, NothingOpenSuffices
  <2>6. ASSUME NEW k \in Keys, NEW observed \in Time, NEW match \in BOOLEAN,
               VerifyReadback(k, observed, match)
        PROVE  SessionInv'
    <3>1. CASE match
      BY <2>6, <3>1, <1>t, OpenKept DEF VerifyReadback
    <3>2. CASE ~match
      <4>1. NothingOpen' /\ control'.revision >= control.revision
        BY <2>6, <3>2, <1>s, SuspendCloses DEF VerifyReadback, Reasons, ControlType
      <4>2. QED
        BY <1>t, <4>1, NothingOpenSuffices
    <3>3. QED
      BY <3>1, <3>2
  <2>7. QED
    BY <1>2, <2>1, <2>2, <2>3, <2>4, <2>5, <2>6 DEF Device
<1>3. CASE Worker
  <2>1. CASE WorkerLoad
    BY <2>1, <1>t, OpenKept DEF WorkerLoad
  <2>2. CASE WorkerLock
    BY <2>2, <1>t, OpenKept DEF WorkerLock, Approve, NotApproved, SessionInv, TypeOK
  <2>3. ASSUME NEW k \in Keys, Reconcile(k) PROVE SessionInv'
    <3>1. CASE ReconcileExpired(k)
      <4> DEFINE expired == [status EXCEPT ![k] = "expired"]
      <4>1. /\ expired \in [Keys -> CmdStatus]
            /\ \A l \in Keys : expired[l] \in OpenCmd => status[l] \in OpenCmd
        BY <1>s, StatusFacts
      <4>2. Suspend("partial_execution_failure", control, worker.exec, status, expired)
        BY <3>1 DEF ReconcileExpired
      <4> HIDE DEF expired
      <4>3. NothingOpen' /\ control'.revision >= control.revision
        BY <4>1, <4>2, <1>s, SuspendCloses DEF Reasons, ControlType
      <4>4. QED
        BY <1>t, <4>3, NothingOpenSuffices
    <3>2. CASE ReconcileFailed(k)
      <4>1. NothingOpen' /\ control'.revision >= control.revision
        BY <3>2, <1>s, SuspendCloses DEF ReconcileFailed, Reasons, ControlType
      <4>2. QED
        BY <1>t, <4>1, NothingOpenSuffices
    <3>3. CASE ReconcileOverdue(k)
      <4>1. NothingOpen' /\ control'.revision >= control.revision
        BY <3>3, <1>s, SuspendCloses DEF ReconcileOverdue, Reasons, ControlType
      <4>2. QED
        BY <1>t, <4>1, NothingOpenSuffices
    <3>4. CASE ReconcileSettled(k)
      BY <2>3, <3>4, <1>t, OpenKept DEF Reconcile, ReconcileSettled
    <3>5. QED
      BY <2>3, <3>1, <3>2, <3>3, <3>4 DEF Reconcile
  <2>4. CASE Dispatch
    <3> SUFFICES ASSUME NEW k \in Keys, status'[k] \in OpenCmd
                 PROVE  /\ control.mode \in LiveModes
                        /\ approvals[k[2]].rev = control.revision
                        /\ approvals[k[2]].mode = control.mode
                        /\ approvals[k[2]].policy = control.policy
                        /\ approvals[k[2]].device = k[1]
      BY <2>4, <1>t DEF Dispatch, SessionInv, OpenUnderCurrentApproval
    <3>1. CASE Dispatchable(k)
      BY <3>1 DEF Dispatchable, ExecutionAuthorized, ApprovedFor
    <3>2. CASE ~Dispatchable(k)
      BY <2>4, <3>2 DEF Dispatch, SessionInv, OpenUnderCurrentApproval
    <3>3. QED
      BY <3>1, <3>2
  <2>5. QED
    BY <1>3, <2>1, <2>2, <2>3, <2>4 DEF Worker
<1>4. CASE Environment
  <2>1. /\ UNCHANGED <<control, approvals, status>>
    BY <1>4 DEF Environment, Tick, ConfigChanges, InputsChange, GateChanges, PublishPlan
  <2>2. QED
    BY <2>1, <1>t, OpenKept
<1>5. CASE UNCHANGED vars
  BY <1>5, <1>t, OpenKept DEF vars
<1>6. QED
  BY <1>1, <1>2, <1>3, <1>4, <1>5 DEF Next

(* In every reachable state the commands a device may still act on were    *)
(* approved in the current session of control, for that device.            *)
THEOREM OpenCommandsAreApproved == Spec => []OpenUnderCurrentApproval
PROOF
<1>1. SessionInv => OpenUnderCurrentApproval
  BY DEF SessionInv
<1>2. QED
  BY InitSession, NextSession, <1>1, PTL DEF Spec

(***************************************************************************)
(* What a step may do to the control row, the requests and the commands    *)
(***************************************************************************)
(* The control row stays as it was, or a new session of control begins     *)
(* without open commands and, if it is live, with a live station, or a     *)
(* suspended station is suspended for the same reason again.               *)
ControlMoves ==
  \/ UNCHANGED controlVars
  \/ /\ NothingOpen'
     /\ control'.revision > control.revision
     /\ control'.mode \in LiveModes => execMode' = "live"
  \/ /\ NothingOpen'
     /\ control.mode = "suspended" /\ control'.mode = "suspended"
     /\ control'.revision = control.revision
     /\ UNCHANGED execMode

(* A request is over, stays as it is, or has read the current session.     *)
ClientMoves ==
  \A c \in Clients :
    \/ client'[c] = client[c]
    \/ client'[c] = NoRequest
    \/ /\ client'[c].rev = control.revision /\ client'[c].exec = execMode
       /\ UNCHANGED controlVars

(* No command is created, and one that ended does not come back.           *)
CommandsProceed ==
  \A k \in Keys :
    /\ status[k] = "none" => status'[k] = "none"
    /\ status[k] \in OpenCmd => status'[k] \in OpenCmd \cup Terminal
    /\ status[k] \in Terminal => status'[k] \in Terminal

(* A failure, a mismatch or a missing read-back that the step records      *)
(* leaves the station suspended.                                           *)
FailuresSuspend ==
  \/ /\ control'.mode = "suspended"
     /\ NothingOpen'
  \/ \A k \in Keys :
       ver'[k] \in {"failed", "read_back_mismatch", "read_back_timeout"} => ver'[k] = ver[k]

StepFacts == ControlMoves /\ ClientMoves /\ CommandsProceed /\ FailuresSuspend

(* The sessions of the commands, and what the requests in flight have      *)
(* read: whoever holds the current revision has seen the current execution *)
(* mode.  Without this part a change of mode that leaves the cached mode   *)
(* unwritten could start a live session of a shadow station.               *)
StationInv ==
  /\ SessionInv
  /\ LiveControlHasLiveStation
  /\ \A c \in Clients :
       /\ client[c].rev <= control.revision
       /\ client[c].rev = control.revision => client[c].exec = execMode

LEMMA SuspendSteps ==
  ASSUME SessionInv, NEW why \in Reasons, NEW base \in ControlType,
         NEW cached \in {"live", "shadow"},
         NEW db \in [Keys -> CmdStatus], NEW mem \in [Keys -> CmdStatus],
         base.mode = control.mode, base.revision >= control.revision,
         \A k \in Keys :
           /\ mem[k] \in OpenCmd => status[k] \in OpenCmd /\ db[k] \in OpenCmd
           /\ db[k] \in OpenCmd => status[k] \in OpenCmd
           /\ status[k] = "none" => mem[k] = "none"
           /\ status[k] \in OpenCmd => mem[k] \in OpenCmd \cup Terminal
           /\ status[k] \in Terminal => mem[k] \in Terminal,
         Suspend(why, base, cached, db, mem)
  PROVE  /\ ControlMoves /\ CommandsProceed
         /\ control'.mode = "suspended" /\ NothingOpen'
PROOF
<1>1. control'.mode = "suspended" /\ NothingOpen'
  BY SuspendCloses
<1>2. control.revision \in Nat /\ base.revision \in Nat
  BY DEF SessionInv, TypeOK, ControlType
<1>3. CASE base.mode = "suspended" /\ base.reason = why
  <2>1. control' = base /\ status' = mem /\ UNCHANGED execMode
    BY <1>3 DEF Suspend
  <2>2. ControlMoves
    BY <1>1, <1>2, <1>3, <2>1, StatusFacts DEF ControlMoves
  <2>3. CommandsProceed
    BY <2>1 DEF CommandsProceed
  <2>4. QED
    BY <1>1, <2>2, <2>3
<1>4. CASE ~(base.mode = "suspended" /\ base.reason = why)
  <2>1. control' = ControlOf("suspended", why, base) /\ status' = CancelPending(db, mem)
    BY <1>4 DEF Suspend
  <2>2. control'.revision > control.revision
    BY <1>2, <2>1 DEF ControlOf
  <2>3. ControlMoves
    BY <1>1, <2>2, StatusFacts DEF ControlMoves
  <2>4. CommandsProceed
    BY <2>1, CancelPendingCloses, StatusFacts DEF CommandsProceed
  <2>5. QED
    BY <1>1, <2>3, <2>4
<1>5. QED
  BY <1>3, <1>4

(* A step that leaves control and commands alone.                          *)
LEMMA QuietStep ==
  ASSUME TypeOK, UNCHANGED <<control, execMode, status, ver>>, ClientMoves
  PROVE  StepFacts
PROOF BY StatusFacts DEF StepFacts, ControlMoves, CommandsProceed, FailuresSuspend, TypeOK

LEMMA OperatorSteps ==
  ASSUME StationInv, Operator
  PROVE  StepFacts
PROOF
<1>s. /\ SessionInv /\ TypeOK /\ control \in ControlType /\ status \in [Keys -> CmdStatus]
      /\ execMode \in {"live", "shadow"}
      /\ \A c \in Clients : client[c].exec \in {"live", "shadow"}
  BY DEF StationInv, SessionInv, TypeOK, ClientType
<1>f. \A k \in Keys :
        \/ status[k] = "none" /\ status[k] \notin OpenCmd
        \/ status[k] \in OpenCmd
        \/ status[k] \in Terminal /\ status[k] \notin OpenCmd
  BY <1>s, StatusFacts
<1> SUFFICES ASSUME NEW c \in Clients,
      \/ \E kind \in Requests, p \in Plans \cup {0} : ClientLoad(c, kind, p)
      \/ ClientFails(c)
      \/ EmergencyStop(c)
      \/ \E mode \in Modes : ChangeMode(c, mode)
      \/ \E v \in Policies, d \in Devices, t \in PolicyTerms : SavePolicy(c, v, d, t)
      \/ ApprovePlan(c)
      \/ \E manual \in BOOLEAN : ApplyPreset(c, manual)
    PROVE StepFacts
  BY DEF Operator
<1>c. ASSUME NEW kind, Serves(c, kind) PROVE ClientMoves
  BY <1>s, <1>c DEF Serves, ClientMoves, TypeOK
<1>1. CASE \E kind \in Requests, p \in Plans \cup {0} : ClientLoad(c, kind, p)
  <2>1. ClientMoves
    BY <1>1, <1>s DEF ClientLoad, ClientMoves, TypeOK
  <2>2. QED
    BY <1>1, <1>s, <2>1, QuietStep DEF ClientLoad
<1>2. CASE ClientFails(c)
  <2>1. ClientMoves
    BY <1>2, <1>s DEF ClientFails, ClientMoves, TypeOK
  <2>2. QED
    BY <1>2, <1>s, <2>1, QuietStep DEF ClientFails
<1>3. CASE EmergencyStop(c)
  <2>1. Suspend("user_emergency_stop", control, client[c].exec, status, status)
        /\ UNCHANGED ver /\ ClientMoves
    BY <1>3, <1>c DEF EmergencyStop
  <2>2. ControlMoves /\ CommandsProceed /\ control'.mode = "suspended" /\ NothingOpen'
    BY <2>1, <1>s, <1>f, SuspendSteps DEF Reasons, ControlType
  <2>3. QED
    BY <2>1, <2>2 DEF StepFacts, FailuresSuspend
<1>4. CASE \E mode \in Modes : ChangeMode(c, mode)
  <2>1. PICK mode \in Modes : ChangeMode(c, mode)
    BY <1>4
  <2>2. ClientMoves /\ UNCHANGED ver
    BY <2>1, <1>c DEF ChangeMode
  <2>3. status' = CancelPending(status, status)
    BY <2>1 DEF ChangeMode
  <2>4. NothingOpen' /\ CommandsProceed
    BY <2>3, <1>s, <1>f, CancelPendingCloses, StatusFacts DEF NothingOpen, CommandsProceed
  <2>5. control'.revision > control.revision
    BY <2>1, <1>s DEF ChangeMode, ControlOf, ControlType
  <2>6. control'.mode \in LiveModes => execMode' = "live"
    <3>1. control'.mode = mode
      BY <2>1 DEF ChangeMode, ControlOf
    <3>2. client[c].exec = execMode
      BY <2>1 DEF ChangeMode, ExpectedRevision, StationInv
    <3>3. QED
      BY <2>1, <3>1, <3>2 DEF ChangeMode, Written
  <2>7. ControlMoves
    BY <2>4, <2>5, <2>6 DEF ControlMoves
  <2>8. QED
    BY <2>2, <2>4, <2>7 DEF StepFacts, FailuresSuspend
<1>5. CASE \E v \in Policies, d \in Devices, t \in PolicyTerms : SavePolicy(c, v, d, t)
  <2>1. PICK v \in Policies, d \in Devices, t \in PolicyTerms : SavePolicy(c, v, d, t)
    BY <1>5
  <2> DEFINE base == [control EXCEPT !.policy = v]
  <2>2. base \in ControlType /\ base.mode = control.mode /\ base.revision >= control.revision
    BY <1>s DEF ControlType
  <2>3. Suspend("policy_changed", base, client[c].exec, status, status)
        /\ UNCHANGED ver /\ ClientMoves
    BY <2>1, <1>c DEF SavePolicy
  <2> HIDE DEF base
  <2>4. ControlMoves /\ CommandsProceed /\ control'.mode = "suspended" /\ NothingOpen'
    BY <2>2, <2>3, <1>s, <1>f, SuspendSteps DEF Reasons
  <2>5. QED
    BY <2>3, <2>4 DEF StepFacts, FailuresSuspend
<1>6. CASE ApprovePlan(c)
  BY <1>6, <1>s, <1>c, QuietStep DEF ApprovePlan
<1>7. CASE \E manual \in BOOLEAN : ApplyPreset(c, manual)
  <2>1. PICK manual \in BOOLEAN : ApplyPreset(c, manual)
    BY <1>7
  <2> DEFINE ended == [control EXCEPT !.revision = @ + 1]
  <2> DEFINE closed == CancelPending(status, status)
  <2>2. ended \in ControlType /\ ended.mode = control.mode
        /\ ended.revision > control.revision /\ ended.revision >= control.revision
    BY <1>s DEF ControlType
  <2>3. /\ closed \in [Keys -> CmdStatus]
        /\ \A k \in Keys : /\ closed[k] \notin OpenCmd
                           /\ closed[k] = IF status[k] \in OpenCmd THEN "superseded"
                                          ELSE status[k]
    BY <1>s, CancelPendingCloses
  <2>4. UNCHANGED ver /\ ClientMoves
    BY <2>1, <1>c DEF ApplyPreset
  <2>5. CASE manual
    <3>1. Suspend("manual_override", ended, client[c].exec, status, closed)
      BY <2>1, <2>5 DEF ApplyPreset
    <3> HIDE DEF ended, closed
    <3>2. \A k \in Keys :
            /\ closed[k] \in OpenCmd => status[k] \in OpenCmd
            /\ status[k] = "none" => closed[k] = "none"
            /\ status[k] \in OpenCmd => closed[k] \in OpenCmd \cup Terminal
            /\ status[k] \in Terminal => closed[k] \in Terminal
      BY <2>3, <1>f, StatusFacts
    <3>3. ControlMoves /\ CommandsProceed /\ control'.mode = "suspended" /\ NothingOpen'
      BY <2>2, <2>3, <3>1, <3>2, <1>s, SuspendSteps DEF Reasons
    <3>4. QED
      BY <2>4, <3>3 DEF StepFacts, FailuresSuspend
  <2>6. CASE ~manual
    <3>1. control' = ended /\ status' = closed /\ UNCHANGED execMode
          /\ control.mode = "assisted"
      BY <2>1, <2>6 DEF ApplyPreset
    <3>2. execMode = "live"
      BY <3>1 DEF StationInv, LiveControlHasLiveStation, LiveModes
    <3> HIDE DEF ended, closed
    <3>3. NothingOpen'
      BY <2>3, <3>1 DEF NothingOpen
    <3>4. ControlMoves
      BY <2>2, <3>1, <3>2, <3>3 DEF ControlMoves
    <3>5. CommandsProceed
      BY <2>3, <3>1, <1>f, StatusFacts DEF CommandsProceed
    <3>6. QED
      BY <2>4, <3>4, <3>5 DEF StepFacts, FailuresSuspend
  <2>7. QED
    BY <2>5, <2>6
<1>8. QED
  BY <1>1, <1>2, <1>3, <1>4, <1>5, <1>6, <1>7

LEMMA DeviceSteps ==
  ASSUME SessionInv, Device
  PROVE  StepFacts
PROOF
<1>s. /\ TypeOK /\ control \in ControlType /\ status \in [Keys -> CmdStatus]
      /\ execMode \in {"live", "shadow"} /\ ver \in [Keys -> VerStatus]
  BY DEF SessionInv, TypeOK
<1>f. \A k \in Keys :
        \/ status[k] = "none" /\ status[k] \notin OpenCmd
        \/ status[k] \in OpenCmd
        \/ status[k] \in Terminal /\ status[k] \notin OpenCmd
  BY <1>s, StatusFacts
<1>c. UNCHANGED client => ClientMoves
  BY DEF ClientMoves
<1>1. ASSUME NEW d \in Devices, NEW p \in Plans, AcceptPlan(d, p) PROVE StepFacts
  BY <1>1, <1>s, <1>c, QuietStep DEF AcceptPlan
<1>2. ASSUME NEW d \in Devices, ListPendingCommands(d) PROVE StepFacts
  <2>1. \A k \in Keys : status'[k] = status[k] \/
          (status[k] \in OpenCmd /\ status'[k] \in OpenCmd \cup Terminal)
    BY <1>2, <1>s, StatusFacts DEF ListPendingCommands
  <2>2. CommandsProceed
    BY <2>1, <1>f, StatusFacts DEF CommandsProceed
  <2>3. UNCHANGED <<controlVars, ver, client>>
    BY <1>2 DEF ListPendingCommands
  <2>4. QED
    BY <2>2, <2>3, <1>c DEF StepFacts, ControlMoves, FailuresSuspend
<1>3. ASSUME NEW k \in Keys, NEW answer \in {"accepted", "rejected"},
             AcknowledgeCommand(k, answer)
      PROVE  StepFacts
  <2>1. \A l \in Keys : status'[l] = status[l] \/
          (status[l] \in OpenCmd /\ status'[l] \in OpenCmd \cup Terminal)
    BY <1>3, <1>s, StatusFacts DEF AcknowledgeCommand, Answerable
  <2>2. CommandsProceed
    BY <2>1, <1>f, StatusFacts DEF CommandsProceed
  <2>3. UNCHANGED <<controlVars, ver, client>>
    BY <1>3 DEF AcknowledgeCommand
  <2>4. QED
    BY <2>2, <2>3, <1>c DEF StepFacts, ControlMoves, FailuresSuspend
<1>4. ASSUME NEW k \in Keys, ReportExecuted(k) PROVE StepFacts
  <2>1. \A l \in Keys : status'[l] = status[l] \/
          (status[l] \in OpenCmd /\ status'[l] \in OpenCmd \cup Terminal)
    BY <1>4, <1>s, StatusFacts DEF ReportExecuted
  <2>2. CommandsProceed
    BY <2>1, <1>f, StatusFacts DEF CommandsProceed
  <2>3. FailuresSuspend
    BY <1>4, <1>s DEF ReportExecuted, FailuresSuspend
  <2>4. UNCHANGED <<controlVars, client>>
    BY <1>4 DEF ReportExecuted
  <2>5. QED
    BY <2>2, <2>3, <2>4, <1>c DEF StepFacts, ControlMoves
<1>5. ASSUME NEW k \in Keys, ReportFailed(k) PROVE StepFacts
  <2> DEFINE failed == [status EXCEPT ![k] = "failed"]
  <2>1. /\ failed \in [Keys -> CmdStatus] /\ status[k] \in OpenCmd
        /\ \A l \in Keys : failed[l] = status[l] \/ (l = k /\ failed[l] \in Terminal)
    BY <1>5, <1>s, StatusFacts DEF ReportFailed
  <2>2. Suspend("partial_execution_failure", control, execMode, failed, failed)
        /\ UNCHANGED client
    BY <1>5 DEF ReportFailed
  <2> HIDE DEF failed
  <2>3. \A l \in Keys :
          /\ failed[l] \in OpenCmd => status[l] \in OpenCmd
          /\ status[l] = "none" => failed[l] = "none"
          /\ status[l] \in OpenCmd => failed[l] \in OpenCmd \cup Terminal
          /\ status[l] \in Terminal => failed[l] \in Terminal
    BY <2>1, <1>f, StatusFacts
  <2>4. ControlMoves /\ CommandsProceed /\ control'.mode = "suspended" /\ NothingOpen'
    BY <2>1, <2>2, <2>3, <1>s, SuspendSteps DEF Reasons, ControlType
  <2>5. QED
    BY <2>2, <2>4, <1>c DEF StepFacts, FailuresSuspend
<1>6. ASSUME NEW k \in Keys, NEW observed \in Time, NEW match \in BOOLEAN,
             VerifyReadback(k, observed, match)
      PROVE  StepFacts
  <2>1. CASE match
    <3>1. UNCHANGED <<controlVars, status, client>>
      BY <1>6, <2>1 DEF VerifyReadback
    <3>2. FailuresSuspend
      BY <1>6, <1>s, <2>1 DEF VerifyReadback, FailuresSuspend
    <3>3. CommandsProceed
      BY <3>1, StatusFacts DEF CommandsProceed
    <3>4. QED
      BY <3>1, <3>2, <3>3, <1>c DEF StepFacts, ControlMoves
  <2>2. CASE ~match
    <3>1. Suspend("read_back_mismatch", control, execMode, status, status)
          /\ UNCHANGED client
      BY <1>6, <2>2 DEF VerifyReadback
    <3>2. ControlMoves /\ CommandsProceed /\ control'.mode = "suspended" /\ NothingOpen'
      BY <3>1, <1>s, <1>f, SuspendSteps DEF Reasons, ControlType
    <3>3. QED
      BY <3>1, <3>2, <1>c DEF StepFacts, FailuresSuspend
  <2>3. QED
    BY <2>1, <2>2
<1>7. QED
  BY <1>1, <1>2, <1>3, <1>4, <1>5, <1>6 DEF Device

LEMMA WorkerSteps ==
  ASSUME SessionInv, Worker
  PROVE  StepFacts \/ Dispatch
PROOF
<1>s. /\ TypeOK /\ control \in ControlType /\ status \in [Keys -> CmdStatus]
      /\ execMode \in {"live", "shadow"} /\ worker.exec \in {"live", "shadow"}
  BY DEF SessionInv, TypeOK, WorkerType
<1>f. \A k \in Keys :
        \/ status[k] = "none" /\ status[k] \notin OpenCmd
        \/ status[k] \in OpenCmd
        \/ status[k] \in Terminal /\ status[k] \notin OpenCmd
  BY <1>s, StatusFacts
<1>c. UNCHANGED client => ClientMoves
  BY DEF ClientMoves
<1>1. CASE WorkerLoad
  BY <1>1, <1>s, <1>c, QuietStep DEF WorkerLoad
<1>2. CASE WorkerLock
  BY <1>2, <1>s, <1>c, QuietStep DEF WorkerLock
<1>3. ASSUME NEW k \in Keys, Reconcile(k) PROVE StepFacts
  <2>c. ClientMoves
    BY <1>3, <1>c DEF Reconcile
  <2>1. CASE ReconcileExpired(k)
    <3> DEFINE expired == [status EXCEPT ![k] = "expired"]
    <3>1. /\ expired \in [Keys -> CmdStatus] /\ status[k] \in OpenCmd
          /\ \A l \in Keys : expired[l] = status[l] \/ (l = k /\ expired[l] \in Terminal)
      BY <2>1, <1>s, StatusFacts DEF ReconcileExpired, Lapsed
    <3>2. Suspend("partial_execution_failure", control, worker.exec, status, expired)
      BY <2>1 DEF ReconcileExpired
    <3> HIDE DEF expired
    <3>3. \A l \in Keys :
            /\ expired[l] \in OpenCmd => status[l] \in OpenCmd
            /\ status[l] = "none" => expired[l] = "none"
            /\ status[l] \in OpenCmd => expired[l] \in OpenCmd \cup Terminal
            /\ status[l] \in Terminal => expired[l] \in Terminal
      BY <3>1, <1>f, StatusFacts
    <3>4. ControlMoves /\ CommandsProceed /\ control'.mode = "suspended" /\ NothingOpen'
      BY <3>1, <3>2, <3>3, <1>s, SuspendSteps DEF Reasons, ControlType
    <3>5. QED
      BY <3>4, <2>c DEF StepFacts, FailuresSuspend
  <2>2. CASE ReconcileFailed(k)
    <3>1. ControlMoves /\ CommandsProceed /\ control'.mode = "suspended" /\ NothingOpen'
      BY <2>2, <1>s, <1>f, SuspendSteps DEF ReconcileFailed, Reasons, ControlType
    <3>2. QED
      BY <3>1, <2>c DEF StepFacts, FailuresSuspend
  <2>3. CASE ReconcileOverdue(k)
    <3>1. ControlMoves /\ CommandsProceed /\ control'.mode = "suspended" /\ NothingOpen'
      BY <2>3, <1>s, <1>f, SuspendSteps DEF ReconcileOverdue, Reasons, ControlType
    <3>2. QED
      BY <3>1, <2>c DEF StepFacts, FailuresSuspend
  <2>4. CASE ReconcileSettled(k)
    BY <2>4, <2>c, <1>s, QuietStep DEF ReconcileSettled
  <2>5. QED
    BY <1>3, <2>1, <2>2, <2>3, <2>4 DEF Reconcile
<1>4. QED
  BY <1>1, <1>2, <1>3 DEF Worker

LEMMA EnvironmentSteps ==
  ASSUME SessionInv, Environment
  PROVE  StepFacts
PROOF
<1>1. UNCHANGED <<control, execMode, status, ver, client>>
  BY DEF Environment, Tick, ConfigChanges, InputsChange, GateChanges, PublishPlan
<1>2. QED
  BY <1>1, QuietStep DEF ClientMoves, SessionInv

(* Only Dispatch creates commands; every other step obeys StepFacts.       *)
LEMMA Steps ==
  ASSUME StationInv, [Next]_vars
  PROVE  StepFacts \/ Dispatch
PROOF
<1>1. CASE UNCHANGED vars
  BY <1>1, QuietStep DEF vars, ClientMoves, StationInv, SessionInv
<1>2. QED
  BY <1>1, OperatorSteps, DeviceSteps, WorkerSteps, EnvironmentSteps DEF Next, StationInv

(* Dispatch only turns dispatchable commands from none into created.       *)
LEMMA DispatchSteps ==
  ASSUME TypeOK, Dispatch
  PROVE  /\ UNCHANGED <<controlVars, ver, client>>
         /\ \A k \in Keys : /\ Dispatchable(k) => status[k] = "none" /\ status'[k] = "created"
                            /\ ~Dispatchable(k) => status'[k] = status[k]
         /\ (\E k \in Keys : Dispatchable(k)) => control.mode \in LiveModes
PROOF BY DEF Dispatch, Dispatchable, NotIssued, ExecutionAuthorized, TypeOK

(***************************************************************************)
(* A live session of control has a live station                            *)
(***************************************************************************)
LEMMA InitStation == Init => StationInv
PROOF
<1> SUFFICES ASSUME Init PROVE StationInv
  OBVIOUS
<1>1. LiveControlHasLiveStation
  BY StatusFacts DEF Init, LiveControlHasLiveStation, LiveModes
<1>2. ASSUME NEW c \in Clients
      PROVE  client[c].rev <= control.revision /\ client[c].rev # control.revision
  <2>1. client[c].rev = 0 /\ control.revision = 1
    BY DEF Init, NoRequest
  <2>2. QED
    BY <2>1
<1>3. QED
  BY InitSession, <1>1, <1>2 DEF StationInv

LEMMA NextStation == StationInv /\ [Next]_vars => StationInv'
PROOF
<1> SUFFICES ASSUME StationInv, [Next]_vars PROVE StationInv'
  OBVIOUS
<1>1. SessionInv'
  BY NextSession DEF StationInv
<1>2. control.revision \in Nat /\ control.revision >= 1
  BY DEF StationInv, SessionInv, TypeOK, ControlType
<1>3. control'.revision \in Nat
  BY <1>1 DEF SessionInv, TypeOK, ControlType
<1>4. \A c \in Clients : client[c].rev \in Nat
  BY DEF StationInv, SessionInv, TypeOK, ClientType
<1>5. ControlMoves /\ ClientMoves
  BY Steps, DispatchSteps DEF StepFacts, ControlMoves, ClientMoves, StationInv, SessionInv
<1>6. LiveControlHasLiveStation'
  BY <1>5, StatusFacts DEF ControlMoves, StationInv, LiveControlHasLiveStation
<1>7. ASSUME NEW c \in Clients
      PROVE  /\ client'[c].rev <= control'.revision
             /\ client'[c].rev = control'.revision => client'[c].exec = execMode'
  <2>1. control'.revision >= 1 /\ NoRequest.rev = 0
    BY <1>1 DEF SessionInv, NoRequest
  <2>2. /\ client[c].rev <= control.revision
        /\ client[c].rev = control.revision => client[c].exec = execMode
    BY DEF StationInv
  <2>3. \/ client'[c] = client[c]
        \/ client'[c] = NoRequest
        \/ /\ client'[c].rev = control.revision /\ client'[c].exec = execMode
           /\ UNCHANGED <<control, execMode>>
    BY <1>5 DEF ClientMoves
  <2>4. \/ UNCHANGED <<control, execMode>>
        \/ control'.revision > control.revision
        \/ control'.revision = control.revision /\ UNCHANGED execMode
    BY <1>5 DEF ControlMoves
  <2>5. CASE client'[c] = client[c]
    BY <1>2, <1>3, <1>4, <2>2, <2>4, <2>5
  <2>6. CASE client'[c] = NoRequest
    BY <1>3, <2>1, <2>6
  <2>7. QED
    BY <1>2, <2>3, <2>5, <2>6
<1>8. QED
  BY <1>1, <1>6, <1>7 DEF StationInv

(* A station under live control has the live execution mode, however many  *)
(* requests are in flight and whatever they had read before they got the   *)
(* lock (change_mode, suspend).                                            *)
THEOREM LiveStations == Spec => []LiveControlHasLiveStation
PROOF
<1>1. StationInv => LiveControlHasLiveStation
  BY DEF StationInv
<1>2. QED
  BY InitStation, NextStation, <1>1, PTL DEF Spec

(* The step that records a failure, a mismatch or a missing read-back      *)
(* leaves the station suspended and without open commands (suspend,        *)
(* cancel_pending).                                                        *)
THEOREM FailuresAlwaysSuspend == Spec => FailureSuspends
PROOF
<1> DEFINE A == \A k \in Keys :
       ver'[k] # ver[k] /\ ver'[k] \in {"failed", "read_back_mismatch", "read_back_timeout"} =>
         /\ control'.mode = "suspended"
         /\ \A l \in Keys : status'[l] \notin OpenCmd
<1>1. StationInv /\ [Next]_vars => A
  <2> SUFFICES ASSUME StationInv, [Next]_vars PROVE A
    OBVIOUS
  <2>1. CASE StepFacts
    BY <2>1 DEF StepFacts, FailuresSuspend, NothingOpen
  <2>2. CASE Dispatch
    BY <2>2, DispatchSteps DEF StationInv, SessionInv
  <2>3. QED
    BY <2>1, <2>2, Steps
<1>2. QED
  BY InitStation, NextStation, <1>1, PTL DEF Spec, FailureSuspends

(***************************************************************************)
(* Refinement: the commands live in sessions of control                    *)
(***************************************************************************)
openSet == {k \in Keys : status[k] \in OpenCmd}
doneSet == {k \in Keys : status[k] \in Terminal}

LEMMA SessionsInit == Init => Sessions!Init
PROOF
<1> SUFFICES ASSUME Init PROVE Sessions!Init
  OBVIOUS
<1>1. openSet = {} /\ doneSet = {}
  BY StatusFacts DEF Init, openSet, doneSet
<1>2. control.revision = 1 /\ (control.mode \in LiveModes) = FALSE
  BY DEF Init, LiveModes
<1>3. QED
  BY <1>1, <1>2 DEF Sessions!Init, openSet, doneSet

(* A dispatch opens the dispatchable commands, none of which was issued.   *)
LEMMA DispatchOpens ==
  ASSUME StationInv, Dispatch
  PROVE  [Sessions!Next]_(Sessions!vars)
PROOF
<1> DEFINE S == {k \in Keys : Dispatchable(k)}
<1>1. /\ UNCHANGED control
      /\ \A k \in Keys : /\ Dispatchable(k) => status[k] = "none" /\ status'[k] = "created"
                         /\ ~Dispatchable(k) => status'[k] = status[k]
  BY DispatchSteps DEF StationInv, SessionInv
<1>2. CASE S = {}
  <2>1. openSet' = openSet /\ doneSet' = doneSet
    BY <1>1, <1>2 DEF openSet, doneSet
  <2>2. QED
    BY <1>1, <2>1 DEF Sessions!vars, openSet, doneSet
<1>3. CASE S # {}
  <2>1. control.mode \in LiveModes
    BY <1>3, DispatchSteps DEF StationInv, SessionInv
  <2>2. S \cap (openSet \cup doneSet) = {}
    BY <1>1, StatusFacts DEF openSet, doneSet
  <2>3. openSet' = openSet \cup S
    BY <1>1, StatusFacts DEF openSet
  <2>4. doneSet' = doneSet
    BY <1>1, StatusFacts DEF doneSet
  <2>5. S \in SUBSET Keys
    OBVIOUS
  <2>6. Sessions!Open(S)
    BY <1>1, <2>1, <2>2, <2>3, <2>4 DEF Sessions!Open, openSet, doneSet
  <2> HIDE DEF S
  <2>7. QED
    BY <2>5, <2>6 DEF Sessions!Next, Sessions!Open
<1>4. QED
  BY <1>2, <1>3

(* Any other step closes commands, or ends the session with all of them.   *)
LEMMA StepCloses ==
  ASSUME StationInv, StationInv', StepFacts
  PROVE  [Sessions!Next]_(Sessions!vars)
PROOF
<1>t. /\ control.revision \in Nat /\ control'.revision \in Nat
      /\ status \in [Keys -> CmdStatus]
  BY DEF StationInv, SessionInv, TypeOK, ControlType
<1> DEFINE S == {k \in openSet : status'[k] \in Terminal}
<1>1. \A k \in Keys :
        /\ status[k] \in OpenCmd => status'[k] \in OpenCmd \cup Terminal
        /\ status[k] \in Terminal => status'[k] \in Terminal
        /\ status[k] \notin OpenCmd /\ status[k] \notin Terminal =>
             status'[k] \notin OpenCmd /\ status'[k] \notin Terminal
        /\ ~(status'[k] \in OpenCmd /\ status'[k] \in Terminal)
        /\ ~(status[k] \in OpenCmd /\ status[k] \in Terminal)
  BY <1>t, StatusFacts DEF StepFacts, CommandsProceed
<1>2. openSet' = openSet \ S
  BY <1>1 DEF openSet
<1>3. doneSet' = doneSet \cup S
  BY <1>1 DEF openSet, doneSet
<1>4. S \in SUBSET Keys /\ S \subseteq openSet
  BY DEF openSet
<1>5. ASSUME control'.revision = control.revision,
             (control'.mode \in LiveModes) = (control.mode \in LiveModes)
      PROVE  Sessions!Next
  <2>1. Sessions!Close(S)
    BY <1>2, <1>3, <1>4, <1>5 DEF Sessions!Close, openSet, doneSet
  <2> HIDE DEF S
  <2>2. QED
    BY <1>4, <2>1 DEF Sessions!Next, Sessions!Close
<1>6. CASE UNCHANGED controlVars
  BY <1>5, <1>6
<1>7. CASE NothingOpen' /\ control'.revision > control.revision
  <2>1. openSet' = {}
    BY <1>7 DEF openSet, NothingOpen
  <2>2. doneSet' = doneSet \cup openSet
    BY <1>1, <1>7 DEF openSet, doneSet, NothingOpen
  <2>3. Sessions!EndSession
    BY <1>t, <1>7, <2>1, <2>2 DEF Sessions!EndSession, openSet, doneSet
  <2>4. QED
    BY <2>3 DEF Sessions!Next
<1>8. CASE /\ control.mode = "suspended" /\ control'.mode = "suspended"
           /\ control'.revision = control.revision
  BY <1>5, <1>8
<1>9. QED
  BY <1>6, <1>7, <1>8 DEF StepFacts, ControlMoves

(* Whatever operators, devices, the worker and the optimizer do, the       *)
(* commands of the station live in sessions of control: opened only while  *)
(* a session is live, each at most once, and withdrawn with it.            *)
THEOREM ControlImplementsSessions == Spec => RefinesSessions
PROOF
<1>1. StationInv /\ StationInv' /\ [Next]_vars => [Sessions!Next]_(Sessions!vars)
  BY Steps, DispatchOpens, StepCloses
<1>2. QED
  BY InitStation, NextStation, SessionsInit, <1>1, PTL DEF Spec, RefinesSessions, Sessions!Spec

(***************************************************************************)
(* Plans: one is active, and only its commands are handed out              *)
(***************************************************************************)
PlanInv == TypeOK /\ OneActivePlan

(* With one active plan at most, the newest plan of a set of active        *)
(* statuses is the one plan that has such a status.                        *)
LEMMA LatestPlanIsTheOne ==
  ASSUME OneActivePlan, NEW S, S \subseteq ActivePlan
  PROVE  /\ \A p \in Plans : plans[p].status \in S => LatestPlan(S) = p
         /\ LatestPlan(S) # 0 =>
              LatestPlan(S) \in Plans /\ plans[LatestPlan(S)].status \in S
PROOF
<1> DEFINE candidates == {p \in Plans : plans[p].status \in S}
<1>1. \A p, q \in candidates : p = q
  BY DEF OneActivePlan
<1>2. \A p \in Plans : p <= p /\ p # 0
  BY ConstantsAssumption DEF Plans
<1>3. ASSUME NEW p \in candidates PROVE LatestPlan(S) = p
  <2>1. \A q \in candidates : q <= p
    BY <1>1, <1>2
  <2>2. LatestPlan(S) = CHOOSE r \in candidates : \A q \in candidates : q <= r
    BY <1>3 DEF LatestPlan
  <2>3. LatestPlan(S) \in candidates
    BY <1>3, <2>1, <2>2
  <2>4. QED
    BY <1>1, <2>3
<1>4. candidates = {} => LatestPlan(S) = 0
  BY DEF LatestPlan
<1>5. QED
  BY <1>3, <1>4

LEMMA InitPlans == Init => PlanInv
PROOF
<1>1. Init => OneActivePlan
  BY DEF Init, NoPlan, OneActivePlan, ActivePlan
<1>2. QED
  BY InitType, <1>1 DEF PlanInv

(* Steps that make no plan active that was not active before.              *)
LEMMA NoPlanAdded ==
  ASSUME OneActivePlan,
         \A p \in Plans : plans'[p].status \in ActivePlan => plans[p].status \in ActivePlan
  PROVE  OneActivePlan'
PROOF BY DEF OneActivePlan

LEMMA ApproveKeepsStatus ==
  ASSUME TypeOK, NEW p, Approve(p)
  PROVE  \A q \in Plans : plans'[q].status = plans[q].status
PROOF BY DEF Approve, TypeOK, PlanType

LEMMA NextPlans == PlanInv /\ [Next]_vars => PlanInv'
PROOF
<1> SUFFICES ASSUME PlanInv, [Next]_vars PROVE OneActivePlan'
  BY NextType DEF PlanInv
<1>t. TypeOK /\ OneActivePlan
  BY DEF PlanInv
<1>u. UNCHANGED plans => OneActivePlan'
  BY <1>t DEF OneActivePlan
<1>1. CASE Operator
  <2>1. CASE UNCHANGED plans
    BY <1>u, <2>1
  <2>2. CASE \E c \in Clients : ApprovePlan(c)
    BY <1>t, <2>2, ApproveKeepsStatus, NoPlanAdded DEF ApprovePlan
  <2>3. QED
    BY <1>1, <2>1, <2>2 DEF Operator, ClientLoad, ClientFails, EmergencyStop, ChangeMode,
                            SavePolicy, ApplyPreset
<1>2. CASE Device
  <2>1. ASSUME NEW d \in Devices, NEW p \in Plans, AcceptPlan(d, p) PROVE OneActivePlan'
    <3>1. plans[p].status \in ActivePlan
      BY <2>1 DEF AcceptPlan, ActivePlan
    <3>2. \A q \in Plans : q # p => plans'[q] = plans[q]
      BY <2>1, <1>t DEF AcceptPlan, TypeOK
    <3>3. QED
      BY <1>t, <3>1, <3>2, NoPlanAdded
  <2>2. QED
    BY <1>2, <1>u, <2>1 DEF Device, ListPendingCommands, AcknowledgeCommand, ReportExecuted,
                            ReportFailed, VerifyReadback
<1>3. CASE Worker
  <2>1. CASE WorkerLock
    BY <1>t, <1>u, <2>1, ApproveKeepsStatus, NoPlanAdded DEF WorkerLock
  <2>2. CASE Dispatch
    <3>1. \A k \in Keys : Dispatchable(k) => plans[k[2]].status \in ActivePlan
      BY DEF Dispatchable, PlanAllowsDispatch, Accepted, ActivePlan
    <3>2. \A p \in Plans : plans'[p] = plans[p] \/ plans[p].status \in ActivePlan
      BY <2>2, <3>1 DEF Dispatch
    <3>3. QED
      BY <1>t, <3>2, NoPlanAdded
  <2>3. QED
    BY <1>3, <1>u, <2>1, <2>2 DEF Worker, WorkerLoad, Reconcile
<1>4. CASE Environment
  <2>1. ASSUME NEW p \in Plans, NEW c \in Configs, NEW sound \in BOOLEAN,
               PublishPlan(p, c, sound)
        PROVE  OneActivePlan'
    <3>1. \A q \in Plans : plans[q].status \in ActivePlan => LatestPlan(ActivePlan) = q
      BY <1>t, LatestPlanIsTheOne
    <3>2. \A q \in Plans : q # p => plans'[q].status \notin ActivePlan
      BY <2>1, <3>1, <1>t DEF PublishPlan, Retired, TypeOK, PlanType, ActivePlan
    <3>3. QED
      BY <3>2 DEF OneActivePlan
  <2>2. QED
    BY <1>4, <1>u, <2>1 DEF Environment, Tick, ConfigChanges, InputsChange, GateChanges
<1>5. CASE UNCHANGED vars
  BY <1>5, <1>u DEF vars
<1>6. QED
  BY <1>1, <1>2, <1>3, <1>4, <1>5 DEF Next

(* At every moment the station has one active plan at most: publishing     *)
(* retires the plan before it, and nothing revives a plan (_publish_plan). *)
THEOREM OnePlanIsActive == Spec => []OneActivePlan
PROOF
<1>1. PlanInv => OneActivePlan
  BY DEF PlanInv
<1>2. QED
  BY InitPlans, NextPlans, <1>1, PTL DEF Spec

(* A suspension that leaves the control row as it was keeps the commands   *)
(* the session has in memory.                                              *)
LEMMA SuspendQuiet ==
  ASSUME NEW why, NEW base \in ControlType, NEW cached, NEW db, NEW mem,
         control \in ControlType, base.revision >= control.revision,
         UNCHANGED control, Suspend(why, base, cached, db, mem)
  PROVE  status' = mem
PROOF BY DEF Suspend, ControlOf, ControlType

(* The three handlers that hand a command to a device or take its          *)
(* acceptance: every other step changes no command into an open one.       *)
LEMMA HandingOut ==
  ASSUME StationInv, [Next]_vars, NEW k \in Keys,
         status'[k] # status[k], status'[k] \in OpenCmd
  PROVE  \/ \E d \in Devices : ListPendingCommands(d)
         \/ \E l \in Keys : \E answer \in {"accepted", "rejected"} :
              AcknowledgeCommand(l, answer)
         \/ Dispatch
PROOF
<1>s. /\ TypeOK /\ control \in ControlType /\ status \in [Keys -> CmdStatus]
      /\ control.revision \in Nat /\ control.revision + 1 # control.revision
      /\ control.revision >= control.revision
  BY DEF StationInv, SessionInv, TypeOK, ControlType
<1>q. UNCHANGED control \/ Dispatch
  BY Steps DEF StepFacts, ControlMoves, NothingOpen
<1> SUFFICES ASSUME UNCHANGED control, status' # status PROVE
         \/ \E d \in Devices : ListPendingCommands(d)
         \/ \E l \in Keys : \E answer \in {"accepted", "rejected"} :
              AcknowledgeCommand(l, answer)
         \/ Dispatch
  BY <1>q
<1>1. CASE Operator
  <2> SUFFICES ASSUME NEW c \in Clients,
        \/ \E kind \in Requests, p \in Plans \cup {0} : ClientLoad(c, kind, p)
        \/ ClientFails(c)
        \/ EmergencyStop(c)
        \/ \E mode \in Modes : ChangeMode(c, mode)
        \/ \E v \in Policies, d \in Devices, t \in PolicyTerms : SavePolicy(c, v, d, t)
        \/ ApprovePlan(c)
        \/ \E manual \in BOOLEAN : ApplyPreset(c, manual)
      PROVE FALSE
    BY <1>1 DEF Operator
  <2>1. CASE \/ \E kind \in Requests, p \in Plans \cup {0} : ClientLoad(c, kind, p)
             \/ ClientFails(c) \/ ApprovePlan(c)
    BY <2>1 DEF ClientLoad, ClientFails, ApprovePlan
  <2>2. CASE EmergencyStop(c)
    BY <2>2, <1>s, SuspendQuiet DEF EmergencyStop
  <2>3. CASE \E mode \in Modes : ChangeMode(c, mode)
    BY <2>3, <1>s DEF ChangeMode, ControlOf
  <2>4. ASSUME NEW v \in Policies, NEW d \in Devices, NEW t \in PolicyTerms,
               SavePolicy(c, v, d, t)
        PROVE  FALSE
    <3> DEFINE base == [control EXCEPT !.policy = v]
    <3>1. base \in ControlType /\ base.revision >= control.revision
      BY <1>s DEF ControlType
    <3>2. Suspend("policy_changed", base, client[c].exec, status, status)
      BY <2>4 DEF SavePolicy
    <3> HIDE DEF base
    <3>3. QED
      BY <3>1, <3>2, <1>s, SuspendQuiet
  <2>5. ASSUME NEW manual \in BOOLEAN, ApplyPreset(c, manual) PROVE FALSE
    <3>1. control'.revision # control.revision
      BY <2>5, <1>s DEF ApplyPreset, Suspend, ControlOf, ControlType
    <3>2. QED
      BY <3>1
  <2>6. QED
    BY <2>1, <2>2, <2>3, <2>4, <2>5
<1>2. CASE Device
  <2>1. ASSUME NEW l \in Keys, ReportFailed(l) PROVE FALSE
    <3> DEFINE failed == [status EXCEPT ![l] = "failed"]
    <3>1. Suspend("partial_execution_failure", control, execMode, failed, failed)
      BY <2>1 DEF ReportFailed
    <3>2. failed[k] = status[k] \/ failed[k] \notin OpenCmd
      BY <1>s, StatusFacts
    <3> HIDE DEF failed
    <3>3. status' = failed
      BY <3>1, <1>s, SuspendQuiet
    <3>4. QED
      BY <3>2, <3>3
  <2>2. ASSUME NEW l \in Keys, ReportExecuted(l) PROVE FALSE
    BY <2>2, <1>s, StatusFacts DEF ReportExecuted
  <2>3. ASSUME NEW l \in Keys, NEW observed \in Time, NEW match \in BOOLEAN,
               VerifyReadback(l, observed, match)
        PROVE  FALSE
    BY <2>3, <1>s, SuspendQuiet DEF VerifyReadback
  <2>4. ASSUME NEW d \in Devices, NEW p \in Plans, AcceptPlan(d, p) PROVE FALSE
    BY <2>4 DEF AcceptPlan
  <2>5. QED
    BY <1>2, <2>1, <2>2, <2>3, <2>4 DEF Device
<1>3. CASE Worker
  <2>1. ASSUME NEW l \in Keys, Reconcile(l) PROVE FALSE
    <3>1. CASE ReconcileExpired(l)
      <4> DEFINE expired == [status EXCEPT ![l] = "expired"]
      <4>1. Suspend("partial_execution_failure", control, worker.exec, status, expired)
        BY <3>1 DEF ReconcileExpired
      <4>2. expired[k] = status[k] \/ expired[k] \notin OpenCmd
        BY <1>s, StatusFacts
      <4> HIDE DEF expired
      <4>3. status' = expired
        BY <4>1, <1>s, SuspendQuiet
      <4>4. QED
        BY <4>2, <4>3
    <3>2. CASE ReconcileFailed(l) \/ ReconcileOverdue(l)
      BY <3>2, <1>s, SuspendQuiet DEF ReconcileFailed, ReconcileOverdue
    <3>3. CASE ReconcileSettled(l)
      BY <3>3 DEF ReconcileSettled
    <3>4. QED
      BY <2>1, <3>1, <3>2, <3>3 DEF Reconcile
  <2>2. QED
    BY <1>3, <2>1 DEF Worker, WorkerLoad, WorkerLock
<1>4. CASE Environment
  BY <1>4 DEF Environment, Tick, ConfigChanges, InputsChange, GateChanges, PublishPlan
<1>5. CASE UNCHANGED vars
  BY <1>5 DEF vars
<1>6. QED
  BY <1>1, <1>2, <1>3, <1>4, <1>5 DEF Next

(* A device is given a command, or accepts one, only for the active plan   *)
(* which it accepted, and while the interval of the command lasts, even    *)
(* when the plan was superseded between approval and delivery              *)
(* (command_allows_delivery, plan_allows_dispatch).                        *)
THEOREM OnlyActivePlansHandedOut == Spec => HandedOutForActivePlan
PROOF
<1> DEFINE A == \A k \in Keys :
       status'[k] # status[k] /\ status'[k] \in OpenCmd =>
         /\ k[2] = LatestPlan(ActivePlan)
         /\ k[1] = plans[k[2]].by
         /\ Due(k) /\ ~Expired(k)
<1>1. StationInv /\ PlanInv /\ [Next]_vars => A
  <2> SUFFICES ASSUME StationInv, PlanInv, [Next]_vars, NEW k \in Keys,
                      status'[k] # status[k], status'[k] \in OpenCmd
               PROVE  /\ k[2] = LatestPlan(ActivePlan)
                      /\ k[1] = plans[k[2]].by
                      /\ Due(k) /\ ~Expired(k)
    OBVIOUS
  <2>t. status \in [Keys -> CmdStatus] /\ k[2] \in Plans
    BY DEF PlanInv, TypeOK, Keys
  <2>1. ASSUME plans[k[2]].status \in Accepted PROVE k[2] = LatestPlan(ActivePlan)
    BY <2>t, <2>1, LatestPlanIsTheOne DEF PlanInv, Accepted, ActivePlan
  <2>2. ASSUME CommandAllowsDelivery(k)
        PROVE  k[2] = LatestPlan(ActivePlan) /\ k[1] = plans[k[2]].by
    BY <2>1, <2>2 DEF CommandAllowsDelivery, PlanAllowsDispatch
  <2>3. ASSUME NEW d \in Devices, ListPendingCommands(d)
        PROVE  CommandAllowsDelivery(k) /\ Due(k) /\ ~Expired(k)
    BY <2>3, <2>t, StatusFacts DEF ListPendingCommands
  <2>4. ASSUME NEW l \in Keys, NEW answer \in {"accepted", "rejected"},
               AcknowledgeCommand(l, answer)
        PROVE  CommandAllowsDelivery(k) /\ Due(k) /\ ~Expired(k)
    BY <2>4, <2>t, StatusFacts DEF AcknowledgeCommand
  <2>5. CASE Dispatch
    <3>1. Dispatchable(k)
      BY <2>5, DispatchSteps DEF PlanInv
    <3>2. QED
      BY <2>1, <3>1 DEF Dispatchable, PlanAllowsDispatch
  <2>6. QED
    BY <2>2, <2>3, <2>4, <2>5, HandingOut
<1>2. QED
  BY InitStation, NextStation, InitPlans, NextPlans, <1>1, PTL
  DEF Spec, HandedOutForActivePlan

(***************************************************************************)
(* Open commands end before their policy                                   *)
(***************************************************************************)
(* What a plan, a policy and a request look like once they took part in an *)
(* approval: the plan is published and the policy saved, so neither is     *)
(* written again, and an open command lies in the horizon of its plan.     *)
ApprovalsHold ==
  \A p \in Plans : approvals[p].rev # 0 =>
    /\ plans[p].status # "none"
    /\ approvals[p].policy \in Policies
    /\ HorizonEnd(p) <= approvals[p].expires
    /\ HorizonEnd(p) <= policies[approvals[p].policy].expires
    /\ policies[approvals[p].policy].expires # 0

RequestsNamePlans ==
  \A c \in Clients : client[c].kind = "approve" =>
    client[c].plan \in Plans /\ plans[client[c].plan].status # "none"

OpenInHorizon ==
  \A k \in Keys : status[k] \in OpenCmd =>
    plans[k[2]].first <= k[3] /\ k[3] <= plans[k[2]].first + Horizon - 1

TermInv ==
  /\ SessionInv /\ OneActivePlan
  /\ ApprovalsHold /\ RequestsNamePlans /\ OpenInHorizon

LEMMA EndMonotone ==
  ASSUME NEW m \in Int, NEW n \in Int, m <= n
  PROVE  End(m) <= End(n)
PROOF BY ConstantsAssumption DEF End

LEMMA TermImplies == TermInv => OpenWithinPolicyTerm
PROOF
<1> SUFFICES ASSUME TermInv, NEW k \in Keys, status[k] \in OpenCmd
             PROVE  /\ End(k[3]) <= approvals[k[2]].expires
                    /\ End(k[3]) <= policies[approvals[k[2]].policy].expires
  BY DEF OpenWithinPolicyTerm
<1> DEFINE p == k[2]
<1>1. p \in Plans /\ k[3] \in Int /\ plans[p].first \in Int /\ TypeOK
  BY DEF Keys, Slots, TermInv, SessionInv, TypeOK, PlanType
<1>2. approvals[p].rev # 0
  BY DEF TermInv, SessionInv, OpenUnderCurrentApproval
<1>3. k[3] <= plans[p].first + Horizon - 1
  BY DEF TermInv, OpenInHorizon
<1>4. End(k[3]) <= HorizonEnd(p)
  BY <1>1, <1>3, EndMonotone, ConstantsAssumption DEF HorizonEnd
<1>5. /\ HorizonEnd(p) <= approvals[p].expires
      /\ HorizonEnd(p) <= policies[approvals[p].policy].expires
      /\ approvals[p].policy \in Policies
  BY <1>1, <1>2 DEF TermInv, ApprovalsHold
<1>6. /\ End(k[3]) \in Int /\ HorizonEnd(p) \in Int
      /\ approvals[p].expires \in Int /\ policies[approvals[p].policy].expires \in Int
  BY <1>1, <1>5, ConstantsAssumption DEF End, HorizonEnd, TypeOK, ApprovalType, PolicyType
<1>7. QED
  BY <1>4, <1>5, <1>6

LEMMA InitTerm == Init => TermInv
PROOF
<1> SUFFICES ASSUME Init PROVE TermInv
  OBVIOUS
<1>1. ApprovalsHold
  BY DEF Init, ApprovalsHold, NoApproval
<1>2. RequestsNamePlans
  BY DEF Init, RequestsNamePlans, NoRequest
<1>3. OpenInHorizon
  BY StatusFacts DEF Init, OpenInHorizon
<1>4. QED
  BY InitSession, InitPlans, <1>1, <1>2, <1>3 DEF TermInv, PlanInv

(* Steps that rewrite no published plan, no approval and no saved policy,  *)
(* and open no command.                                                    *)
PlansStay ==
  \A p \in Plans : plans[p].status # "none" =>
    plans'[p].status # "none" /\ plans'[p].first = plans[p].first

PoliciesStay ==
  \A v \in Policies : policies[v].expires # 0 => policies'[v] = policies[v]

LEMMA TermKept ==
  ASSUME TermInv, SessionInv', OneActivePlan', PlansStay, PoliciesStay,
         \A p \in Plans : approvals'[p] = approvals[p],
         \A c \in Clients :
           \/ client'[c] = client[c] \/ client'[c] = NoRequest
           \/ client'[c].kind = "approve" =>
                client'[c].plan \in Plans /\ plans'[client'[c].plan].status # "none",
         \A k \in Keys : status'[k] \in OpenCmd => status[k] \in OpenCmd
  PROVE  TermInv'
PROOF
<1>1. ASSUME NEW p \in Plans, plans[p].status # "none"
      PROVE  HorizonEnd(p)' = HorizonEnd(p)
  BY <1>1 DEF PlansStay, HorizonEnd, End
<1>2. ApprovalsHold'
  BY <1>1 DEF TermInv, ApprovalsHold, PlansStay, PoliciesStay
<1>3. RequestsNamePlans'
  BY DEF TermInv, RequestsNamePlans, PlansStay, NoRequest
<1>4. OpenInHorizon'
  <2>1. ASSUME NEW k \in Keys, status[k] \in OpenCmd
        PROVE  k[2] \in Plans /\ plans[k[2]].status # "none"
    <3>1. k[2] \in Plans /\ approvals[k[2]].rev # 0
      BY <2>1 DEF Keys, TermInv, SessionInv, OpenUnderCurrentApproval
    <3>2. QED
      BY <3>1 DEF TermInv, ApprovalsHold
  <2>2. QED
    BY <2>1 DEF TermInv, OpenInHorizon, PlansStay
<1>5. QED
  BY <1>2, <1>3, <1>4 DEF TermInv

(* A new approval, of a published plan that the policy in force outlasts.  *)
LEMMA TermApproved ==
  ASSUME TermInv, SessionInv', OneActivePlan',
         NEW p \in Plans, NEW st, plans[p].status # "none",
         PolicyCheck(p, st, control.policy), Approve(p),
         UNCHANGED <<policies, status>>,
         \A c \in Clients : client'[c] = client[c] \/ client'[c] = NoRequest
  PROVE  TermInv'
PROOF
<1>t. TypeOK
  BY DEF TermInv, SessionInv
<1>1. /\ control.policy \in Policies
      /\ policies[control.policy].expires \in Nat /\ HorizonEnd(p) \in Int
      /\ policies[control.policy].expires # 0
      /\ HorizonEnd(p) <= policies[control.policy].expires
  <2>1. control.policy \in Policies
    BY <1>t DEF PolicyCheck, TypeOK, ControlType
  <2>2. policies[control.policy].expires \in Nat
    BY <1>t, <2>1 DEF TypeOK, PolicyType
  <2>3. HorizonEnd(p) \in Int
    BY <1>t, ConstantsAssumption DEF TypeOK, PlanType, HorizonEnd, End
  <2>4. now \in Nat
    BY <1>t, ConstantsAssumption DEF TypeOK, Time
  <2>5. QED
    BY <2>1, <2>2, <2>3, <2>4 DEF PolicyCheck, PolicyOutlastsPlan
<1>2. \A q \in Plans : plans'[q].status = plans[q].status /\ plans'[q].first = plans[q].first
  BY <1>t DEF Approve, TypeOK, PlanType
<1>3. \A q \in Plans : HorizonEnd(q)' = HorizonEnd(q)
  BY <1>2 DEF HorizonEnd, End
<1>4. /\ approvals'[p].policy = control.policy
      /\ HorizonEnd(p) <= approvals'[p].expires
      /\ \A q \in Plans : q # p => approvals'[q] = approvals[q]
  BY <1>t, <1>1 DEF Approve, NewApproval, TypeOK
<1>5. ApprovalsHold'
  BY <1>1, <1>2, <1>3, <1>4 DEF TermInv, ApprovalsHold
<1>6. RequestsNamePlans'
  BY <1>2 DEF TermInv, RequestsNamePlans, NoRequest
<1>7. OpenInHorizon'
  <2>1. \A k \in Keys : k[2] \in Plans
    BY DEF Keys
  <2>2. QED
    BY <1>2, <2>1 DEF TermInv, OpenInHorizon
<1>8. QED
  BY <1>5, <1>6, <1>7 DEF TermInv

LEMMA NextTerm == StationInv /\ TermInv /\ [Next]_vars => TermInv'
PROOF
<1> SUFFICES ASSUME StationInv, TermInv, [Next]_vars PROVE TermInv'
  OBVIOUS
<1>t. /\ TypeOK /\ SessionInv /\ SessionInv' /\ OneActivePlan'
      /\ status \in [Keys -> CmdStatus]
  BY NextSession, NextPlans DEF TermInv, PlanInv, SessionInv, TypeOK
<1>p. UNCHANGED plans => PlansStay
  BY DEF PlansStay
<1>v. UNCHANGED policies => PoliciesStay
  BY DEF PoliciesStay
<1>o. StepFacts => \A k \in Keys : status'[k] \in OpenCmd => status[k] \in OpenCmd
  BY <1>t, StatusFacts DEF StepFacts, CommandsProceed
<1>1. CASE Operator
  <2> SUFFICES ASSUME NEW c \in Clients,
        \/ \E kind \in Requests, p \in Plans \cup {0} : ClientLoad(c, kind, p)
        \/ ClientFails(c)
        \/ EmergencyStop(c)
        \/ \E mode \in Modes : ChangeMode(c, mode)
        \/ \E v \in Policies, d \in Devices, t \in PolicyTerms : SavePolicy(c, v, d, t)
        \/ ApprovePlan(c)
        \/ \E manual \in BOOLEAN : ApplyPreset(c, manual)
      PROVE TermInv'
    BY <1>1 DEF Operator
  <2>o. \A k \in Keys : status'[k] \in OpenCmd => status[k] \in OpenCmd
    BY <1>1, <1>o, OperatorSteps
  <2>c. ASSUME NEW kind, Serves(c, kind)
        PROVE  \A b \in Clients : client'[b] = client[b] \/ client'[b] = NoRequest
    BY <1>t, <2>c DEF Serves, TypeOK
  <2>1. ASSUME NEW kind \in Requests, NEW p \in Plans \cup {0}, ClientLoad(c, kind, p)
        PROVE  TermInv'
    <3>1. \A b \in Clients :
            \/ client'[b] = client[b]
            \/ client'[b].kind = "approve" =>
                 client'[b].plan \in Plans /\ plans'[client'[b].plan].status # "none"
      BY <1>t, <2>1 DEF ClientLoad, TypeOK
    <3>2. UNCHANGED <<plans, policies, approvals>>
      BY <2>1 DEF ClientLoad
    <3>3. QED
      BY <1>t, <1>p, <1>v, <2>o, <3>1, <3>2, TermKept
  <2>2. CASE ClientFails(c)
    <3>1. \A b \in Clients : client'[b] = client[b] \/ client'[b] = NoRequest
      BY <1>t, <2>2 DEF ClientFails, TypeOK
    <3>2. UNCHANGED <<plans, policies, approvals>>
      BY <2>2 DEF ClientFails
    <3>3. QED
      BY <1>t, <1>p, <1>v, <2>o, <3>1, <3>2, TermKept
  <2>3. CASE \/ EmergencyStop(c)
             \/ \E mode \in Modes : ChangeMode(c, mode)
             \/ \E manual \in BOOLEAN : ApplyPreset(c, manual)
    <3>1. \A b \in Clients : client'[b] = client[b] \/ client'[b] = NoRequest
      BY <2>3, <2>c DEF EmergencyStop, ChangeMode, ApplyPreset
    <3>2. UNCHANGED <<plans, policies, approvals>>
      BY <2>3 DEF EmergencyStop, ChangeMode, ApplyPreset
    <3>3. QED
      BY <1>t, <1>p, <1>v, <2>o, <3>1, <3>2, TermKept
  <2>4. ASSUME NEW v \in Policies, NEW d \in Devices, NEW t \in PolicyTerms,
               SavePolicy(c, v, d, t)
        PROVE  TermInv'
    <3>1. \A b \in Clients : client'[b] = client[b] \/ client'[b] = NoRequest
      BY <2>4, <2>c DEF SavePolicy
    <3>2. policies[v].expires = 0
      <4>1. v >= v
        BY ConstantsAssumption DEF Policies
      <4>2. QED
        BY <2>4, <4>1 DEF SavePolicy
    <3>3. PoliciesStay /\ UNCHANGED <<plans, approvals>>
      BY <1>t, <2>4, <3>2 DEF SavePolicy, PoliciesStay, TypeOK
    <3>4. QED
      BY <1>t, <1>p, <2>o, <3>1, <3>3, TermKept
  <2>5. CASE ApprovePlan(c)
    <3> DEFINE p == client[c].plan
    <3>1. /\ PolicyCheck(p, client[c].planStatus, control.policy) /\ Approve(p)
          /\ client[c].kind = "approve" /\ UNCHANGED <<policies, status>>
      BY <2>5 DEF ApprovePlan, Serves
    <3>2. p \in Plans /\ plans[p].status # "none"
      BY <3>1 DEF TermInv, RequestsNamePlans
    <3>3. \A b \in Clients : client'[b] = client[b] \/ client'[b] = NoRequest
      BY <2>5, <2>c DEF ApprovePlan
    <3> HIDE DEF p
    <3>4. QED
      BY <1>t, <3>1, <3>2, <3>3, TermApproved
  <2>6. QED
    BY <2>1, <2>2, <2>3, <2>4, <2>5
<1>2. CASE Device
  <2>1. \A k \in Keys : status'[k] \in OpenCmd => status[k] \in OpenCmd
    BY <1>2, <1>o, <1>t, DeviceSteps
  <2>2. UNCHANGED <<policies, approvals, client>>
    BY <1>2 DEF Device, AcceptPlan, ListPendingCommands, AcknowledgeCommand, ReportExecuted,
                ReportFailed, VerifyReadback
  <2>3. PlansStay
    <3>1. ASSUME NEW d \in Devices, NEW p \in Plans, AcceptPlan(d, p) PROVE PlansStay
      BY <1>t, <3>1 DEF AcceptPlan, PlansStay, TypeOK, PlanType
    <3>2. QED
      BY <1>2, <1>p, <3>1 DEF Device, ListPendingCommands, AcknowledgeCommand, ReportExecuted,
                              ReportFailed, VerifyReadback
  <2>4. QED
    BY <1>t, <1>v, <2>1, <2>2, <2>3, TermKept
<1>3. CASE Worker
  <2>1. CASE WorkerLoad
    BY <1>t, <1>p, <1>v, <2>1, TermKept DEF WorkerLoad
  <2>2. CASE WorkerLock
    <3> DEFINE p == LatestPlan(ActivePlan)
    <3>1. UNCHANGED <<policies, status, client>>
      BY <2>2 DEF WorkerLock
    <3>2. CASE UNCHANGED <<plans, approvals>>
      BY <1>t, <1>p, <1>v, <3>1, <3>2, TermKept
    <3>3. CASE p # 0 /\ PolicyCheck(p, plans[p].status, control.policy) /\ Approve(p)
      <4>1. p \in Plans /\ plans[p].status # "none"
        BY <3>3, LatestPlanIsTheOne DEF TermInv, ActivePlan
      <4> HIDE DEF p
      <4>2. QED
        BY <1>t, <3>1, <3>3, <4>1, TermApproved
    <3>4. QED
      BY <2>2, <3>2, <3>3 DEF WorkerLock
  <2>3. ASSUME NEW k \in Keys, Reconcile(k) PROVE TermInv'
    <3>1. StepFacts
      <4>1. CASE Dispatch
        BY <2>3, <4>1 DEF Reconcile, Dispatch
      <4>2. QED
        BY <4>1, Steps
    <3>2. QED
      BY <1>t, <1>o, <1>p, <1>v, <2>3, <3>1, TermKept DEF Reconcile
  <2>4. CASE Dispatch
    <3>1. /\ UNCHANGED <<policies, approvals, client>>
          /\ \A p \in Plans : plans'[p].first = plans[p].first
          /\ \A p \in Plans : plans[p].status # "none" => plans'[p].status # "none"
      BY <1>t, <2>4 DEF Dispatch, TypeOK, PlanType
    <3>2. \A p \in Plans : HorizonEnd(p)' = HorizonEnd(p)
      BY <3>1 DEF HorizonEnd, End
    <3>3. ApprovalsHold' /\ RequestsNamePlans'
      BY <3>1, <3>2 DEF TermInv, ApprovalsHold, RequestsNamePlans
    <3>4. ASSUME NEW k \in Keys, status'[k] \in OpenCmd
          PROVE  plans'[k[2]].first <= k[3] /\ k[3] <= plans'[k[2]].first + Horizon - 1
      <4>1. k[2] \in Plans /\ k[3] \in Int /\ plans[k[2]].first \in Int
        BY <1>t DEF Keys, Slots, TypeOK, PlanType
      <4>2. CASE Dispatchable(k)
        BY <3>1, <4>1, <4>2, ConstantsAssumption DEF Dispatchable, PlanSlots
      <4>3. CASE ~Dispatchable(k)
        BY <1>t, <2>4, <3>1, <3>4, <4>1, <4>3, DispatchSteps DEF TermInv, OpenInHorizon
      <4>4. QED
        BY <4>2, <4>3
    <3>5. QED
      BY <1>t, <3>3, <3>4 DEF TermInv, OpenInHorizon
  <2>5. QED
    BY <1>3, <2>1, <2>2, <2>3, <2>4 DEF Worker
<1>4. CASE Environment
  <2>1. UNCHANGED <<policies, approvals, status, client>>
    BY <1>4 DEF Environment, Tick, ConfigChanges, InputsChange, GateChanges, PublishPlan
  <2>2. ASSUME NEW p \in Plans, NEW c \in Configs, NEW sound \in BOOLEAN,
               PublishPlan(p, c, sound)
        PROVE  PlansStay
    <3>1. plans[p].status = "none"
      <4>1. p >= p
        BY ConstantsAssumption DEF Plans
      <4>2. QED
        BY <2>2, <4>1 DEF PublishPlan
    <3>2. QED
      BY <1>t, <2>2, <3>1 DEF PublishPlan, PlansStay, TypeOK, PlanType
  <2>3. PlansStay
    BY <1>4, <1>p, <2>2 DEF Environment, Tick, ConfigChanges, InputsChange, GateChanges
  <2>4. QED
    BY <1>t, <1>v, <2>1, <2>3, TermKept
<1>5. CASE UNCHANGED vars
  BY <1>5, <1>t, <1>p, <1>v, TermKept DEF vars
<1>6. QED
  BY <1>1, <1>2, <1>3, <1>4, <1>5 DEF Next

(* An open command ends before the policy it was approved under and before *)
(* its approval does, for any interval length, horizon and policy terms    *)
(* (policy_check, approve_plan).                                           *)
THEOREM OpenCommandsEndInTerm == Spec => []OpenWithinPolicyTerm
PROOF
<1>1. QED
  BY InitStation, NextStation, InitTerm, NextTerm, TermImplies, PTL DEF Spec

(***************************************************************************)
(* Verifications agree with their commands, outcomes with verifications    *)
(***************************************************************************)
(* The property for one command, and what makes it inductive: a command is *)
(* created when its interval has begun.                                    *)
Agrees(k) ==
  /\ ver[k] \in {"applied", "read_back_timeout"} \cup ReadBack <=> status[k] = "executed"
  /\ ver[k] \in ReadBack <=> evidence[k] # -1
  /\ ver[k] \in ReadBack => executedAt[k] <= evidence[k] /\ evidence[k] < End(k[3])
  /\ status[k] = "executed" => Start(k[3]) <= executedAt[k] /\ executedAt[k] < End(k[3])
  /\ ver[k] = "failed" => status[k] \in FailedCmd \cup {"superseded"}
  /\ status[k] \in OpenCmd => Start(k[3]) <= now

VerInv == TypeOK /\ \A k \in Keys : Agrees(k)

LEMMA InitVer == Init => VerInv
PROOF
<1> SUFFICES ASSUME Init, NEW k \in Keys PROVE Agrees(k)
  BY InitType DEF VerInv
<1>1. status[k] = "none" /\ ver[k] = "none" /\ evidence[k] = -1
  BY DEF Init
<1>2. QED
  BY <1>1, StatusFacts DEF Agrees, ReadBack

(* A command whose verification a step leaves alone: it stays, is created  *)
(* when its interval has begun, or ends otherwise than executed.           *)
Undisturbed(k) ==
  /\ ver'[k] = ver[k] /\ evidence'[k] = evidence[k] /\ executedAt'[k] = executedAt[k]
  /\ \/ status'[k] = status[k]
     \/ status[k] = "none" /\ status'[k] \in OpenCmd /\ Due(k)
     \/ status[k] \in OpenCmd /\ status'[k] \in OpenCmd \cup FailedCmd \cup {"superseded"}

LEMMA AgreesKept ==
  ASSUME TypeOK, NEW k \in Keys, Agrees(k), Undisturbed(k), now' \in Nat, now <= now'
  PROVE  Agrees(k)'
PROOF
<1>1. now \in Nat /\ Start(k[3]) \in Int
  BY ConstantsAssumption DEF TypeOK, Time, Start, Keys, Slots
<1>2. "none" # "executed" /\ "executed" \notin OpenCmd \cup FailedCmd \cup {"superseded"}
      /\ "none" \notin OpenCmd \cup FailedCmd \cup {"superseded"}
      /\ (OpenCmd \cap (FailedCmd \cup {"superseded"})) = {}
  BY DEF OpenCmd, FailedCmd
<1>3. CASE status'[k] = status[k]
  BY <1>1, <1>3 DEF Agrees, Undisturbed, Start, End
<1>4. CASE status'[k] # status[k]
  <2>1. /\ status[k] \in OpenCmd \cup {"none"}
        /\ status'[k] \in OpenCmd \cup FailedCmd \cup {"superseded"}
        /\ status'[k] \in OpenCmd => Start(k[3]) <= now
        /\ UNCHANGED <<ver[k], evidence[k]>>
    BY <1>4, <1>2 DEF Undisturbed, Agrees, Due
  <2>2. /\ ver[k] \notin {"applied", "read_back_timeout"} \cup ReadBack
        /\ ver[k] # "failed" /\ evidence[k] = -1
    BY <2>1, <1>2 DEF Agrees
  <2>3. QED
    BY <1>1, <1>2, <2>1, <2>2 DEF Agrees, Start
<1>5. QED
  BY <1>3, <1>4

(* A suspension only withdraws commands.                                   *)
LEMMA SuspendWithdraws ==
  ASSUME NEW why, NEW base, NEW cached, NEW db, NEW mem,
         Suspend(why, base, cached, db, mem), NEW k \in Keys
  PROVE  status'[k] = mem[k] \/ (db[k] \in OpenCmd /\ status'[k] = "superseded")
PROOF BY DEF Suspend, CancelPending

LEMMA NextVer == VerInv /\ [Next]_vars => VerInv'
PROOF
<1> SUFFICES ASSUME VerInv, [Next]_vars PROVE VerInv'
  OBVIOUS
<1>t. /\ TypeOK /\ TypeOK' /\ now \in Nat /\ now' \in Nat
      /\ status \in [Keys -> CmdStatus] /\ ver \in [Keys -> VerStatus]
      /\ evidence \in [Keys -> Time \cup {-1}] /\ executedAt \in [Keys -> Time]
  BY NextType, ConstantsAssumption DEF VerInv, TypeOK, Time
<1>k. ASSUME \A k \in Keys : Undisturbed(k), now' = now PROVE VerInv'
  BY <1>t, <1>k, AgreesKept DEF VerInv
<1>o. ASSUME NEW k \in Keys, \A l \in Keys : l # k => Undisturbed(l), now' = now, Agrees(k)'
      PROVE  VerInv'
  BY <1>t, <1>o, AgreesKept DEF VerInv
<1>f. /\ {"accepted", "created", "delivered"} = OpenCmd
      /\ "superseded" \notin OpenCmd /\ "executed" \notin OpenCmd
      /\ "failed" \in FailedCmd /\ "expired" \in FailedCmd /\ "rejected" \in FailedCmd
      /\ (OpenCmd \cap FailedCmd) = {} /\ "executed" \notin FailedCmd
  BY DEF OpenCmd, FailedCmd
<1>1. CASE Operator
  <2>1. UNCHANGED <<now, executedAt, ver, evidence>>
    BY <1>1 DEF Operator, ClientLoad, ClientFails, EmergencyStop, ChangeMode, SavePolicy,
                ApprovePlan, ApplyPreset
  <2>2. ASSUME NEW k \in Keys
        PROVE  status'[k] = status[k] \/ (status[k] \in OpenCmd /\ status'[k] = "superseded")
    <3> SUFFICES ASSUME NEW c \in Clients,
          \/ \E kind \in Requests, p \in Plans \cup {0} : ClientLoad(c, kind, p)
          \/ ClientFails(c)
          \/ EmergencyStop(c)
          \/ \E mode \in Modes : ChangeMode(c, mode)
          \/ \E v \in Policies, d \in Devices, t \in PolicyTerms : SavePolicy(c, v, d, t)
          \/ ApprovePlan(c)
          \/ \E manual \in BOOLEAN : ApplyPreset(c, manual)
        PROVE status'[k] = status[k] \/ (status[k] \in OpenCmd /\ status'[k] = "superseded")
      BY <1>1 DEF Operator
    <3> DEFINE closed == CancelPending(status, status)
    <3>1. closed[k] = IF status[k] \in OpenCmd THEN "superseded" ELSE status[k]
      BY DEF CancelPending
    <3> HIDE DEF closed
    <3>2. CASE \/ \E kind \in Requests, p \in Plans \cup {0} : ClientLoad(c, kind, p)
               \/ ClientFails(c) \/ ApprovePlan(c)
      BY <3>2 DEF ClientLoad, ClientFails, ApprovePlan
    <3>3. CASE EmergencyStop(c)
      BY <3>3, SuspendWithdraws DEF EmergencyStop
    <3>4. CASE \E mode \in Modes : ChangeMode(c, mode)
      BY <3>1, <3>4 DEF ChangeMode, closed
    <3>5. ASSUME NEW v \in Policies, NEW d \in Devices, NEW t \in PolicyTerms,
                 SavePolicy(c, v, d, t)
          PROVE  status'[k] = status[k] \/ (status[k] \in OpenCmd /\ status'[k] = "superseded")
      BY <3>5, SuspendWithdraws DEF SavePolicy
    <3>6. ASSUME NEW manual \in BOOLEAN, ApplyPreset(c, manual)
          PROVE  status'[k] = status[k] \/ (status[k] \in OpenCmd /\ status'[k] = "superseded")
      <4>1. CASE manual
        <5> DEFINE ended == [control EXCEPT !.revision = @ + 1]
        <5>1. Suspend("manual_override", ended, client[c].exec, status, closed)
          BY <3>6, <4>1 DEF ApplyPreset, closed
        <5> HIDE DEF ended
        <5>2. QED
          BY <3>1, <5>1, SuspendWithdraws
      <4>2. CASE ~manual
        BY <3>1, <3>6, <4>2 DEF ApplyPreset, closed
      <4>3. QED
        BY <4>1, <4>2
    <3>7. QED
      BY <3>2, <3>3, <3>4, <3>5, <3>6
  <2>3. QED
    BY <2>1, <2>2, <1>k DEF Undisturbed
<1>2. CASE Device
  <2>1. ASSUME NEW d \in Devices, NEW p \in Plans, AcceptPlan(d, p) PROVE VerInv'
    BY <2>1, <1>k DEF AcceptPlan, Undisturbed
  <2>2. ASSUME NEW d \in Devices, ListPendingCommands(d) PROVE VerInv'
    <3>1. \A k \in Keys : Undisturbed(k)
      BY <2>2, <1>t, <1>f DEF ListPendingCommands, Undisturbed
    <3>2. QED
      BY <2>2, <3>1, <1>k DEF ListPendingCommands
  <2>3. ASSUME NEW k \in Keys, NEW answer \in {"accepted", "rejected"},
               AcknowledgeCommand(k, answer)
        PROVE  VerInv'
    <3>1. \A l \in Keys : Undisturbed(l)
      BY <2>3, <1>t, <1>f DEF AcknowledgeCommand, Answerable, Undisturbed
    <3>2. QED
      BY <2>3, <3>1, <1>k DEF AcknowledgeCommand
  <2>4. ASSUME NEW k \in Keys, ReportExecuted(k) PROVE VerInv'
    <3>1. /\ status[k] = "accepted" /\ now' = now
          /\ status'[k] = "executed" /\ executedAt'[k] = now /\ ver'[k] = "applied"
          /\ evidence'[k] = evidence[k] /\ ~Expired(k)
          /\ \A l \in Keys : l # k => Undisturbed(l)
      BY <2>4, <1>t DEF ReportExecuted, Undisturbed
    <3>2. evidence[k] = -1 /\ Start(k[3]) <= now
      BY <3>1, <1>f DEF VerInv, Agrees
    <3>3. now < End(k[3])
      BY <3>1, <1>t, ConstantsAssumption DEF Expired, End, Keys, Slots
    <3>4. Agrees(k)'
      BY <3>1, <3>2, <3>3, <1>f DEF Agrees, ReadBack, Start, End
    <3>5. QED
      BY <3>1, <3>4, <1>o
  <2>5. ASSUME NEW k \in Keys, ReportFailed(k) PROVE VerInv'
    <3> DEFINE failed == [status EXCEPT ![k] = "failed"]
    <3>1. Suspend("partial_execution_failure", control, execMode, failed, failed)
      BY <2>5 DEF ReportFailed
    <3>2. failed[k] = "failed" /\ \A l \in Keys : l # k => failed[l] = status[l]
      BY <1>t
    <3> HIDE DEF failed
    <3>3. /\ status'[k] = "failed"
          /\ \A l \in Keys : l # k =>
               status'[l] = status[l] \/ (status[l] \in OpenCmd /\ status'[l] = "superseded")
      BY <3>1, <3>2, <1>f, SuspendWithdraws
    <3>4. /\ now' = now /\ ver'[k] = "failed" /\ evidence'[k] = evidence[k]
          /\ status[k] = "accepted"
          /\ \A l \in Keys : l # k => Undisturbed(l)
      BY <2>5, <3>3, <1>t DEF ReportFailed, Undisturbed
    <3>5. evidence[k] = -1
      BY <3>4, <1>f DEF VerInv, Agrees
    <3>6. Agrees(k)'
      BY <3>3, <3>4, <3>5, <1>f DEF Agrees, ReadBack
    <3>7. QED
      BY <3>4, <3>6, <1>o
  <2>6. ASSUME NEW k \in Keys, NEW observed \in Time, NEW match \in BOOLEAN,
               VerifyReadback(k, observed, match)
        PROVE  VerInv'
    <3>1. \A l \in Keys :
            status'[l] = status[l] \/ (status[l] \in OpenCmd /\ status'[l] = "superseded")
      BY <2>6, SuspendWithdraws DEF VerifyReadback
    <3>2. /\ now' = now /\ ver'[k] \in ReadBack /\ evidence'[k] = observed
          /\ executedAt'[k] = executedAt[k] /\ status[k] = "executed"
          /\ executedAt[k] <= observed /\ observed < End(k[3])
          /\ \A l \in Keys : l # k => Undisturbed(l)
      BY <2>6, <3>1, <1>t
      DEF VerifyReadback, MeasuredAfterApplication, Undisturbed, ReadBack
    <3>3. status'[k] = "executed" /\ observed # -1
      BY <3>1, <3>2, <1>f, ConstantsAssumption DEF Time
    <3>4. Start(k[3]) <= executedAt[k] /\ executedAt[k] < End(k[3])
      BY <3>2 DEF VerInv, Agrees
    <3>5. Agrees(k)'
      BY <3>2, <3>3, <3>4, <1>f DEF Agrees, ReadBack, Start, End
    <3>6. QED
      BY <3>2, <3>5, <1>o
  <2>7. QED
    BY <1>2, <2>1, <2>2, <2>3, <2>4, <2>5, <2>6 DEF Device
<1>3. CASE Worker
  <2>1. CASE WorkerLoad \/ WorkerLock
    BY <2>1, <1>k DEF WorkerLoad, WorkerLock, Undisturbed
  <2>2. ASSUME NEW k \in Keys, Reconcile(k) PROVE VerInv'
    <3>e. UNCHANGED <<now, executedAt, evidence>>
      BY <2>2 DEF Reconcile
    <3>1. CASE ReconcileExpired(k)
      <4> DEFINE expired == [status EXCEPT ![k] = "expired"]
      <4>1. Suspend("partial_execution_failure", control, worker.exec, status, expired)
        BY <3>1 DEF ReconcileExpired
      <4>2. expired[k] = "expired" /\ \A l \in Keys : l # k => expired[l] = status[l]
        BY <1>t
      <4> HIDE DEF expired
      <4>3. /\ status'[k] \in {"expired", "superseded"}
            /\ \A l \in Keys : l # k =>
                 status'[l] = status[l] \/ (status[l] \in OpenCmd /\ status'[l] = "superseded")
        BY <4>1, <4>2, SuspendWithdraws
      <4>4. /\ ver'[k] = "failed" /\ status[k] \in OpenCmd
            /\ \A l \in Keys : l # k => Undisturbed(l)
        BY <3>1, <3>e, <4>3, <1>t DEF ReconcileExpired, Lapsed, Undisturbed
      <4>5. evidence[k] = -1
        BY <4>4, <1>f DEF VerInv, Agrees
      <4>6. Agrees(k)'
        BY <3>e, <4>3, <4>4, <4>5, <1>f DEF Agrees, ReadBack
      <4>7. QED
        BY <3>e, <4>4, <4>6, <1>o
    <3>2. ASSUME NEW why, Suspend(why, control, worker.exec, status, status)
          PROVE  \A l \in Keys :
            status'[l] = status[l] \/ (status[l] \in OpenCmd /\ status'[l] = "superseded")
      BY <3>2, SuspendWithdraws
    <3>3. CASE ReconcileFailed(k)
      <4>1. /\ status[k] \in FailedCmd /\ ver'[k] = "failed"
            /\ status'[k] = status[k]
            /\ \A l \in Keys : l # k => Undisturbed(l)
        BY <3>3, <3>e, <3>2, <1>t, <1>f DEF ReconcileFailed, NewlyFailed, Undisturbed
      <4>2. evidence[k] = -1
        BY <4>1, <1>f DEF VerInv, Agrees
      <4>3. Agrees(k)'
        BY <3>e, <4>1, <4>2, <1>f DEF Agrees, ReadBack
      <4>4. QED
        BY <3>e, <4>1, <4>3, <1>o
    <3>4. CASE ReconcileOverdue(k)
      <4>1. /\ status[k] = "executed" /\ ver'[k] = "read_back_timeout"
            /\ status'[k] = status[k] /\ evidence[k] = -1
            /\ \A l \in Keys : l # k => Undisturbed(l)
        BY <3>4, <3>e, <3>2, <1>t, <1>f DEF ReconcileOverdue, ReadbackOverdue, Undisturbed
      <4>2. Start(k[3]) <= executedAt[k] /\ executedAt[k] < End(k[3])
        BY <4>1 DEF VerInv, Agrees
      <4>3. Agrees(k)'
        BY <3>e, <4>1, <4>2, <1>f DEF Agrees, ReadBack, Start, End
      <4>4. QED
        BY <3>e, <4>1, <4>3, <1>o
    <3>5. CASE ReconcileSettled(k)
      BY <3>5, <3>e, <1>k DEF ReconcileSettled, Undisturbed
    <3>6. QED
      BY <2>2, <3>1, <3>3, <3>4, <3>5 DEF Reconcile
  <2>3. CASE Dispatch
    <3>1. \A k \in Keys : Dispatchable(k) => Due(k)
      BY DEF Dispatchable
    <3>2. \A k \in Keys : Undisturbed(k)
      BY <1>t, <2>3, <3>1, DispatchSteps, StatusFacts DEF Dispatch, Undisturbed
    <3>3. QED
      BY <2>3, <3>2, <1>k DEF Dispatch
  <2>4. QED
    BY <1>3, <2>1, <2>2, <2>3 DEF Worker
<1>4. CASE Environment
  <2>1. UNCHANGED <<status, executedAt, ver, evidence>>
    BY <1>4 DEF Environment, Tick, ConfigChanges, InputsChange, GateChanges, PublishPlan
  <2>t. now <= now'
    <3>1. CASE Tick
      BY <1>t, <3>1 DEF Tick
    <3>2. CASE ~Tick
      <4>1. now' = now
        BY <1>4, <3>2 DEF Environment, ConfigChanges, InputsChange, GateChanges, PublishPlan
      <4>2. QED
        BY <1>t, <4>1
    <3>3. QED
      BY <3>1, <3>2
  <2>2. \A k \in Keys : Undisturbed(k)
    BY <2>1 DEF Undisturbed
  <2>3. QED
    BY <1>t, <2>t, <2>2, AgreesKept DEF VerInv
<1>5. CASE UNCHANGED vars
  BY <1>5, <1>k DEF vars, Undisturbed
<1>6. QED
  BY <1>1, <1>2, <1>3, <1>4, <1>5 DEF Next

(* What the verification row says of a command is true of it: it was       *)
(* executed in its interval, read back between the application and the end *)
(* of the interval, or ended without being executed (record_application,   *)
(* verify_readback, reconcile_station).                                    *)
THEOREM VerificationsAgree == Spec => []VerificationAgrees
PROOF
<1>1. VerInv => VerificationAgrees
  BY DEF VerInv, Agrees, VerificationAgrees
<1>2. QED
  BY InitVer, NextVer, <1>1, PTL DEF Spec

(* A command that was read back stays read back.                           *)
LEMMA VerifiedStays ==
  ASSUME VerInv, [Next]_vars, NEW k \in Keys, ver[k] = "read_back_verified"
  PROVE  ver'[k] = "read_back_verified"
PROOF
<1>1. status[k] = "executed" /\ evidence[k] # -1 /\ ver \in [Keys -> VerStatus]
  BY DEF VerInv, Agrees, ReadBack, TypeOK
<1>2. "executed" # "accepted" /\ "executed" \notin OpenCmd /\ "executed" \notin FailedCmd
  BY DEF OpenCmd, FailedCmd
<1>3. CASE Operator \/ Environment \/ UNCHANGED vars
  BY <1>3 DEF Operator, ClientLoad, ClientFails, EmergencyStop, ChangeMode, SavePolicy,
              ApprovePlan, ApplyPreset, Environment, Tick, ConfigChanges, InputsChange,
              GateChanges, PublishPlan, vars
<1>4. CASE Device
  BY <1>1, <1>2, <1>4 DEF Device, AcceptPlan, ListPendingCommands, AcknowledgeCommand,
                          ReportExecuted, ReportFailed, VerifyReadback
<1>5. CASE Worker
  BY <1>1, <1>2, <1>5 DEF Worker, WorkerLoad, WorkerLock, Reconcile, Dispatch,
                          ReconcileExpired, ReconcileFailed, ReconcileOverdue,
                          ReconcileSettled, Lapsed, NewlyFailed, ReadbackOverdue
<1>6. QED
  BY <1>3, <1>4, <1>5 DEF Next

LEMMA InitOutcome == Init => OutcomeIsBacked
PROOF BY DEF Init, OutcomeIsBacked

LEMMA NextOutcome == VerInv /\ OutcomeIsBacked /\ [Next]_vars => OutcomeIsBacked'
PROOF
<1> SUFFICES ASSUME VerInv, OutcomeIsBacked, [Next]_vars,
                    NEW p \in Plans, NEW s \in Slots, outcome'[<<p, s>>] = "outcome_verified"
             PROVE  \E d \in Devices : ver'[<<d, p, s>>] = "read_back_verified"
  BY DEF OutcomeIsBacked
<1>k. \A d \in Devices : <<d, p, s>> \in Keys
  BY DEF Keys
<1>1. CASE outcome'[<<p, s>>] = outcome[<<p, s>>]
  <2>1. PICK d \in Devices : ver[<<d, p, s>>] = "read_back_verified"
    BY <1>1 DEF OutcomeIsBacked
  <2>2. QED
    BY <1>k, <2>1, VerifiedStays
<1>2. CASE outcome'[<<p, s>>] # outcome[<<p, s>>]
  <2>1. PICK k \in Keys : EvaluateInterval(k)
    BY <1>2 DEF Next, Operator, ClientLoad, ClientFails, EmergencyStop, ChangeMode, SavePolicy,
              ApprovePlan, ApplyPreset, Environment, Tick, ConfigChanges, InputsChange,
              GateChanges, PublishPlan, vars, Device, AcceptPlan, ListPendingCommands,
              AcknowledgeCommand, ReportExecuted, ReportFailed, VerifyReadback,
              Worker, WorkerLoad, WorkerLock, Reconcile, Dispatch
  <2>2. PICK complete \in BOOLEAN, deviates \in BOOLEAN :
          outcome' = [outcome EXCEPT ![<<k[2], k[3]>>] = OutcomeOf(k, complete, deviates)]
    BY <1>2, <2>1 DEF EvaluateInterval
  <2>3. outcome \in [Plans \X Slots -> Outcomes] /\ <<p, s>> \in Plans \X Slots
    BY DEF VerInv, TypeOK
  <2>4. <<p, s>> = <<k[2], k[3]>> /\ OutcomeOf(k, complete, deviates) = "outcome_verified"
    BY <1>2, <2>2, <2>3
  <2>5. ver[k] = "read_back_verified"
    BY <2>4 DEF OutcomeOf
  <2>6. k[1] \in Devices /\ k = <<k[1], p, s>>
    BY <2>4 DEF Keys
  <2>7. QED
    BY <2>5, <2>6, VerifiedStays
<1>3. QED
  BY <1>1, <1>2

(* An interval is reported as verified only if the setpoint of a command   *)
(* of that interval was read back, and it stays so (reconcile_station).    *)
THEOREM OutcomesAreBacked == Spec => []OutcomeIsBacked
PROOF
<1>1. QED
  BY InitVer, NextVer, InitOutcome, NextOutcome, PTL DEF Spec
==============================================================================
