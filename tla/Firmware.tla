------------------------------ MODULE Firmware ------------------------------
(***************************************************************************)
(* Firmware fleet updates: releases, rollouts, and one deployment for each *)
(* device of a rollout, moved by the device's own reports, by the          *)
(* administrator and by a periodic sweep.                                  *)
(*                                                                         *)
(* No handler of this component locks the rows it reads, so a handler is   *)
(* not one action but a transaction of three steps: it loads rows (an      *)
(* action for each handler, which also decides what will be written); it   *)
(* flushes its writes and then looks at the rollouts it touched, to pause  *)
(* them or to offer queued deployments (Work); it commits.  A session      *)
(* reads what others committed and what it wrote itself.  Its UPDATEs      *)
(* name the row only, so a write based on a stale read overwrites; a row   *)
(* flushed by one session makes the others wait for its commit.            *)
(***************************************************************************)
EXTENDS Integers, FiniteSets

CONSTANTS
  Devices,
  Releases,
  NoRelease,      \* a rollout that is not created has no release
  Requests,       \* sessions that serve devices and administrators
  Sweepers,       \* sessions that run firmware_deployment_sweep_task
  MaxRollout,     \* bound: rollouts the administrator creates
  MaxConcurrent,  \* FirmwareRollout.max_concurrent
  Threshold       \* FirmwareRollout.failure_threshold_percent

ASSUME FirmwareAssumption ==
  /\ IsFiniteSet(Devices)
  /\ NoRelease \notin Releases
  /\ MaxRollout \in Nat
  /\ MaxConcurrent \in Nat \ {0}
  /\ Threshold \in 0 .. 100

Sessions == Requests \cup Sweepers
Rollouts == 1 .. MaxRollout

(* A deployment is identified by its rollout and its device: a rollout     *)
(* requests at most one deployment for a device.                           *)
Rows == Rollouts \X Devices

VARIABLES
  release,  \* FirmwareRelease.status
  rollout,  \* FirmwareRollout: status ("none": not created) and release
  row,      \* FirmwareDeployment: status ("none": not created), whether its
            \* deadline has passed, and whether the device has started again
            \* since the boot it reported when it restarted (boot_id_before)
  txn       \* the transaction of each session

fleet == <<release, rollout, row>>
vars == <<fleet, txn>>

Early     == {"offered", "downloading", "verified", "installing"}
InFlight  == Early \cup {"awaiting_confirmation"}
TerminalFailure == {"failed", "timed_out", "rolled_back"}
Terminal  == TerminalFailure \cup {"succeeded", "rejected", "cancelled"}
Status    == InFlight \cup Terminal \cup {"none", "requested"}

NoRow == [status |-> "none", late |-> FALSE, restarted |-> FALSE]

(* writes, rolls, rels: the new status of deployments, rollouts, releases;  *)
(* restarted: whether the device started again after its report; settle:   *)
(* rollouts to pause or to promote; promote: rollouts to promote; sweep:   *)
(* promote every active one; offers, pauses: what Work found to do.        *)
NoTxn == [pc |-> "idle", writes |-> <<>>, rolls |-> <<>>, rels |-> <<>>,
          restarted |-> FALSE, settle |-> {}, promote |-> {}, sweep |-> FALSE,
          offers |-> {}, pauses |-> {}]

Init ==
  /\ release = [v \in Releases |-> "draft"]
  /\ rollout = [r \in Rollouts |-> [status |-> "none", release |-> NoRelease]]
  /\ row = [i \in Rows |-> NoRow]
  /\ txn = [s \in Sessions |-> NoTxn]

RowsOf(r) == {i \in Rows : i[1] = r}
Target(i) == rollout[i[1]].release

(***************************************************************************)
(* What a session sees and what its UPDATEs write                          *)
(***************************************************************************)
StatusSeen(t, i)  == IF i \in DOMAIN t.writes THEN t.writes[i] ELSE row[i].status
RolloutSeen(t, r) == IF r \in DOMAIN t.rolls THEN t.rolls[r].status ELSE rollout[r].status

(* Both deadlines are set on entering the status that looks at them.       *)
Written(i, status, restarted) ==
  [status |-> status,
   late   |-> FALSE,
   restarted |-> IF status = "awaiting_confirmation" THEN restarted
                 ELSE row[i].restarted]

Load(s, t) ==
  /\ txn[s].pc = "idle"
  /\ txn' = [txn EXCEPT ![s] = [t EXCEPT !.pc = "loaded"]]
  /\ UNCHANGED fleet

(***************************************************************************)
(* The device reports                                                      *)
(***************************************************************************)
(* Events that move a deployment from one status to the next.              *)
ForwardEvents ==
  {<<"offered", "downloading", "downloading">>,
   <<"offered", "rejected", "rejected">>,
   <<"downloading", "verified", "verified">>,
   <<"downloading", "failed", "failed">>,
   <<"verified", "installing", "installing">>,
   <<"verified", "failed", "failed">>,
   <<"installing", "restarting", "awaiting_confirmation">>,
   <<"installing", "failed", "failed">>,
   <<"awaiting_confirmation", "failed", "failed">>}

(* Mutant: the name of the event is taken for the status it leads to.      *)
EventName(e) == e[2]

StatusAfter(e) == e[3]

(* Mutant: the confirmation may come from the boot before the restart.     *)
AnyBoot(i) == TRUE

NewBoot(i) == row[i].restarted

Report(s, i, status) ==
  Load(s, [NoTxn EXCEPT !.writes = [j \in {i} |-> status],
                        !.settle = IF status \in Terminal THEN {i[1]} ELSE {}])

(* report_deployment_event.  A retry or an event out of order writes       *)
(* nothing.                                                                *)
ReportEvent(s, i) ==
  \E e \in ForwardEvents :
    /\ row[i].status = e[1]
    /\ Report(s, i, StatusAfter(e))

(* _resolve_confirmation: a boot other than the one before the restart;    *)
(* rolled back if the version it runs is not the target.                   *)
ReportConfirmed(s, i, rolledBack) ==
  /\ row[i].status = "awaiting_confirmation"
  /\ NewBoot(i)
  /\ Report(s, i, IF rolledBack THEN "rolled_back" ELSE "succeeded")

(* get_current_offer looks at the newest deployment first and stops at the *)
(* first that is still alive.                                              *)
Overdue(i) == row[i].status = "offered" /\ row[i].late

Poll(s, d) ==
  LET mine == {i \in Rows : i[2] = d /\ row[i].status \in InFlight}
      dead == {i \in mine : \A j \in mine : j[1] >= i[1] => Overdue(j)}
  IN /\ dead # {}
     /\ Load(s, [NoTxn EXCEPT !.writes = [i \in dead |-> "timed_out"]])

(***************************************************************************)
(* The administrator                                                       *)
(***************************************************************************)
PublishRelease(s, v) ==
  /\ release[v] = "draft"
  /\ Load(s, [NoTxn EXCEPT !.rels = [w \in {v} |-> "published"]])

(* Mutant: only the deployments already offered are withdrawn.             *)
OnlyOffered == {"offered"}

NotStarted == {"requested", "offered"}

RevokeRelease(s, v) ==
  /\ release[v] # "revoked"
  /\ Load(s, [NoTxn EXCEPT
       !.rels = [w \in {v} |-> "revoked"],
       !.writes = [i \in {i \in Rows : Target(i) = v /\ row[i].status \in NotStarted}
                     |-> "cancelled"]])

(* Mutant: a deployment that is not in flight may be requested again.      *)
NotInFlight(status) == status \notin InFlight

Retriable(status) == status \in TerminalFailure

(* request_deployment: the newest deployment of this release for the       *)
(* device failed, or there is none.                                        *)
Requestable(d, v) ==
  LET past == {i \in Rows : i[2] = d /\ Target(i) = v /\ row[i].status # "none"}
  IN \A i \in past : (\A j \in past : j[1] <= i[1]) => Retriable(row[i].status)

(* create_rollout over the devices D that are compatible with the release. *)
(* Of two attempts requested at once for a device the unique key rejects   *)
(* one: here one rollout is created at a time.                             *)
CreateRollout(s, r, v, D) ==
  /\ release[v] = "published"
  /\ \A q \in Rollouts : rollout[q].status = "none" <=> q >= r
  /\ \A t \in Sessions : r \notin DOMAIN txn[t].rolls
  /\ Load(s, [NoTxn EXCEPT
       !.rolls = [q \in {r} |-> [status |-> "active", release |-> v]],
       !.writes = [i \in {<<r, d>> : d \in {d \in D : Requestable(d, v)}} |-> "requested"],
       !.promote = {r}])

MoveRollout(s, r, from, to, promote) ==
  /\ rollout[r].status = from
  /\ Load(s, [NoTxn EXCEPT
       !.rolls = [q \in {r} |-> [rollout[r] EXCEPT !.status = to]], !.promote = promote])

PauseRollout(s, r)  == MoveRollout(s, r, "active", "paused", {})
ResumeRollout(s, r) == MoveRollout(s, r, "paused", "active", {r})

(* A device that restarts is beyond recall.                                *)
Cancellable == {"requested", "offered", "downloading", "verified", "installing"}

CancelRollout(s, r) ==
  /\ rollout[r].status \in {"active", "paused"}
  /\ Load(s, [NoTxn EXCEPT
       !.rolls = [q \in {r} |-> [rollout[r] EXCEPT !.status = "cancelled"]],
       !.writes = [i \in {i \in RowsOf(r) : row[i].status \in Cancellable} |-> "cancelled"]])

(***************************************************************************)
(* The sweep: firmware_deployment_sweep_task                               *)
(***************************************************************************)
(* Mutant: confirmations that do not come are not looked for.              *)
OffersOnly == {"offered"}

HasDeadline == {"offered", "awaiting_confirmation"}

(* Mutant: the sweep promotes only the rollouts of what timed out.         *)
NoCatchUp == FALSE

CatchUp == TRUE

Sweep(s) ==
  LET overdue == {i \in Rows : row[i].status \in HasDeadline /\ row[i].late}
  IN Load(s, [NoTxn EXCEPT
       !.writes = [i \in overdue |-> "timed_out"],
       !.settle = {i[1] : i \in overdue},
       !.sweep = CatchUp])

(***************************************************************************)
(* Every transaction: flush, look at the rollouts, commit                  *)
(***************************************************************************)
(* Mutant: an installation that came back with the old version is no       *)
(* failure.                                                                *)
FailuresReported == TerminalFailure \ {"rolled_back"}

Failure == TerminalFailure

(* _maybe_auto_pause: at the threshold an active rollout is paused.        *)
TooManyFailures(t, r) ==
  LET all == {i \in RowsOf(r) : StatusSeen(t, i) # "none"}
  IN /\ all # {}
     /\ Cardinality({i \in all : StatusSeen(t, i) \in Failure}) * 100
          >= Threshold * Cardinality(all)

(* Mutant: a device that restarts does not occupy a slot.                  *)
RestartingFree == InFlight \ {"awaiting_confirmation"}

Occupying == InFlight

(* _promote_queued: offers for the free slots of the rollout.              *)
Promotes(t, r, offers) ==
  LET seen(S) == {i \in RowsOf(r) : StatusSeen(t, i) \in S}
      slots   == MaxConcurrent - Cardinality(seen(Occupying))
      queued  == seen({"requested"})
  IN /\ offers \subseteq queued
     /\ Cardinality(offers) = IF slots <= 0 THEN 0
                              ELSE IF slots < Cardinality(queued) THEN slots
                              ELSE Cardinality(queued)

Flushed(s) == txn[s].pc = "working"

(* Another session has flushed a row and not yet committed it.             *)
Waits(s, rows, rolls, rels) ==
  \E t \in Sessions \ {s} : Flushed(t) /\
    \/ DOMAIN txn[t].writes \cap rows # {}
    \/ DOMAIN txn[t].rolls \cap rolls # {}
    \/ DOMAIN txn[t].rels \cap rels # {}

Work(s) ==
  LET t == txn[s]
      active == {r \in Rollouts : RolloutSeen(t, r) = "active"}
      pauses == {r \in t.settle \cap active : TooManyFailures(t, r)}
      open   == {r \in active \ pauses : t.sweep \/ r \in t.settle \cup t.promote}
  IN
  /\ t.pc = "loaded"
  /\ ~Waits(s, DOMAIN t.writes, DOMAIN t.rolls, DOMAIN t.rels)
  /\ \E offers \in SUBSET {i \in Rows : i[1] \in open /\ StatusSeen(t, i) = "requested"} :
       /\ \A r \in open : Promotes(t, r, offers \cap RowsOf(r))
       /\ txn' = [txn EXCEPT ![s] = [t EXCEPT !.pc = "working", !.offers = offers,
                    !.pauses = pauses, !.settle = {}, !.promote = {}, !.sweep = FALSE]]
  /\ UNCHANGED fleet

Commit(s) ==
  LET t == txn[s] IN
  /\ Flushed(s)
  /\ ~Waits(s, t.offers, t.pauses, {})
  /\ release' = [v \in Releases |-> IF v \in DOMAIN t.rels THEN t.rels[v] ELSE release[v]]
  /\ rollout' = [r \in Rollouts |->
       IF r \in t.pauses THEN [rollout[r] EXCEPT !.status = "paused"]
       ELSE IF r \in DOMAIN t.rolls THEN t.rolls[r] ELSE rollout[r]]
  /\ row' = [i \in Rows |->
       IF i \in t.offers THEN Written(i, "offered", FALSE)
       ELSE IF i \in DOMAIN t.writes THEN Written(i, t.writes[i], t.restarted) ELSE row[i]]
  /\ txn' = [txn EXCEPT ![s] = NoTxn]

(* The handler raised or the connection broke.  A sweep that dies leaves   *)
(* nothing behind: it is as if it had not started.                         *)
Rollback(s) ==
  /\ txn[s].pc # "idle"
  /\ txn' = [txn EXCEPT ![s] = NoTxn]
  /\ UNCHANGED fleet

(***************************************************************************)
(* The environment                                                         *)
(***************************************************************************)
(* offer_expires_at and confirmation_deadline_at are looked at in these two *)
(* statuses only.                                                          *)
DeadlinePasses(i) ==
  /\ row[i].status \in {"offered", "awaiting_confirmation"}
  /\ ~row[i].late
  /\ row' = [row EXCEPT ![i].late = TRUE]
  /\ UNCHANGED <<release, rollout, txn>>

(* A device starts again: the boots it has reported, or that a transaction *)
(* is about to write, are no longer its current one.                       *)
Reboot(d) ==
  /\ row' = [i \in Rows |->
       IF i[2] = d /\ row[i].status = "awaiting_confirmation"
       THEN [row[i] EXCEPT !.restarted = TRUE] ELSE row[i]]
  /\ txn' = [s \in Sessions |->
       IF \E i \in DOMAIN txn[s].writes :
            i[2] = d /\ txn[s].writes[i] = "awaiting_confirmation"
       THEN [txn[s] EXCEPT !.restarted = TRUE] ELSE txn[s]]
  /\ UNCHANGED <<release, rollout>>

(***************************************************************************)
(* Specification                                                           *)
(***************************************************************************)
Device ==
  \E s \in Requests :
    \/ \E i \in Rows : ReportEvent(s, i) \/ \E back \in BOOLEAN : ReportConfirmed(s, i, back)
    \/ \E d \in Devices : Poll(s, d)

Admin ==
  \E s \in Requests :
    \/ \E v \in Releases : PublishRelease(s, v) \/ RevokeRelease(s, v)
    \/ \E r \in Rollouts, v \in Releases, D \in SUBSET Devices : CreateRollout(s, r, v, D)
    \/ \E r \in Rollouts : PauseRollout(s, r) \/ ResumeRollout(s, r) \/ CancelRollout(s, r)

Finish(s) == Work(s) \/ Commit(s) \/ (s \in Requests /\ Rollback(s))

Environment ==
  \/ \E i \in Rows : DeadlinePasses(i)
  \/ \E d \in Devices : Reboot(d)

Next ==
  \/ Device
  \/ Admin
  \/ \E s \in Sweepers : Sweep(s)
  \/ \E s \in Sessions : Finish(s)
  \/ Environment

(* Requests end and time passes.  Celery beat starts the sweep every five   *)
(* minutes, and nothing keeps a sweep from committing for ever: row locks  *)
(* are granted in the order in which they are asked for.                   *)
Fairness ==
  /\ \A i \in Rows : WF_vars(DeadlinePasses(i))
  /\ \A s \in Requests : WF_vars(Finish(s))
  /\ \A s \in Sweepers : WF_vars(Sweep(s)) /\ SF_vars(Finish(s))

Spec == Init /\ [][Next]_vars
FairSpec == Spec /\ Fairness

(***************************************************************************)
(* Types                                                                   *)
(***************************************************************************)
RolloutType == [status : {"none", "active", "paused", "cancelled"},
                release : Releases \cup {NoRelease}]
RowType == [status : Status, late : BOOLEAN, restarted : BOOLEAN]
ReleaseStatus == {"draft", "published", "revoked"}

PartialFunction(f, D, R) == DOMAIN f \subseteq D /\ f \in [DOMAIN f -> R]

TxnOK(t) ==
  /\ t.pc \in {"idle", "loaded", "working"}
  /\ PartialFunction(t.writes, Rows, Status \ {"none"})
  /\ PartialFunction(t.rolls, Rollouts, RolloutType)
  /\ PartialFunction(t.rels, Releases, ReleaseStatus)
  /\ t.restarted \in BOOLEAN /\ t.sweep \in BOOLEAN
  /\ t.settle \subseteq Rollouts /\ t.promote \subseteq Rollouts
  /\ t.offers \subseteq Rows /\ t.pauses \subseteq Rollouts

(* Every variable holds a value its columns can hold.                      *)
TypeOK ==
  /\ release \in [Releases -> ReleaseStatus]
  /\ rollout \in [Rollouts -> RolloutType]
  /\ row \in [Rows -> RowType]
  /\ \A s \in Sessions : TxnOK(txn[s])

(***************************************************************************)
(* Safety, when the sweep overlaps with a request                          *)
(***************************************************************************)
(* A deployment succeeds only if the device started again after the boot   *)
(* in which it said that it would restart, also when the sweep overlaps    *)
(* (report_deployment_event, _resolve_confirmation).  It holds of devices  *)
(* that report one thing at a time: of two reports that overlap the later  *)
(* may replace the boot that the other was compared with.                  *)
SuccessNeedsRestart ==
  \A i \in Rows : row[i].status = "succeeded" => row[i].restarted

(***************************************************************************)
(* Safety of the handlers, when transactions do not overlap                *)
(***************************************************************************)
InFlightOf(r) == {i \in RowsOf(r) : row[i].status \in InFlight}

(* No more installations at a time than the rollout allows                 *)
(* (_promote_queued, from all of its callers).                             *)
LimitRespected == \A r \in Rollouts : Cardinality(InFlightOf(r)) <= MaxConcurrent

(* A device has at most one deployment of a release that is not over, over *)
(* all rollouts of that release (request_deployment).                      *)
OneDeploymentPerRelease ==
  \A i, j \in Rows :
    /\ i[2] = j[2] /\ Target(i) = Target(j)
    /\ row[i].status \in InFlight \cup {"requested"}
    /\ row[j].status \in InFlight \cup {"requested"}
    => i = j

(* What was withdrawn stays withdrawn: nothing of a revoked release waits  *)
(* for a device, nothing of a cancelled rollout is before its restart      *)
(* (revoke_release, cancel_rollout).                                       *)
NothingWithdrawnIsOffered ==
  \A i \in Rows :
    /\ row[i].status \in NotStarted => release[Target(i)] = "published"
    /\ row[i].status \in Early \cup {"requested"} => rollout[i[1]].status # "cancelled"

(* A failure that the device reports, or that its silence after a restart  *)
(* amounts to, leaves no rollout active above its threshold                *)
(* (_maybe_auto_pause).  An offer that a poll finds expired is not         *)
(* followed by this check.                                                 *)
FailurePauses ==
  [][\A i \in Rows :
       /\ row'[i].status # row[i].status
       /\ \/ row'[i].status \in {"failed", "rolled_back"}
          \/ row[i].status = "awaiting_confirmation" /\ row'[i].status = "timed_out"
       => LET all == {j \in RowsOf(i[1]) : row'[j].status # "none"}
              bad == {j \in all : row'[j].status \in TerminalFailure}
          IN rollout'[i[1]].status = "active" =>
               Cardinality(bad) * 100 < Threshold * Cardinality(all)]_vars

(***************************************************************************)
(* Liveness                                                                *)
(***************************************************************************)
(* An offer that is not taken and a restart that is not confirmed end      *)
(* (sweep_expired_deployments).                                            *)
DeadlinesBite ==
  \A i \in Rows :
    row[i].status \in {"offered", "awaiting_confirmation"}
      ~> row[i].status \notin {"offered", "awaiting_confirmation"}

(* A free slot of an active rollout does not stay free while a deployment  *)
(* is queued (the sweep's last loop).                                      *)
CapacityIsUsed ==
  \A r \in Rollouts :
    LET idle == /\ rollout[r].status = "active"
                /\ Cardinality(InFlightOf(r)) < MaxConcurrent
                /\ \E i \in RowsOf(r) : row[i].status = "requested"
    IN idle ~> ~idle

(***************************************************************************)
(* What comments say and the code does not do                              *)
(***************************************************************************)
(* cancel_rollout: a device that restarts is not cancelled, it runs to its *)
(* own terminal state.                                                     *)
RestartRunsToItsEnd ==
  [][\A i \in Rows : row[i].status = "awaiting_confirmation" =>
       row'[i].status \in {"awaiting_confirmation", "succeeded", "rolled_back", "failed",
                           "timed_out"}]_vars

(* FirmwareDeployment: a deployment that is stuck before its restart times *)
(* out through offer_expires_at.                                           *)
StuckDeploymentEnds ==
  \A i \in Rows : row[i].status \in Early ~> row[i].status \notin Early
=============================================================================
