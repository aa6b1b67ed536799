--------------------------- MODULE InverterConfig ---------------------------
(***************************************************************************)
(* The settings of an inverter: the revisions that an administrator wants, *)
(* the snapshots that the device reports, and the command that carries the *)
(* newest revision to the device.                                          *)
(*                                                                         *)
(* save_desired and report_snapshot hold the lock of the device row; the   *)
(* routes of the command protocol hold the lock of the station row, and    *)
(* ACK and result also the lock of the command row.  The two groups do not *)
(* exclude each other: what one has read, the other may be changing.  A    *)
(* request repeated with the same id and content changes nothing.          *)
(***************************************************************************)
EXTENDS Integers, Sequences

CONSTANTS
  Profiles,    \* approved register maps
  Values,      \* values of the setting
  NoValue,     \* absent from a revision, unknown in a snapshot
  MaxDesired,  \* bound: revisions
  MaxReports,  \* bound: snapshots
  MaxInstant,  \* bound: time
  Lifetime     \* instants a command is valid; a snapshot is fresh for one

ASSUME ConfigAssumption ==
  /\ NoValue \notin Values
  /\ MaxDesired \in Nat /\ MaxReports \in Nat /\ MaxInstant \in Nat /\ Lifetime \in Nat

VARIABLES
  desired,       \* InverterDesired rows, by version
  reports,       \* InverterReport rows, by version
  settingsWrite, \* the command of each revision
  writable,      \* supports_write: station live, device online and capable
  instant,       \* the time
  saving,        \* a save that holds the device lock
  serving        \* a request of the command protocol that holds the station lock

configVars == <<desired, reports, settingsWrite, writable, instant, saving, serving>>

Versions == 1 .. MaxDesired
Newest(rows) == rows[Len(rows)]

NoWrite == [status |-> "none", basis |-> 0, expires |-> 0, accepted |-> 0]
NotSaving == [on |-> FALSE, open |-> {}, writable |-> FALSE]
NotServing == [op |-> "none", write |-> {}, refused |-> [superseded |-> {}, expired |-> {}]]

ConfigInit ==
  /\ desired = <<>>
  /\ reports = <<>>
  /\ settingsWrite = [v \in Versions |-> NoWrite]
  /\ writable = TRUE
  /\ instant = 0
  /\ saving = NotSaving
  /\ serving = NotServing

WithStatus(statuses) == {v \in Versions : settingsWrite[v].status \in statuses}
MarkedAs(vs, status) ==
  [v \in Versions |-> IF v \in vs THEN [settingsWrite[v] EXCEPT !.status = status]
                      ELSE settingsWrite[v]]

Fresh(report) == report.measured >= instant - 1

(***************************************************************************)
(* Under the lock of the device                                            *)
(***************************************************************************)
(* save_desired, up to its query of the open commands.  The station was    *)
(* loaded with the request.                                                *)
BeginSave ==
  /\ ~saving.on
  /\ Len(desired) < MaxDesired
  /\ saving' = [on |-> TRUE, open |-> WithStatus({"created", "delivered", "accepted"}),
                writable |-> writable]
  /\ UNCHANGED <<desired, reports, settingsWrite, writable, instant, serving>>

AbandonSave ==
  /\ saving.on
  /\ saving' = NotSaving
  /\ UNCHANGED <<desired, reports, settingsWrite, writable, instant, serving>>

SnapshotMatches(profile) ==
  reports # <<>> /\ Newest(reports).profile = profile /\ Fresh(Newest(reports))

NewWrite ==
  [status |-> "created", basis |-> Len(reports), expires |-> instant + Lifetime, accepted |-> 0]

(* Mutant: the flush does not wait.                                        *)
NoRowLock == TRUE

(* The flush waits for an ACK or a result that holds a row it updates.     *)
RowsFree == serving.op \notin {"ack", "result"} \/ serving.write \cap saving.open = {}

CommitSave(profile, value) ==
  LET version == Len(desired) + 1
      sends == value # NoValue /\ saving.writable
  IN
  /\ saving.on
  /\ RowsFree
  /\ value # NoValue => SnapshotMatches(profile)
  /\ desired' = Append(desired, [profile |-> profile, value |-> value, sent |-> sends])
  /\ settingsWrite' = [MarkedAs(saving.open, "superseded") EXCEPT
                         ![version] = IF sends THEN NewWrite ELSE @]
  /\ saving' = NotSaving
  /\ UNCHANGED <<reports, writable, instant, serving>>

(* report_snapshot: a delta is completed from the snapshot before it.      *)
ReportSnapshot(value, outcome, measured, delta) ==
  /\ ~saving.on
  /\ desired # <<>>
  /\ Len(reports) < MaxReports
  /\ reports # <<>> => measured >= Newest(reports).measured
  /\ delta => reports # <<>> /\ Newest(reports).profile = Newest(desired).profile
  /\ reports' = Append(reports,
       [profile |-> Newest(desired).profile, version |-> Len(desired),
        value |-> IF delta /\ value = NoValue THEN Newest(reports).value ELSE value,
        outcome |-> outcome, measured |-> measured])
  /\ UNCHANGED <<desired, settingsWrite, writable, instant, saving, serving>>

(***************************************************************************)
(* Under the lock of the station                                           *)
(***************************************************************************)
(* Mutant: any revision that was sent may be written.                      *)
EverSent(v) == desired[v].sent

(* desired.command_id = command.id                                         *)
IsDesired(v) == v = Len(desired) /\ desired[v].sent

DeliveryAllowed(v) ==
  /\ writable
  /\ IsDesired(v)
  /\ settingsWrite[v].basis = Len(reports)
  /\ Fresh(Newest(reports))
  /\ instant < settingsWrite[v].expires

Expired(v) == settingsWrite[v].expires <= instant

(* list_pending_commands: what it read ...                                 *)
ReadPending ==
  LET pending == {v \in WithStatus({"created", "delivered"}) : ~Expired(v)}
      overdue == {v \in WithStatus({"created", "delivered", "accepted"}) : Expired(v)}
      allowed == {v \in pending : DeliveryAllowed(v)}
  IN
  /\ serving.op = "none"
  /\ serving' = [op |-> "list", write |-> allowed \cap WithStatus({"created"}),
                 refused |-> [superseded |-> pending \ allowed, expired |-> overdue]]
  /\ UNCHANGED <<desired, reports, settingsWrite, writable, instant, saving>>

(* ... and what it writes, whatever became of the rows since.              *)
DeliverPending ==
  /\ serving.op = "list"
  /\ settingsWrite' = [v \in Versions |->
       CASE v \in serving.write -> [settingsWrite[v] EXCEPT !.status = "delivered"]
         [] v \in serving.refused.superseded -> [settingsWrite[v] EXCEPT !.status = "superseded"]
         [] v \in serving.refused.expired -> [settingsWrite[v] EXCEPT !.status = "expired"]
         [] OTHER -> settingsWrite[v]]
  /\ serving' = NotServing
  /\ UNCHANGED <<desired, reports, writable, instant, saving>>

LockWrite(op, v) ==
  /\ serving.op = "none"
  /\ serving' = [NotServing EXCEPT !.op = op, !.write = {v}]
  /\ UNCHANGED <<desired, reports, settingsWrite, writable, instant, saving>>

(* acknowledge_command, accepting; its checks.                             *)
Acknowledge(v) ==
  /\ v \in WithStatus({"created", "delivered"})
  /\ DeliveryAllowed(v)
  /\ LockWrite("ack", v)

(* validate_execution_readback                                             *)
Confirms(report, v) ==
  /\ IsDesired(v)
  /\ report.version = v
  /\ report.profile = desired[v].profile
  /\ report.outcome = "observed"
  /\ settingsWrite[v].accepted <= report.measured
  /\ report.measured <= settingsWrite[v].expires
  /\ report.value = desired[v].value

(* report_command_result of a success; its checks.                         *)
ReportExecuted(v) ==
  /\ v \in WithStatus({"accepted"})
  /\ \E i \in 1 .. Len(reports) : Confirms(reports[i], v)
  /\ LockWrite("result", v)

CommitWrite ==
  /\ serving.op \in {"ack", "result"}
  /\ settingsWrite' = [v \in Versions |->
       IF v \notin serving.write THEN settingsWrite[v]
       ELSE IF serving.op = "ack"
            THEN [settingsWrite[v] EXCEPT !.status = "accepted", !.accepted = instant]
            ELSE [settingsWrite[v] EXCEPT !.status = "executed"]]
  /\ serving' = NotServing
  /\ UNCHANGED <<desired, reports, writable, instant, saving>>

(* A rejection and a failure need no check beyond the status; an ACK that  *)
(* comes too late marks the command.                                       *)
Decline(v) ==
  /\ serving.op = "none"
  /\ \/ /\ v \in WithStatus({"created", "delivered"})
        /\ settingsWrite' = MarkedAs({v}, IF Expired(v) THEN "expired" ELSE "rejected")
     \/ v \in WithStatus({"accepted"}) /\ settingsWrite' = MarkedAs({v}, "failed")
  /\ UNCHANGED <<desired, reports, writable, instant, saving, serving>>

(***************************************************************************)
(* The world around                                                        *)
(***************************************************************************)
(* Heartbeat, capabilities, execution mode of the station.                 *)
WritabilityChanges ==
  /\ writable' = ~writable
  /\ UNCHANGED <<desired, reports, settingsWrite, instant, saving, serving>>

InstantPasses ==
  /\ instant < MaxInstant
  /\ instant' = instant + 1
  /\ UNCHANGED <<desired, reports, settingsWrite, writable, saving, serving>>

ConfigNext ==
  \/ BeginSave \/ AbandonSave
  \/ \E p \in Profiles, x \in Values \cup {NoValue} : CommitSave(p, x)
  \/ \E x \in Values \cup {NoValue}, o \in {"observed", "failed"}, m \in 0 .. instant, d \in BOOLEAN :
       ReportSnapshot(x, o, m, d)
  \/ ReadPending \/ DeliverPending \/ CommitWrite
  \/ \E v \in 1 .. Len(desired) : Acknowledge(v) \/ ReportExecuted(v) \/ Decline(v)
  \/ WritabilityChanges \/ InstantPasses

ConfigSpec == ConfigInit /\ [][ConfigNext]_configVars

(***************************************************************************)
(* reconciliation: the status that the pages show.                         *)
(***************************************************************************)
ReconciliationStatus ==
  LET d == Newest(desired)
      r == Newest(reports)
      about == r.version = Len(desired)
      shown ==
        IF reports = <<>> \/ r.profile # d.profile THEN "pending"
        ELSE IF ~Fresh(r) THEN "stale"
        ELSE IF about /\ r.outcome = "failed" THEN "failed"
        ELSE IF about /\ d.value # NoValue THEN IF r.value = d.value THEN "applied" ELSE "drift"
        ELSE "pending"
      ended == settingsWrite[Len(desired)].status
  IN IF desired = <<>> THEN "unconfigured"
     ELSE IF d.sent /\ shown # "applied" /\ ended \in {"rejected", "failed", "expired", "superseded"}
     THEN ended ELSE shown

(***************************************************************************)
(* Properties                                                              *)
(***************************************************************************)
ConfigTypeOK ==
  /\ Len(desired) <= MaxDesired /\ Len(reports) <= MaxReports
  /\ \A v \in Versions : settingsWrite[v].status \in
       {"none", "created", "delivered", "accepted", "executed", "failed", "rejected",
        "expired", "superseded"}
  /\ \A v \in Versions : v > Len(desired) => settingsWrite[v] = NoWrite
  /\ writable \in BOOLEAN /\ instant \in 0 .. MaxInstant
  /\ serving.op \in {"none", "list", "ack", "result"}
  /\ ReconciliationStatus \in {"unconfigured", "pending", "stale", "applied", "drift",
       "rejected", "failed", "expired", "superseded"}

(* The device has never accepted settings that a newer revision replaced,  *)
(* although an ACK does not take the lock under which revisions are saved  *)
(* (acknowledge_command, save_desired).                                    *)
AcceptedIsNewest ==
  \A v \in Versions : settingsWrite[v].status = "accepted" => v = Len(desired)

(* Settings count as executed only on a snapshot of the device that        *)
(* confirms them, and while they are still the ones wanted                 *)
(* (validate_execution_readback).                                          *)
ExecutedIsConfirmed ==
  [][\A v \in Versions :
       settingsWrite'[v].status = "executed" /\ settingsWrite[v].status # "executed" =>
         \E i \in 1 .. Len(reports) : Confirms(reports[i], v)]_configVars
=============================================================================
