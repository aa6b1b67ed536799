--------------------------- MODULE Services_proofs ---------------------------
(***************************************************************************)
(* Type correctness of the components that MC_Services checks together.    *)
(*                                                                         *)
(* Most types are inductive only beside the component's invariant: what a  *)
(* caller has read, a form shows or a message names must have its type     *)
(* too, and some bounds rest on what a lock or a guard keeps true.  Each   *)
(* section gives that strengthening and proves it under the component's    *)
(* own specification; the last one carries the types over to the services, *)
(* where one component moves while the others stand still.                 *)
(***************************************************************************)
EXTENDS MC_Services, Devices_proofs, Members_proofs, Stations_proofs

(***************************************************************************)
(* The identity of a device                                                *)
(***************************************************************************)
SecretType == [secret : 1 .. MaxSecret, station : Sites \cup {NoSite}]
CallType ==
  [op : {"none", "request", "enroll", "allocate", "revoke"}, unit : Units, seen : RecordType]

LEMMA IdentityDefaults ==
  /\ NoRecord \in RecordType /\ NoCall \in CallType
  /\ 0 \in 0 .. MaxSecret
PROOF
<1>1. 0 \in 0 .. MaxSecret
  BY IdentityAssumption
<1>2. NoRecord \in RecordType
  BY <1>1 DEF NoRecord, RecordType, NoSecret
<1>3. (CHOOSE u \in Units : TRUE) \in Units
  BY IdentityAssumption
<1>4. NoCall \in CallType
  BY <1>2, <1>3 DEF NoCall, CallType
<1>5. QED
  BY <1>1, <1>2, <1>4

(* A row that a handler makes of a row is a row, whatever it read before.  *)
LEMMA RowsMade ==
  ASSUME NEW row \in RecordType, NEW seen \in RecordType, NEW site \in Sites \cup {NoSite},
         NEW brings \in BOOLEAN, issued \in 0 .. MaxSecret
  PROVE  /\ [row EXCEPT !.pending = PendingAfter(seen, row)] \in RecordType
         /\ Reenrolled(seen, row, brings) \in RecordType
         /\ [NoRecord EXCEPT !.status = "pending_claim", !.code = brings] \in RecordType
         /\ [row EXCEPT !.status = "revoked"] \in RecordType
         /\ [row EXCEPT !.lapsed = TRUE] \in RecordType
         /\ Reset(row) \in RecordType
         /\ AnswerOf(seen) \in 0 .. MaxSecret
         /\ MayIssue => /\ Assigned(row, site) \in RecordType
                        /\ Activated(row, site) \in RecordType
                        /\ Moved(row, site) \in RecordType
PROOF
<1>1. MayIssue => NextSecret \in 0 .. MaxSecret
  BY IdentityAssumption DEF MayIssue, NextSecret
<1>2. /\ row.pending \in 0 .. MaxSecret /\ seen.pending \in 0 .. MaxSecret
      /\ row.code \in BOOLEAN /\ row.lapsed \in BOOLEAN
  BY DEF RecordType
<1>3. PendingAfter(seen, row) \in 0 .. MaxSecret /\ AnswerOf(seen) \in 0 .. MaxSecret
  BY <1>2, IdentityDefaults DEF PendingAfter, AnswerOf, NoSecret
<1>4. Reenrolled(seen, row, brings) \in RecordType
  BY <1>2 DEF Reenrolled, RecordType
<1>5. Reset(row) \in RecordType
  BY IdentityDefaults DEF Reset, RecordType, NoSecret
<1>6. MayIssue => /\ Assigned(row, site) \in RecordType
                  /\ Activated(row, site) \in RecordType
                  /\ Moved(row, site) \in RecordType
  <2> HIDE DEF NextSecret
  <2>1. QED
    BY <1>1 DEF Assigned, Activated, Moved, RecordType
<1>7. /\ [row EXCEPT !.pending = PendingAfter(seen, row)] \in RecordType
      /\ [row EXCEPT !.status = "revoked"] \in RecordType
      /\ [row EXCEPT !.lapsed = TRUE] \in RecordType
  BY <1>3 DEF RecordType
<1>8. [NoRecord EXCEPT !.status = "pending_claim", !.code = brings] \in RecordType
  BY IdentityDefaults DEF RecordType
<1>9. QED
  BY <1>3, <1>4, <1>5, <1>6, <1>7, <1>8

LEMMA IdentityStarts == IdentityInit => IdentityTypeOK
PROOF BY IdentityDefaults DEF IdentityInit, IdentityTypeOK, CallType, NoSecret

(* What the handlers write, with any number of them in progress.           *)
LEMMA IdentityWrites ==
  ASSUME IdentityTypeOK, NEW c \in IdentityCalls, NEW lost \in BOOLEAN,
         NEW brings \in BOOLEAN, NEW site \in Sites \cup {NoSite},
         \/ FinishRequest(c) \/ FinishRevoke(c) \/ FinishRotation(c, lost)
         \/ FinishEnroll(c, brings, lost) \/ FinishAllocate(c, site)
  PROVE  IdentityTypeOK'
PROOF
<1> DEFINE u == calls[c].unit
           seen == calls[c].seen
<1>1. u \in Units /\ seen \in RecordType
  BY DEF IdentityTypeOK
<1>2. device[u] \in RecordType /\ issued \in 0 .. MaxSecret
  BY <1>1 DEF IdentityTypeOK
<1>3. PICK row : row = device[u]
  OBVIOUS
<1>4. MayIssue => NextSecret \in 1 .. MaxSecret /\ NextSecret \in 0 .. MaxSecret
  BY <1>2, IdentityAssumption DEF MayIssue, NextSecret
<1>5. calls' \in [IdentityCalls -> CallType]
  BY IdentityDefaults DEF IdentityTypeOK, CallType, EndCall, FinishRequest, FinishRevoke,
     FinishRotation, FinishEnroll, FinishAllocate
<1> HIDE DEF u, seen, NextSecret
<1>6. device' \in [Units -> RecordType]
  <2>1. /\ [row EXCEPT !.pending = PendingAfter(seen, row)] \in RecordType
        /\ Reenrolled(seen, row, brings) \in RecordType
        /\ [NoRecord EXCEPT !.status = "pending_claim", !.code = brings] \in RecordType
        /\ [row EXCEPT !.status = "revoked"] \in RecordType
        /\ MayIssue => Assigned(row, site) \in RecordType
    BY <1>1, <1>2, <1>3, RowsMade
  <2>2. \E new \in RecordType : device' = [device EXCEPT ![u] = new]
    <3>1. CASE FinishRequest(c) \/ FinishRotation(c, lost)
      BY <3>1, <2>1, <1>3 DEF FinishRequest, FinishRotation, u, seen
    <3>2. CASE FinishRevoke(c)
      BY <3>2, <2>1, <1>3 DEF FinishRevoke, u, seen
    <3>3. CASE FinishEnroll(c, brings, lost)
      BY <3>3, <2>1, <1>2, <1>3 DEF FinishEnroll, u, seen
    <3>4. CASE FinishAllocate(c, site)
      BY <3>4, <2>1, <1>3 DEF FinishAllocate, u, seen
    <3>5. QED
      BY <3>1, <3>2, <3>3, <3>4
  <2>3. QED
    BY <2>2 DEF IdentityTypeOK
<1>7. issued' \in 0 .. MaxSecret
  BY <1>2, <1>4 DEF FinishRequest, FinishRevoke, FinishRotation, FinishEnroll, FinishAllocate
<1>8. held' \in [Units -> 0 .. MaxSecret]
  <2>1. AnswerOf(seen) \in 0 .. MaxSecret
    BY <1>1, <1>2, RowsMade
  <2>2. held' = held \/ (\E s \in 0 .. MaxSecret : held' = [held EXCEPT ![u] = s])
    BY <1>4, <2>1 DEF FinishRequest, FinishRevoke, FinishRotation, FinishEnroll,
       FinishAllocate, u, seen
  <2>3. QED
    BY <2>2 DEF IdentityTypeOK
<1>9. credentials' \in [Units -> SUBSET SecretType]
  <2>1. \A s \in Sites \cup {NoSite} : MayIssue => Credential(s) \in SecretType
    BY <1>4 DEF Credential, SecretType
  <2>2. seen.station \in Sites \cup {NoSite} /\ credentials[u] \subseteq SecretType
    BY <1>1 DEF RecordType, IdentityTypeOK, SecretType
  <2>3. \/ credentials' = credentials
        \/ \E kept \in SUBSET SecretType : credentials' = [credentials EXCEPT ![u] = kept]
    <3>1. CASE FinishRequest(c) \/ FinishEnroll(c, brings, lost)
      BY <3>1 DEF FinishRequest, FinishEnroll
    <3>2. CASE FinishRevoke(c)
      BY <3>2 DEF FinishRevoke, Revoked, u
    <3>3. CASE FinishRotation(c, lost)
      BY <3>3, <2>1, <2>2 DEF FinishRotation, Rotated, u, seen
    <3>4. CASE FinishAllocate(c, site)
      BY <3>4, <2>1, <2>2 DEF FinishAllocate, u
    <3>5. QED
      BY <3>1, <3>2, <3>3, <3>4
  <2>4. QED
    BY <2>3 DEF IdentityTypeOK, SecretType
<1>10. QED
  BY <1>5, <1>6, <1>7, <1>8, <1>9 DEF IdentityTypeOK, CallType, SecretType

LEMMA IdentityStepTyped ==
  ASSUME IdentityTypeOK, NEW c, NEW u \in Units, NEW site \in Sites \cup {NoSite},
         \/ Activate(c, u, site) \/ TransferDevice(c, u, site)
         \/ FactoryReset(c, u) \/ EnrollmentLapses(u)
  PROVE  IdentityTypeOK'
PROOF
<1>1. device[u] \in RecordType /\ issued \in 0 .. MaxSecret
  BY DEF IdentityTypeOK
<1>2. PICK row : row = device[u]
  OBVIOUS
<1>3. MayIssue => NextSecret \in 1 .. MaxSecret /\ NextSecret \in 0 .. MaxSecret
  BY <1>1, IdentityAssumption DEF MayIssue, NextSecret
<1> HIDE DEF NextSecret
<1>4. device' \in [Units -> RecordType]
  <2>1. /\ [row EXCEPT !.lapsed = TRUE] \in RecordType /\ Reset(row) \in RecordType
        /\ MayIssue => Activated(row, site) \in RecordType /\ Moved(row, site) \in RecordType
    BY <1>1, <1>2, RowsMade
  <2>2. \E new \in RecordType : device' = [device EXCEPT ![u] = new]
    BY <2>1, <1>2 DEF Activate, TransferDevice, FactoryReset, EnrollmentLapses
  <2>3. QED
    BY <2>2 DEF IdentityTypeOK
<1>5. issued' \in 0 .. MaxSecret
  BY <1>1, <1>3 DEF Activate, TransferDevice, FactoryReset, EnrollmentLapses
<1>6. credentials' \in [Units -> SUBSET SecretType]
  <2>1. MayIssue => Credential(site) \in SecretType
    BY <1>3 DEF Credential, SecretType
  <2>2. credentials[u] \subseteq SecretType
    BY DEF IdentityTypeOK, SecretType
  <2>3. \/ credentials' = credentials
        \/ \E kept \in SUBSET SecretType : credentials' = [credentials EXCEPT ![u] = kept]
    BY <2>1, <2>2 DEF Activate, TransferDevice, FactoryReset, EnrollmentLapses
  <2>4. QED
    BY <2>3 DEF IdentityTypeOK, SecretType
<1>7. QED
  BY <1>4, <1>5, <1>6 DEF IdentityTypeOK, SecretType, Activate, TransferDevice, FactoryReset,
     EnrollmentLapses

LEMMA IdentityTyped == IdentitySpec => []IdentityTypeOK
PROOF
<1>1. IdentityTypeOK /\ [IdentityNext]_identityVars => IdentityTypeOK'
  <2> SUFFICES ASSUME IdentityTypeOK, [IdentityNext]_identityVars PROVE IdentityTypeOK'
    OBVIOUS
  <2>1. ASSUME NEW c \in IdentityCalls, NEW u \in Units,
               Authenticate(c, u) \/ Enroll(c, u) \/ Allocate(c, u) \/ Revoke(c, u)
        PROVE  IdentityTypeOK'
    <3>1. \E op \in {"request", "enroll", "allocate", "revoke"} : ReadDevice(c, op, u)
      BY <2>1 DEF Authenticate, Enroll, Allocate, Revoke
    <3>2. QED
      BY <3>1 DEF ReadDevice, IdentityTypeOK
  <2>2. ASSUME NEW c \in IdentityCalls, CallFails(c) PROVE IdentityTypeOK'
    BY <2>2, IdentityDefaults DEF CallFails, EndCall, IdentityTypeOK, CallType
  <2>3. ASSUME NEW c \in IdentityCalls, NEW lost \in BOOLEAN, NEW brings \in BOOLEAN,
               NEW site \in Sites \cup {NoSite},
               \/ FinishRequest(c) \/ FinishRevoke(c) \/ FinishRotation(c, lost)
               \/ FinishEnroll(c, brings, lost) \/ FinishAllocate(c, site)
        PROVE  IdentityTypeOK'
    BY <2>3, IdentityWrites
  <2>4. ASSUME NEW c \in IdentityCalls, NEW lost \in BOOLEAN,
               FinishRequest(c) \/ FinishRevoke(c) \/ FinishRotation(c, lost)
        PROVE  IdentityTypeOK'
    <3>1. NoSite \in Sites \cup {NoSite} /\ TRUE \in BOOLEAN
      OBVIOUS
    <3>2. QED
      BY <2>3, <2>4, <3>1
  <2>5. ASSUME NEW c, NEW u \in Units, NEW site \in Sites \cup {NoSite},
               \/ Activate(c, u, site) \/ TransferDevice(c, u, site)
               \/ FactoryReset(c, u) \/ EnrollmentLapses(u)
        PROVE  IdentityTypeOK'
    BY <2>5, IdentityStepTyped
  <2>6. CASE \E c \in IdentityCalls, brings \in BOOLEAN, lost \in BOOLEAN :
               FinishEnroll(c, brings, lost)
    BY <2>6, <2>3
  <2>7. CASE \E c \in IdentityCalls, site \in Sites : FinishAllocate(c, site)
    BY <2>7, <2>3
  <2>8. CASE UNCHANGED identityVars
    BY <2>8 DEF identityVars, IdentityTypeOK
  <2>9. QED
    BY <2>1, <2>2, <2>4, <2>5, <2>6, <2>7, <2>8 DEF IdentityNext
<1>2. QED
  BY IdentityStarts, <1>1, PTL DEF IdentitySpec

(***************************************************************************)
(* Settings of an inverter                                                 *)
(***************************************************************************)
Revisions == 1 .. Len(desired)

(* Rows exist for the revisions that were saved only, and what a save or a *)
(* request has read is about those.                                        *)
RevisionsOnly ==
  /\ Len(desired) <= MaxDesired /\ Len(reports) <= MaxReports
  /\ writable \in BOOLEAN /\ instant \in 0 .. MaxInstant
  /\ \A v \in Versions : v > Len(desired) => settingsWrite[v] = NoWrite
  /\ saving.on => Len(desired) < MaxDesired
  /\ saving.open \subseteq Revisions
  /\ serving.write \subseteq Revisions
  /\ serving.refused.superseded \subseteq Revisions
  /\ serving.refused.expired \subseteq Revisions

ConfigTyped == ConfigInv /\ RevisionsOnly

LEMMA RevisionsStart == ConfigInit => RevisionsOnly
PROOF BY ConfigAssumption DEF ConfigInit, RevisionsOnly, NotSaving, NotServing, Revisions

(* The rows with a status beyond "none" are those of revisions.            *)
LEMMA RowsAreRevisions ==
  ASSUME ConfigTyped, NEW statuses, "none" \notin statuses
  PROVE  WithStatus(statuses) \subseteq Revisions
PROOF
<1>1. ASSUME NEW v \in WithStatus(statuses) PROVE v \in Revisions
  <2>1. v \in Versions /\ settingsWrite[v].status \in statuses
    BY DEF WithStatus
  <2>2. NoWrite.status = "none"
    BY DEF NoWrite
  <2>3. ~(v > Len(desired))
    BY <2>1, <2>2 DEF ConfigTyped, RevisionsOnly
  <2>4. QED
    BY <2>1, <2>3, ConfigAssumption DEF Versions, Revisions, ConfigTyped, ConfigInv, ConfigShape
<1>2. QED
  BY <1>1

LEMMA RevisionsStep == ConfigTyped /\ [ConfigNext]_configVars => RevisionsOnly'
PROOF
<1> SUFFICES ASSUME ConfigTyped, [ConfigNext]_configVars PROVE RevisionsOnly'
  OBVIOUS
<1>1. /\ desired \in Seq(DesiredType) /\ reports \in Seq(ReportType)
      /\ settingsWrite \in [Versions -> WriteType]
      /\ Len(desired) \in Nat /\ Len(reports) \in Nat
      /\ Len(desired) <= MaxDesired
  BY DEF ConfigTyped, ConfigInv, ConfigShape, RevisionsOnly
<1>2. RevisionsOnly
  BY DEF ConfigTyped
<1>3. NotServing.write = {} /\ NotServing.refused.superseded = {} /\ NotServing.refused.expired = {}
      /\ NotSaving.open = {} /\ NotSaving.on = FALSE
  BY DEF NotServing, NotSaving
<1>4. CASE BeginSave
  <2>1. saving'.open \subseteq Revisions
    <3>1. saving'.open = WithStatus({"created", "delivered", "accepted"})
      BY <1>4 DEF BeginSave
    <3>2. QED
      BY <3>1, RowsAreRevisions
  <2>2. QED
    BY <2>1, <1>2, <1>4 DEF BeginSave, RevisionsOnly, Revisions
<1>5. CASE AbandonSave
  BY <1>2, <1>3, <1>5 DEF AbandonSave, RevisionsOnly, Revisions
<1>6. ASSUME NEW p \in Profiles, NEW x \in Values \cup {NoValue}, CommitSave(p, x)
      PROVE  RevisionsOnly'
  <2> DEFINE marked == MarkedAs(saving.open, "superseded")
             n == Len(desired) + 1
  <2>1. Len(desired') = n /\ n \in Versions
    <3>1. PICK row : desired' = Append(desired, row)
      BY <1>6 DEF CommitSave
    <3>2. Len(desired') = n
      BY <3>1, <1>1
    <3>3. QED
      BY <3>2, <1>1, <1>2, <1>6, ConfigAssumption DEF CommitSave, Versions, RevisionsOnly
  <2>2. \A v \in Versions : v \notin Revisions => marked[v] = settingsWrite[v]
    BY <1>2 DEF MarkedAs, RevisionsOnly
  <2>3. marked \in [Versions -> WriteType]
    BY MarkedFacts DEF ConfigTyped, ConfigInv, WriteStatuses
  <2>4. \A v \in Versions : v # n => settingsWrite'[v] = marked[v]
    <3>1. \E row : settingsWrite' = [marked EXCEPT ![n] = row]
      BY <1>6 DEF CommitSave
    <3> HIDE DEF marked, n
    <3>2. QED
      BY <3>1, <2>3
  <2>5. \A v \in Versions : v > n => settingsWrite'[v] = NoWrite
    <3>1. \A v \in Versions : v > n => v # n /\ v \notin Revisions /\ v > Len(desired)
      BY <1>1 DEF Versions, Revisions
    <3> HIDE DEF marked, n
    <3>2. QED
      BY <3>1, <2>2, <2>4, <1>2 DEF RevisionsOnly
  <2>6. Revisions \subseteq Revisions'
    BY <1>1, <2>1 DEF Revisions
  <2>7. QED
    BY <1>2, <1>3, <1>6, <2>1, <2>5, <2>6 DEF CommitSave, RevisionsOnly, Versions
<1>7. ASSUME NEW x \in Values \cup {NoValue}, NEW o, NEW m, NEW d \in BOOLEAN,
             ReportSnapshot(x, o, m, d)
      PROVE  RevisionsOnly'
  <2>1. \E row : reports' = Append(reports, row)
    BY <1>7 DEF ReportSnapshot
  <2>2. Len(reports') = Len(reports) + 1
    BY <2>1, <1>1
  <2>3. Len(reports') <= MaxReports
    BY <2>2, <1>1, <1>7, ConfigAssumption DEF ReportSnapshot
  <2>4. QED
    BY <1>2, <1>7, <2>3 DEF ReportSnapshot, RevisionsOnly, Revisions
<1>8. CASE ReadPending
  <2>1. /\ WithStatus({"created", "delivered"}) \subseteq Revisions
        /\ WithStatus({"created", "delivered", "accepted"}) \subseteq Revisions
    BY RowsAreRevisions
  <2>2. /\ serving'.write \subseteq Revisions /\ serving'.refused.superseded \subseteq Revisions
        /\ serving'.refused.expired \subseteq Revisions
    BY <1>8, <2>1 DEF ReadPending
  <2>3. QED
    BY <1>2, <1>8, <2>2 DEF ReadPending, RevisionsOnly, Revisions
<1>9. CASE DeliverPending \/ CommitWrite
  <2>1. \A v \in Versions : v \notin Revisions => settingsWrite'[v] = settingsWrite[v]
    BY <1>2, <1>9 DEF DeliverPending, CommitWrite, RevisionsOnly
  <2>2. \A v \in Versions : v > Len(desired) => v \notin Revisions
    BY <1>1 DEF Versions, Revisions
  <2>3. \A v \in Versions : v > Len(desired) => settingsWrite'[v] = NoWrite
    BY <2>1, <2>2, <1>2 DEF RevisionsOnly
  <2>4. QED
    BY <1>2, <1>3, <1>9, <2>3 DEF DeliverPending, CommitWrite, RevisionsOnly, Revisions
<1>10. ASSUME NEW v \in Revisions, Acknowledge(v) \/ ReportExecuted(v) PROVE RevisionsOnly'
  <2>1. \E op : serving' = [NotServing EXCEPT !.op = op, !.write = {v}]
    BY <1>10 DEF Acknowledge, ReportExecuted, LockWrite
  <2>2. /\ serving'.write = {v} /\ serving'.refused = NotServing.refused
    BY <2>1 DEF NotServing
  <2>3. QED
    BY <1>2, <1>3, <1>10, <2>2 DEF Acknowledge, ReportExecuted, LockWrite, RevisionsOnly, Revisions
<1>11. ASSUME NEW w \in Revisions, Decline(w) PROVE RevisionsOnly'
  <2>1. PICK status \in WriteStatuses : settingsWrite' = MarkedAs({w}, status)
    BY <1>11 DEF Decline, WriteStatuses
  <2>2. \A v \in Versions : v # w => settingsWrite'[v] = settingsWrite[v]
    BY <2>1 DEF MarkedAs
  <2>3. \A v \in Versions : v > Len(desired) => v # w
    BY <1>1 DEF Versions, Revisions
  <2>4. QED
    BY <1>2, <1>11, <2>2, <2>3 DEF Decline, RevisionsOnly, Revisions
<1>12. CASE WritabilityChanges
  BY <1>2, <1>12 DEF WritabilityChanges, RevisionsOnly, Revisions
<1>13. CASE InstantPasses
  BY <1>2, <1>13, ConfigAssumption DEF InstantPasses, RevisionsOnly, Revisions
<1>14. CASE UNCHANGED configVars
  BY <1>2, <1>14 DEF configVars, RevisionsOnly, Revisions
<1>15. QED
  BY <1>4, <1>5, <1>6, <1>7, <1>8, <1>9, <1>10, <1>11, <1>12, <1>13, <1>14 DEF ConfigNext,
     Revisions

LEMMA ConfigIsTyped == ConfigTyped => ConfigTypeOK
PROOF
<1> SUFFICES ASSUME ConfigTyped PROVE ConfigTypeOK
  OBVIOUS
<1>1. \A v \in Versions : settingsWrite[v].status \in WriteStatuses
  BY DEF ConfigTyped, ConfigInv, ConfigShape, WriteType
<1>2. ReconciliationStatus \in {"unconfigured", "pending", "stale", "applied", "drift",
       "rejected", "failed", "expired", "superseded"}
  BY DEF ReconciliationStatus
<1>3. QED
  BY <1>1, <1>2 DEF ConfigTyped, ConfigInv, ServeHolds, RevisionsOnly, ConfigTypeOK, WriteStatuses

LEMMA ConfigIsTypedAlways == ConfigSpec => []ConfigTypeOK
PROOF
<1>1. ConfigInit => ConfigTyped
  BY ConfigInitInv, RevisionsStart DEF ConfigTyped
<1>2. ConfigTyped /\ [ConfigNext]_configVars => ConfigTyped'
  BY ConfigStep, RevisionsStep DEF ConfigTyped
<1>3. QED
  BY <1>1, <1>2, ConfigIsTyped, PTL DEF ConfigSpec

(***************************************************************************)
(* Incidents of a health rule                                              *)
(***************************************************************************)
LEMMA RulesGiveVerdicts == \A rule \in Rules, past \in BOOLEAN : VerdictsOf(rule, past) \subseteq Verdicts
PROOF
<1>1. \A bad : Known(bad) \in Verdicts
  BY DEF Known, Verdicts
<1>2. \A known, bad : KnownIf(known, bad) \in Verdicts
  BY <1>1 DEF KnownIf, Verdicts
<1>3. \A past, active, age : DeviceOffline(past, active, age) \in Verdicts
  BY <1>2 DEF DeviceOffline
<1>4. /\ \A row : TelemetryStale(row) \in Verdicts
      /\ \A row, r : DataQuality(row, r) \in Verdicts
  BY <1>1 DEF TelemetryStale, DataQuality
<1>5. /\ \A row, v : GridVoltageHigh(row, v) \in Verdicts
      /\ \A row, t : BatteryTemperature(row, t) \in Verdicts
      /\ \A row, h, k : BatterySoh(row, h, k) \in Verdicts
      /\ \A row, x, l, h : BatterySoc(row, x, l, h) \in Verdicts
      /\ \A row, p, m, e : GridLimit(row, p, m, e) \in Verdicts
  <2>1. \A row, v : GridVoltageHigh(row, v) \in Verdicts
    BY DEF GridVoltageHigh, Numeric, Verdicts
  <2>2. \A row, t : BatteryTemperature(row, t) \in Verdicts
    BY DEF BatteryTemperature, Numeric, Verdicts
  <2>3. \A row, h, k : BatterySoh(row, h, k) \in Verdicts
    BY DEF BatterySoh, Numeric, Verdicts
  <2>4. \A row, x, l, h : BatterySoc(row, x, l, h) \in Verdicts
    BY DEF BatterySoc, Numeric, Verdicts
  <2>5. \A row, p, m, e : GridLimit(row, p, m, e) \in Verdicts
    BY DEF GridLimit, Numeric, Verdicts
  <2>6. QED
    BY <2>1, <2>2, <2>3, <2>4, <2>5
<1>6. \A row, s : InverterFault(row, s) \in Verdicts
  BY <1>2 DEF InverterFault
<1>7. /\ \A a, c, e, s : PvUnderForecast(a, c, e, s) \in Verdicts
      /\ \A h, x, n : NightLoad(h, x, n) \in Verdicts
  <2>1. \A a, c, e, s : PvUnderForecast(a, c, e, s) \in Verdicts
    BY DEF PvUnderForecast, Numeric, Verdicts
  <2>2. \A h, x, n : NightLoad(h, x, n) \in Verdicts
    BY DEF NightLoad, Numeric, Verdicts
  <2>3. QED
    BY <2>1, <2>2
<1>8. (\A age : WeatherStale(age) \in Verdicts) /\ (\A p : MarketStale(p) \in Verdicts)
  BY <1>1 DEF WeatherStale, MarketStale
<1>9. /\ \A s, late : CommandFailed(s, late) \in Verdicts
      /\ \A past, run : OptimizationFailed(past, run) \in Verdicts
      /\ \A s : OtaFailed(s) \in Verdicts
  BY <1>2 DEF CommandFailed, OptimizationFailed, OtaFailed
<1>10. /\ \A past, c : EvOffline(past, c) \in Verdicts
       /\ \A past, c : EvFault(past, c) \in Verdicts
       /\ \A past, r, p : EvTargetImpossible(past, r, p) \in Verdicts
       /\ \A past, c, n : EvUnplugged(past, c, n) \in Verdicts
       /\ \A past, c, r : EvInterrupted(past, c, r) \in Verdicts
       /\ \A past, x, m : EvCostLimit(past, x, m) \in Verdicts
  BY <1>2 DEF EvOffline, EvFault, EvTargetImpossible, EvUnplugged, EvInterrupted, EvCostLimit
<1>11. SUFFICES ASSUME NEW rule \in Rules, NEW past \in BOOLEAN, NEW v \in VerdictsOf(rule, past)
                PROVE  v \in Verdicts
  OBVIOUS
<1>12. QED
  BY <1>3, <1>4, <1>5, <1>6, <1>7, <1>8, <1>9, <1>10 DEF VerdictsOf, Rules

(* An incident that is open has at most one healthy window behind it, so a *)
(* second one closes it and the count never exceeds two.                   *)
CountsHold ==
  /\ HasOpenAlert => health.healthy <= 1
  /\ health.healthy \in 0 .. 2 /\ health.evaluated <= window
  /\ health.cooldown <= MaxWindow + ShortCooldown + LongCooldown

IncidentsDated ==
  \A i \in 1 .. Len(alerts) : alerts[i].created \in Windows /\ alerts[i].ended \in 0 .. MaxWindow

HealthTyped ==
  /\ AlertInv
  /\ possible \in [BOOLEAN -> SUBSET Verdicts]
  /\ window \in Windows
  /\ verdicts \in [Windows -> Verdicts \cup {"none"}]
  /\ IncidentsDated /\ CountsHold

LEMMA HealthStarts == HealthInit => HealthTyped
PROOF
<1> SUFFICES ASSUME HealthInit PROVE HealthTyped
  OBVIOUS
<1>1. AlertInv
  BY AlertInitInv
<1>2. possible \in [BOOLEAN -> SUBSET Verdicts]
  BY RulesGiveVerdicts DEF HealthInit
<1>3. window \in Windows /\ verdicts \in [Windows -> Verdicts \cup {"none"}]
  BY HealthAssumption DEF HealthInit, Windows
<1>4. alerts = <<>> /\ Len(alerts) = 0 /\ health = [evaluated |-> 0, healthy |-> 0, cooldown |-> 0]
  BY DEF HealthInit
<1>5. IncidentsDated
  BY <1>4 DEF IncidentsDated
<1>6. CountsHold
  BY <1>4, HealthAssumption DEF CountsHold, HasOpenAlert, HealthInit
<1>7. QED
  BY <1>1, <1>2, <1>3, <1>5, <1>6 DEF HealthTyped

(* A new status dates the end of the newest incident at most.              *)
LEMMA TransitionDated ==
  ASSUME HealthTyped, HasOpenAlert, NEW status, Transition(status)
  PROVE  IncidentsDated' /\ (HasOpenAlert' => status \in Open)
PROOF
<1> DEFINE n == Len(alerts)
<1>1. alerts \in Seq(AlertType) /\ n \in Nat /\ n \in 1 .. n
  BY DEF HealthTyped, AlertInv, AlertShape, HasOpenAlert
<1>2. PICK last : last = alerts[n]
  OBVIOUS
<1>3. last \in AlertType /\ last.created \in Windows /\ last.ended \in 0 .. MaxWindow
      /\ window \in 0 .. MaxWindow
  BY <1>1, <1>2, HealthAssumption DEF HealthTyped, IncidentsDated, Windows
<1>4. PICK r : r = Transitioned(last, status)
  OBVIOUS
<1>5. r.status = status /\ r.created \in Windows /\ r.ended \in 0 .. MaxWindow
  BY <1>3, <1>4 DEF Transitioned, AlertType
<1>6. alerts' = [alerts EXCEPT ![n] = r]
  BY <1>2, <1>4 DEF Transition
<1>7. Len(alerts') = n /\ alerts'[n] = r /\ \A i \in 1 .. n : i # n => alerts'[i] = alerts[i]
  BY <1>1, <1>6
<1> HIDE DEF n
<1>8. \A i \in 1 .. n : alerts[i].created \in Windows /\ alerts[i].ended \in 0 .. MaxWindow
  BY DEF HealthTyped, IncidentsDated, n
<1>9. IncidentsDated'
  BY <1>5, <1>7, <1>8 DEF IncidentsDated, Windows
<1>10. HasOpenAlert' => status \in Open
  BY <1>5, <1>7 DEF HasOpenAlert, Open
<1>11. QED
  BY <1>9, <1>10

LEMMA HealthEvaluates ==
  ASSUME HealthTyped, UNCHANGED window, Bad \/ Unknown \/ Healthy \/ Recovering
  PROVE  IncidentsDated' /\ CountsHold'
PROOF
<1> DEFINE Limit == MaxWindow + ShortCooldown + LongCooldown
<1>1. /\ health \in [evaluated : Nat, healthy : Nat, cooldown : Nat]
      /\ window \in Nat /\ window \in Windows /\ window <= MaxWindow
      /\ health.healthy \in 0 .. 2 /\ health.cooldown <= Limit /\ health.cooldown \in Nat
      /\ HasOpenAlert => health.healthy <= 1
  BY HealthAssumption DEF HealthTyped, AlertInv, AlertShape, CountsHold, Windows
<1>2. IncidentsDated /\ alerts \in Seq(AlertType)
  BY DEF HealthTyped, AlertInv, AlertShape
<1>3. window + ShortCooldown <= Limit
  BY <1>1, HealthAssumption
<1> HIDE DEF Limit
<1>4. UNCHANGED alerts => IncidentsDated' /\ HasOpenAlert' = HasOpenAlert
  BY <1>2 DEF IncidentsDated, Windows, HasOpenAlert, Open
<1>5. ASSUME HasOpenAlert, NEW status, Transition(status)
      PROVE  IncidentsDated' /\ (HasOpenAlert' => status \in Open)
  BY <1>5, TransitionDated
<1>6. HasOpenAlert => HealthyWindows \in 1 .. 2
  BY <1>1 DEF HealthyWindows
<1>7. CASE Bad
  <2>1. health'.healthy = 0 /\ health'.evaluated = window /\ health'.cooldown = health.cooldown
    BY <1>1, <1>7 DEF Bad
  <2>2. CountsHold'
    BY <1>1, <2>1 DEF CountsHold, Limit
  <2>3. CASE HasOpenAlert
    BY <1>4, <1>5, <1>7, <2>2, <2>3 DEF Bad
  <2>4. CASE ~HasOpenAlert /\ ~UNCHANGED alerts
    <3>1. PICK r : r = [status |-> "active", created |-> window, ended |-> 0]
      OBVIOUS
    <3>2. alerts' = Append(alerts, r)
      BY <1>7, <2>4, <3>1 DEF Bad
    <3>3. r.created \in Windows /\ r.ended \in 0 .. MaxWindow
      BY <3>1, <1>1, HealthAssumption
    <3>4. PICK n : n = Len(alerts)
      OBVIOUS
    <3>5. n \in Nat /\ Len(alerts') = n + 1 /\ alerts'[n + 1] = r
          /\ \A i \in 1 .. n : alerts'[i] = alerts[i]
      BY <1>2, <3>2, <3>4
    <3>6. \A i \in 1 .. n + 1 : i \in 1 .. n \/ i = n + 1
      BY <3>5
    <3>7. IncidentsDated'
      BY <1>2, <3>3, <3>4, <3>5, <3>6 DEF IncidentsDated, Windows
    <3>8. QED
      BY <2>2, <3>7
  <2>5. QED
    BY <1>4, <2>2, <2>3, <2>4
<1>8. CASE Recovering
  <2>1. health'.healthy = (IF HasOpenAlert THEN 0 ELSE health.healthy)
        /\ health'.evaluated = window /\ health'.cooldown = health.cooldown /\ UNCHANGED alerts
    BY <1>1, <1>8 DEF Recovering
  <2>2. QED
    BY <1>1, <1>4, <2>1 DEF CountsHold, Limit
<1>9. CASE ~HasOpenAlert /\ (Unknown \/ Healthy)
  <2>1. health' = [health EXCEPT !.evaluated = window] /\ UNCHANGED alerts
    BY <1>9 DEF Unknown, Healthy
  <2>2. health'.healthy = health.healthy /\ health'.evaluated = window
        /\ health'.cooldown = health.cooldown
    BY <1>1, <2>1
  <2>3. QED
    BY <1>1, <1>4, <1>9, <2>1, <2>2 DEF CountsHold, Limit
<1>10. CASE HasOpenAlert /\ Unknown
  <2>1. health'.healthy = 0 /\ health'.evaluated = window /\ health'.cooldown = health.cooldown
    BY <1>1, <1>10 DEF Unknown
  <2>2. CountsHold'
    BY <1>1, <2>1 DEF CountsHold, Limit
  <2>3. QED
    BY <1>4, <1>5, <1>10, <2>2 DEF Unknown
<1>11. CASE HasOpenAlert /\ Healthy /\ HealthyWindows >= 2
  <2>1. health' = [evaluated |-> window, healthy |-> HealthyWindows,
                   cooldown |-> window + ShortCooldown] /\ Transition("resolved")
    BY <1>11 DEF Healthy
  <2>2. IncidentsDated' /\ ~HasOpenAlert'
    BY <1>5, <1>11, <2>1 DEF Open
  <2>3. CountsHold'
    BY <1>1, <1>3, <1>6, <1>11, <2>1, <2>2 DEF CountsHold, Limit
  <2>4. QED
    BY <2>2, <2>3
<1>12. CASE HasOpenAlert /\ Healthy /\ ~(HealthyWindows >= 2)
  <2>1. health' = [health EXCEPT !.evaluated = window, !.healthy = HealthyWindows]
        /\ Transition("resolving")
    BY <1>12 DEF Healthy
  <2>2. health'.healthy = HealthyWindows /\ health'.evaluated = window
        /\ health'.cooldown = health.cooldown
    BY <1>1, <2>1
  <2>3. HealthyWindows <= 1 /\ HealthyWindows \in 0 .. 2
    BY <1>6, <1>12
  <2>4. CountsHold'
    BY <1>1, <2>2, <2>3 DEF CountsHold, Limit
  <2>5. QED
    BY <1>5, <1>12, <2>1, <2>4
<1>13. QED
  BY <1>7, <1>8, <1>9, <1>10, <1>11, <1>12

LEMMA HealthStep == HealthTyped /\ [HealthNext]_healthVars => HealthTyped'
PROOF
<1> SUFFICES ASSUME HealthTyped, [HealthNext]_healthVars PROVE HealthTyped'
  OBVIOUS
<1>1. AlertInv'
  BY AlertStep DEF HealthTyped
<1>2. /\ possible \in [BOOLEAN -> SUBSET Verdicts] /\ window \in Windows
      /\ verdicts \in [Windows -> Verdicts \cup {"none"}] /\ IncidentsDated /\ CountsHold
      /\ window \in Nat /\ window <= MaxWindow
      /\ health \in [evaluated : Nat, healthy : Nat, cooldown : Nat]
  BY HealthAssumption DEF HealthTyped, AlertInv, AlertShape, Windows
<1>3. ASSUME NEW v \in Verdicts, Evaluate(v) PROVE HealthTyped'
  <2>1. UNCHANGED <<possible, window>> /\ (Bad \/ Unknown \/ Healthy \/ Recovering)
        /\ verdicts' = [verdicts EXCEPT ![window] = v]
    BY <1>3 DEF Evaluate, Verdicts
  <2>2. verdicts' \in [Windows -> Verdicts \cup {"none"}]
    BY <1>2, <2>1
  <2>3. IncidentsDated' /\ CountsHold'
    BY <2>1, HealthEvaluates
  <2>4. QED
    BY <1>1, <1>2, <2>1, <2>2, <2>3 DEF HealthTyped, Windows, Verdicts
<1>4. ASSUME NEW w \in Windows, NEW v \in Verdicts, EvaluateHistory(w, v) PROVE HealthTyped'
  <2>1. verdicts' = [verdicts EXCEPT ![w] = v] /\ UNCHANGED <<possible, window, alerts, health>>
    BY <1>4 DEF EvaluateHistory
  <2>2. verdicts' \in [Windows -> Verdicts \cup {"none"}]
    BY <1>2, <2>1
  <2>3. QED
    BY <1>1, <1>2, <2>1, <2>2 DEF HealthTyped, Windows, Verdicts, IncidentsDated, CountsHold,
       HasOpenAlert, Open
<1>5. ASSUME NEW a \in {"acknowledged", "resolved"} \cup Dismissed, Feedback(a) PROVE HealthTyped'
  <2>1. HasOpenAlert /\ Transition(a) /\ UNCHANGED <<possible, window, verdicts>>
        /\ health' = [health EXCEPT !.cooldown = CooldownAfter(a)]
    BY <1>5 DEF Feedback
  <2>2. IncidentsDated'
    BY <2>1, TransitionDated
  <2>3. health'.healthy = health.healthy /\ health'.evaluated = health.evaluated
        /\ health'.cooldown = CooldownAfter(a)
    BY <1>2, <2>1
  <2>4. CooldownAfter(a) <= MaxWindow + ShortCooldown + LongCooldown
    BY <1>2, HealthAssumption DEF CooldownAfter, CountsHold
  <2>5. CountsHold'
    BY <1>2, <2>1, <2>3, <2>4 DEF CountsHold
  <2>6. QED
    BY <1>1, <1>2, <2>1, <2>2, <2>5 DEF HealthTyped, Windows, Verdicts
<1>6. CASE WindowEnds
  <2>1. window' = window + 1 /\ window' \in Windows /\ UNCHANGED <<possible, verdicts, alerts, health>>
    BY <1>2, <1>6, HealthAssumption DEF WindowEnds, Windows
  <2>2. QED
    BY <1>1, <1>2, <2>1 DEF HealthTyped, Windows, Verdicts, IncidentsDated, CountsHold,
       HasOpenAlert, Open
<1>7. CASE UNCHANGED healthVars
  BY <1>1, <1>2, <1>7 DEF healthVars, HealthTyped, Windows, Verdicts, IncidentsDated, CountsHold,
     HasOpenAlert, Open
<1>8. QED
  BY <1>3, <1>4, <1>5, <1>6, <1>7 DEF HealthNext

LEMMA HealthIsTyped == HealthSpec => []HealthTypeOK
PROOF
<1>1. HealthTyped => HealthTypeOK
  <2> SUFFICES ASSUME HealthTyped PROVE HealthTypeOK
    OBVIOUS
  <2>1. \A i \in 1 .. Len(alerts) : alerts[i] \in AlertType
    BY DEF HealthTyped, AlertInv, AlertShape
  <2>2. \A i \in 1 .. Len(alerts) :
          alerts[i] \in [status : Open \cup Closed, created : Windows, ended : 0 .. MaxWindow]
    BY <2>1 DEF HealthTyped, IncidentsDated, AlertType
  <2>3. health.evaluated \in 0 .. MaxWindow /\ health.healthy \in 0 .. 2
        /\ health.cooldown \in 0 .. MaxWindow + ShortCooldown + LongCooldown
    BY HealthAssumption DEF HealthTyped, CountsHold, AlertInv, AlertShape, Windows
  <2>4. QED
    BY <2>2, <2>3 DEF HealthTyped, HealthTypeOK
<1>2. QED
  BY HealthStarts, HealthStep, <1>1, PTL DEF HealthSpec

(***************************************************************************)
(* Deliveries of notices                                                   *)
(***************************************************************************)
Instants == Ticks \cup {Later}
RowType == [status : DeliveryStatus, notices : SUBSET Events, due : Instants,
            attempts : 0 .. MaxAttempts]
Sends(w) == sender[w].step = "send"

(* A row that may still be tried has tries left.                           *)
TriesLeft(row) == row.status = "pending" => row.attempts < MaxAttempts

(* The row of a notice is written when the notice is routed.  A delivery   *)
(* that a worker is sending is pending and no other worker sends it, so    *)
(* each attempt is counted on a row that has one left.                     *)
OutboxTyped ==
  /\ NotificationTypeOK
  /\ \A k \in Keys : /\ TriesLeft(deliveries[k])
                     /\ k.kind = "notice" /\ deliveries[k].status # "none"
                          => notices[k.of] \in {"routed", "silent"}
  /\ \A w \in Senders : Sends(w) => deliveries[sender[w].key].status = "pending"
  /\ \A v, w \in Senders : Sends(v) /\ Sends(w) /\ sender[v].key = sender[w].key => v = w

LEMMA InstantFacts ==
  /\ Instants \subseteq Nat /\ Ticks \subseteq Instants /\ DigestHours \subseteq Instants
  /\ 0 \in Ticks /\ Later \in Instants /\ \A t \in Ticks : t + 1 \in Instants
  /\ 0 \in 0 .. MaxAttempts /\ 0 < MaxAttempts
PROOF BY NotificationAssumption DEF Instants, Ticks, Later

LEMMA TimesAreInstants ==
  ASSUME NEW at \in Ticks, NEW m, NEW critical
  PROVE  DeliveryTime(at, m, critical) \in Instants
PROOF
<1> DEFINE quiet == {h \in Ticks : h > at /\ h \notin QuietHours}
           digests == {h \in DigestHours : h > at /\ h \notin QuietHours}
<1>1. quiet \subseteq Instants /\ digests \subseteq Instants
      /\ quiet \in SUBSET Nat /\ digests \in SUBSET Nat
  BY InstantFacts
<1>2. DeliveryTime(at, m, critical) \in {at, Earliest(quiet), Earliest(digests)}
  BY DEF DeliveryTime
<1> HIDE DEF quiet, digests
<1>3. Earliest(quiet) \in Instants /\ Earliest(digests) \in Instants
  BY <1>1, EarliestFacts, InstantFacts
<1>4. QED
  BY <1>2, <1>3, InstantFacts

LEMMA EnqueuedFacts ==
  ASSUME NEW row \in RowType, NEW ids \in SUBSET Events, NEW due \in Instants, TriesLeft(row)
  PROVE  /\ Enqueued(row, ids, due) \in RowType /\ TriesLeft(Enqueued(row, ids, due))
         /\ Enqueued(row, ids, due).status = IF row.status = "none" THEN "pending" ELSE row.status
PROOF
<1>1. CASE row.status = "none"
  <2>1. Enqueued(row, ids, due) =
          [status |-> "pending", notices |-> ids, due |-> due, attempts |-> 0]
    BY <1>1 DEF Enqueued
  <2>2. QED
    BY <1>1, <2>1, InstantFacts DEF RowType, DeliveryStatus, TriesLeft
<1>2. CASE row.status # "none"
  <2>1. Merged(row, ids) \in SUBSET Events
    BY DEF Merged, RowType
  <2>2. Enqueued(row, ids, due) = [row EXCEPT !.notices = Merged(row, ids)]
    BY <1>2 DEF Enqueued
  <2>3. /\ [row EXCEPT !.notices = Merged(row, ids)] \in RowType
        /\ [row EXCEPT !.notices = Merged(row, ids)].status = row.status
        /\ [row EXCEPT !.notices = Merged(row, ids)].attempts = row.attempts
    BY <2>1 DEF RowType
  <2>4. QED
    BY <1>2, <2>2, <2>3 DEF TriesLeft
<1>3. QED
  BY <1>1, <1>2

LEMMA OutboxTypes ==
  ASSUME OutboxTyped
  PROVE  /\ tick \in Ticks /\ mode \in Modes
         /\ \A k \in Keys : deliveries[k] \in RowType /\ TriesLeft(deliveries[k])
         /\ sender \in [Senders -> SenderType]
PROOF BY DEF OutboxTyped, NotificationTypeOK, RowType, SenderType, DeliveryStatus, Instants

LEMMA OutboxStarts == NotificationInit => OutboxTyped
PROOF
<1> SUFFICES ASSUME NotificationInit PROVE OutboxTyped
  OBVIOUS
<1>1. NoDelivery \in RowType /\ TriesLeft(NoDelivery) /\ NoDelivery.status = "none"
  BY InstantFacts DEF NoDelivery, RowType, DeliveryStatus, TriesLeft
<1>2. \A k \in Keys : deliveries[k] = NoDelivery
  BY DEF NotificationInit
<1>3. \A w \in Senders : sender[w] = Resting
  BY DEF NotificationInit
<1>4. sender \in [Senders -> SenderType]
  BY KeyFacts DEF NotificationInit
<1>5. NotificationTypeOK
  BY <1>1, <1>2, <1>4, InstantFacts, NotificationAssumption DEF NotificationInit,
     NotificationTypeOK, RowType, DeliveryStatus, SenderType, Instants
<1>6. QED
  BY <1>1, <1>2, <1>3, <1>5, KeyFacts DEF OutboxTyped, Sends

LEMMA RoutesTyped ==
  ASSUME OutboxTyped, NEW w \in Senders, Route(w)
  PROVE  OutboxTyped'
PROOF
<1>1. sender[w].now \in Ticks /\ sender[w].now + 1 \in Instants
  BY OutboxTypes, InstantFacts DEF SenderType
<1>2. /\ UNCHANGED <<tick, incident, mode, deaths>>
      /\ notices' = [e \in Events |-> IF e \notin Unrouted THEN notices[e]
                                      ELSE IF mode = "off" THEN "silent" ELSE "routed"]
      /\ \A e \in Unrouted : e \in Events /\ notices[e] = "new"
      /\ sender' = [sender EXCEPT ![w] = [Resting EXCEPT !.step = "deliver"]]
  BY DEF Route, Unrouted
<1>3. \A e \in Events : DueOf(w, e) \in Instants
  BY <1>1, TimesAreInstants DEF DueOf
<1>4. ASSUME NEW k \in Keys
      PROVE  /\ deliveries'[k] \in RowType /\ TriesLeft(deliveries'[k])
             /\ deliveries[k].status = "pending" => deliveries'[k].status = "pending"
             /\ k.kind = "notice" /\ deliveries'[k].status # "none"
                  => notices'[k.of] \in {"routed", "silent"}
  <2> DEFINE into == RoutedTo(w, k)
             raised == Raised(w, k)
  <2>1. deliveries'[k] =
          IF into # {} /\ mode = "off"
          THEN [NoDelivery EXCEPT !.status = "suppressed", !.notices = into]
          ELSE IF into # {} THEN Enqueued(deliveries[k], into, DueOf(w, CHOOSE e \in into : TRUE))
          ELSE IF raised # {} THEN Enqueued(deliveries[k], raised, sender[w].now + 1)
          ELSE deliveries[k]
    BY RouteWrites
  <2>2. into \in SUBSET Events /\ raised \in SUBSET Events
        /\ (\A e \in into : e \in Unrouted /\ RouteKey(w, e) = k)
        /\ (raised # {} => k.kind = "escalation")
    BY DEF RoutedTo, Raised, Unrouted
  <2>3. PICK row : row = deliveries[k]
    OBVIOUS
  <2>4. row \in RowType /\ TriesLeft(row)
        /\ (k.kind = "notice" /\ row.status # "none" => notices[k.of] \in {"routed", "silent"})
    BY <2>3, OutboxTypes DEF OutboxTyped
  <2>5. k.kind = "notice" => k.of \in Events
    BY KeyFacts
  <2>6. ASSUME into # {}, k.kind = "notice" PROVE row.status = "none" /\ k.of \in Unrouted
    <3>1. PICK e \in into : TRUE
      BY <2>6
    <3>2. KeyOf(e, mode, DueOf(w, e)) = k
      BY <2>2, <3>1 DEF RouteKey
    <3>3. k.of = e
      BY <2>6, <3>2 DEF KeyOf
    <3>4. QED
      BY <1>2, <2>2, <2>4, <2>6, <3>1, <3>3
  <2>7. ASSUME into # {}, mode = "off" PROVE k.kind = "notice"
    <3>1. PICK e \in into : TRUE
      BY <2>7
    <3>2. KeyOf(e, mode, DueOf(w, e)) = k
      BY <2>2, <3>1 DEF RouteKey
    <3>3. QED
      BY <2>7, <3>2 DEF KeyOf
  <2>8. into # {} => DueOf(w, CHOOSE e \in into : TRUE) \in Instants
    <3>1. into # {} => (CHOOSE e \in into : TRUE) \in Events
      BY <2>2
    <3>2. QED
      BY <1>3, <3>1
  <2>9. notices' \in [Events -> {"none", "new", "routed", "silent"}]
        /\ \A e \in Events : notices[e] \in {"routed", "silent"} \/ e \in Unrouted
                               => notices'[e] \in {"routed", "silent"}
    BY <1>2 DEF OutboxTyped, NotificationTypeOK
  <2> HIDE DEF into, raised
  <2>10. CASE into # {} /\ mode = "off"
    <3>1. deliveries'[k] = [status |-> "suppressed", notices |-> into, due |-> 0, attempts |-> 0]
      BY <2>1, <2>10 DEF NoDelivery
    <3>2. deliveries'[k] \in RowType /\ deliveries'[k].status = "suppressed"
      BY <2>2, <3>1, InstantFacts DEF RowType, DeliveryStatus
    <3>3. row.status = "none" /\ k.of \in Unrouted
      BY <2>6, <2>7, <2>10
    <3>4. QED
      BY <2>3, <2>5, <2>7, <2>9, <2>10, <3>2, <3>3 DEF TriesLeft
  <2>11. ASSUME NEW ids \in SUBSET Events, NEW due \in Instants,
                deliveries'[k] = Enqueued(row, ids, due),
                k.kind = "notice" => k.of \in Unrouted
         PROVE  /\ deliveries'[k] \in RowType /\ TriesLeft(deliveries'[k])
                /\ row.status = "pending" => deliveries'[k].status = "pending"
                /\ k.kind = "notice" => notices'[k.of] \in {"routed", "silent"}
    <3>1. /\ Enqueued(row, ids, due) \in RowType /\ TriesLeft(Enqueued(row, ids, due))
          /\ Enqueued(row, ids, due).status = IF row.status = "none" THEN "pending" ELSE row.status
      BY <2>4, <2>11, EnqueuedFacts
    <3>2. QED
      BY <2>5, <2>9, <2>11, <3>1
  <2>12. CASE into # {} /\ mode # "off"
    BY <2>1, <2>2, <2>3, <2>6, <2>8, <2>11, <2>12
  <2>13. CASE into = {} /\ raised # {}
    BY <1>1, <2>1, <2>2, <2>3, <2>11, <2>13
  <2>14. CASE into = {} /\ raised = {}
    <3>1. deliveries'[k] = row
      BY <2>1, <2>3, <2>14
    <3>2. QED
      BY <2>3, <2>4, <2>5, <2>9, <3>1
  <2>15. QED
    BY <2>10, <2>12, <2>13, <2>14
<1>5. sender' \in [Senders -> SenderType] /\ ~Sends(w)'
      /\ \A v \in Senders : v # w => sender'[v] = sender[v]
  BY <1>2, KeyFacts, OutboxTypes DEF SenderType, Sends
<1>6. notices' \in [Events -> {"none", "new", "routed", "silent"}]
  BY <1>2 DEF OutboxTyped, NotificationTypeOK
<1>7. NotificationTypeOK'
  BY <1>2, <1>4, <1>5, <1>6 DEF OutboxTyped, NotificationTypeOK, RowType, SenderType,
     DeliveryStatus, Instants, Ticks
<1>8. \A v \in Senders : sender[v].key \in Keys
  BY OutboxTypes DEF SenderType
<1>9. QED
  BY <1>4, <1>5, <1>7, <1>8 DEF OutboxTyped, Sends, TriesLeft

(* A step of a worker that writes at most one pending row, which no other  *)
(* worker sends.                                                           *)
LEMMA OneRowTyped ==
  ASSUME OutboxTyped, NEW w \in Senders, NEW k \in Keys,
         deliveries[k].status = "pending",
         \A v \in Senders : v # w => ~(Sends(v) /\ sender[v].key = k),
         UNCHANGED <<tick, notices, incident, mode, deaths>>,
         NEW row \in RowType, TriesLeft(row), row.status # "none",
         deliveries' = [deliveries EXCEPT ![k] = row],
         NEW s \in SenderType, sender' = [sender EXCEPT ![w] = s], s.step # "send"
  PROVE  OutboxTyped'
PROOF
<1>1. sender' \in [Senders -> SenderType] /\ ~Sends(w)'
      /\ \A v \in Senders : v # w => sender'[v] = sender[v]
  BY OutboxTypes DEF Sends
<1>2. \A j \in Keys : deliveries'[j] = IF j = k /\ k \in DOMAIN deliveries THEN row ELSE deliveries[j]
  OBVIOUS
<1>3. \A j \in Keys : deliveries'[j] \in {deliveries[j], row} /\ (j # k => deliveries'[j] = deliveries[j])
  BY <1>2
<1>4. NotificationTypeOK'
  BY <1>1, <1>3, OutboxTypes DEF OutboxTyped, NotificationTypeOK, RowType, SenderType,
     DeliveryStatus, Instants, Ticks
<1>5. \A j \in Keys : /\ TriesLeft(deliveries'[j])
                      /\ j.kind = "notice" /\ deliveries'[j].status # "none"
                           => notices'[j.of] \in {"routed", "silent"}
  BY <1>3 DEF OutboxTyped
<1>6. \A v \in Senders : Sends(v)' => v # w /\ Sends(v) /\ sender[v].key # k
      /\ sender[v].key \in Keys
  BY <1>1, OutboxTypes DEF Sends, SenderType
<1>7. \A v \in Senders : Sends(v)' => deliveries'[sender'[v].key].status = "pending"
  BY <1>1, <1>3, <1>6 DEF OutboxTyped
<1>8. \A u, v \in Senders : Sends(u)' /\ Sends(v)' /\ sender'[u].key = sender'[v].key => u = v
  BY <1>1, <1>6 DEF OutboxTyped
<1>9. QED
  BY <1>4, <1>5, <1>7, <1>8 DEF OutboxTyped, TriesLeft

LEMMA DeliversTyped ==
  ASSUME OutboxTyped, NEW w \in Senders, Deliver(w)
  PROVE  OutboxTyped'
PROOF
<1>1. /\ tick \in Ticks /\ sender \in [Senders -> SenderType]
      /\ \A k \in Keys : deliveries[k] \in RowType /\ TriesLeft(deliveries[k])
  BY OutboxTypes
<1>2. ASSUME NEW k \in Keys, SetAside(w, k) PROVE OutboxTyped'
  <2>1. /\ deliveries[k].status = "pending" /\ k \notin Locked /\ sender[w].step = "deliver"
        /\ UNCHANGED <<tick, notices, incident, mode, deaths>> /\ UNCHANGED sender
    BY <1>2 DEF SetAside, DueNow
  <2>2. \A v \in Senders : ~(Sends(v) /\ sender[v].key = k)
    BY <2>1 DEF Locked, Sends
  <2>3. PICK row : row = deliveries[k]
    OBVIOUS
  <2>4. row \in RowType /\ TriesLeft(row)
    BY <1>1, <2>3
  <2>5. DeliveryTime(tick, "immediate", FALSE) \in Instants
    BY <1>1, TimesAreInstants
  <2>6. PICK later : later = DeliveryTime(tick, "immediate", FALSE)
    OBVIOUS
  <2>7. \/ deliveries' = [deliveries EXCEPT ![k] = [row EXCEPT !.status = "suppressed"]]
        \/ deliveries' = [deliveries EXCEPT ![k] = [row EXCEPT !.due = later]]
    BY <1>2, <2>3, <2>6 DEF SetAside
  <2>8. /\ [row EXCEPT !.status = "suppressed"] \in RowType
        /\ TriesLeft([row EXCEPT !.status = "suppressed"])
        /\ [row EXCEPT !.status = "suppressed"].status = "suppressed"
    BY <2>4 DEF RowType, DeliveryStatus, TriesLeft
  <2>9. /\ [row EXCEPT !.due = later] \in RowType /\ TriesLeft([row EXCEPT !.due = later])
        /\ [row EXCEPT !.due = later].status = row.status
    BY <2>4, <2>5, <2>6 DEF RowType, TriesLeft
  <2>10. PICK new : /\ deliveries' = [deliveries EXCEPT ![k] = new]
                    /\ new \in RowType /\ TriesLeft(new) /\ new.status # "none"
    BY <2>1, <2>3, <2>7, <2>8, <2>9
  <2>11. sender' = [sender EXCEPT ![w] = sender[w]] /\ sender[w] \in SenderType
    BY <1>1, <2>1
  <2>12. PICK s : s = sender[w]
    OBVIOUS
  <2>13. s \in SenderType /\ s.step # "send" /\ sender' = [sender EXCEPT ![w] = s]
    BY <2>1, <2>11, <2>12
  <2>14. QED
    BY <2>1, <2>2, <2>10, <2>13, OneRowTyped
<1>3. ASSUME NEW k \in Keys, Send(w, k) PROVE OutboxTyped'
  <2>1. /\ deliveries[k].status = "pending" /\ k \notin Locked /\ sender[w].step = "deliver"
        /\ UNCHANGED <<tick, notices, incident, mode, deaths, deliveries>>
        /\ sender' = [sender EXCEPT ![w] = [@ EXCEPT !.step = "send", !.key = k]]
    BY <1>3 DEF Send, DueNow
  <2>2. \A v \in Senders : ~(Sends(v) /\ sender[v].key = k)
    BY <2>1 DEF Locked, Sends
  <2>3. /\ sender' \in [Senders -> SenderType] /\ sender'[w].key = k
        /\ \A v \in Senders : v # w => sender'[v] = sender[v]
    BY <1>1, <2>1 DEF SenderType
  <2>4. NotificationTypeOK'
    BY <2>1, <2>3 DEF OutboxTyped, NotificationTypeOK, SenderType, Ticks
  <2>5. \A v \in Senders : v # w /\ Sends(v)' => Sends(v) /\ sender[v].key # k
    BY <2>2, <2>3 DEF Sends
  <2>6. QED
    BY <2>1, <2>3, <2>4, <2>5 DEF OutboxTyped, Sends, TriesLeft
<1>4. ASSUME NEW ok \in BOOLEAN, EndSend(w, ok) PROVE OutboxTyped'
  <2>1. PICK k : k = sender[w].key
    OBVIOUS
  <2>2. /\ k \in Keys /\ Sends(w) /\ deliveries[k].status = "pending"
        /\ \A v \in Senders : v # w => ~(Sends(v) /\ sender[v].key = k)
    BY <1>1, <1>4, <2>1 DEF EndSend, Sends, OutboxTyped, SenderType
  <2>3. PICK row : row = deliveries[k]
    OBVIOUS
  <2>4. row \in RowType /\ row.attempts < MaxAttempts /\ row.attempts \in Nat
        /\ row.attempts + 1 \in 0 .. MaxAttempts
    BY <1>1, <2>2, <2>3, NotificationAssumption DEF TriesLeft, RowType
  <2>5. /\ deliveries' = [deliveries EXCEPT ![k] = IF ok THEN Sent(row) ELSE Failed(row)]
        /\ sender' = [sender EXCEPT ![w] = [Resting EXCEPT !.step = "deliver"]]
        /\ UNCHANGED <<tick, notices, incident, mode, deaths>>
    BY <1>4, <2>1, <2>3 DEF EndSend
  <2>6. Sent(row) \in RowType /\ TriesLeft(Sent(row)) /\ Sent(row).status = "delivered"
    BY <2>4 DEF Sent, RowType, DeliveryStatus, TriesLeft
  <2>7. Failed(row) \in RowType /\ TriesLeft(Failed(row)) /\ Failed(row).status # "none"
    <3>1. (IF tick < MaxTick THEN tick + 1 ELSE MaxTick) \in Instants
      BY <1>1, NotificationAssumption DEF Instants, Ticks
    <3>2. PICK d \in Instants : d = IF tick < MaxTick THEN tick + 1 ELSE MaxTick
      BY <3>1
    <3>3. PICK a \in 0 .. MaxAttempts : a = row.attempts + 1
      BY <2>4
    <3>4. PICK st : st = IF a >= MaxAttempts THEN "failed" ELSE "pending"
      OBVIOUS
    <3>5. Failed(row) = [row EXCEPT !.attempts = a, !.due = d, !.status = st]
      BY <3>2, <3>3, <3>4 DEF Failed
    <3>6. [row EXCEPT !.attempts = a, !.due = d, !.status = st] \in RowType
          /\ [row EXCEPT !.attempts = a, !.due = d, !.status = st].status = st
          /\ [row EXCEPT !.attempts = a, !.due = d, !.status = st].attempts = a
      BY <2>4, <3>4 DEF RowType, DeliveryStatus
    <3>7. st = "pending" => a < MaxAttempts
      BY <3>4, NotificationAssumption
    <3>8. QED
      BY <3>4, <3>5, <3>6, <3>7 DEF TriesLeft
  <2>8. PICK new : /\ deliveries' = [deliveries EXCEPT ![k] = new]
                   /\ new \in RowType /\ TriesLeft(new) /\ new.status # "none"
    BY <2>5, <2>6, <2>7
  <2>9. PICK s : s = [Resting EXCEPT !.step = "deliver"]
    OBVIOUS
  <2>10. s \in SenderType /\ s.step # "send" /\ sender' = [sender EXCEPT ![w] = s]
    BY <2>5, <2>9, KeyFacts DEF SenderType
  <2>11. QED
    BY <2>2, <2>5, <2>8, <2>10, OneRowTyped
<1>5. QED
  BY <1>2, <1>3, <1>4 DEF Deliver

(* A step of a worker that writes no row and sends nothing.                *)
LEMMA WorkerRests ==
  ASSUME OutboxTyped, NEW w \in Senders, NEW s \in SenderType, s.step # "send",
         sender' = [sender EXCEPT ![w] = s], deaths' \in 0 .. MaxDeaths,
         UNCHANGED <<tick, notices, incident, mode, deliveries>>
  PROVE  OutboxTyped'
PROOF
<1>1. sender' \in [Senders -> SenderType] /\ ~Sends(w)'
      /\ \A v \in Senders : v # w => sender'[v] = sender[v]
  BY OutboxTypes DEF Sends
<1>2. NotificationTypeOK'
  BY <1>1 DEF OutboxTyped, NotificationTypeOK, SenderType, Ticks
<1>3. QED
  BY <1>1, <1>2 DEF OutboxTyped, Sends, TriesLeft

LEMMA NotificationIsTyped == NotificationSpec => []NotificationTypeOK
PROOF
<1>1. OutboxTyped /\ [NotificationNext]_notificationVars => OutboxTyped'
  <2> SUFFICES ASSUME OutboxTyped, [NotificationNext]_notificationVars PROVE OutboxTyped'
    OBVIOUS
  <2>1. NotificationTypeOK /\ sender \in [Senders -> SenderType]
    BY OutboxTypes DEF OutboxTyped
  <2>2. ASSUME NEW w \in Senders, StartTask(w) \/ SenderDies(w) \/ EndTask(w) PROVE OutboxTyped'
    <3>1. PICK s : /\ sender' = [sender EXCEPT ![w] = s]
                   /\ s = Resting \/ s = [sender[w] EXCEPT !.step = "route", !.now = tick]
      BY <2>2 DEF StartTask, SenderDies, EndTask
    <3>2. s \in SenderType /\ s.step # "send"
      <4>1. Resting \in SenderType /\ Resting.step # "send"
        BY KeyFacts
      <4>2. PICK before : before = sender[w] /\ before \in SenderType
        BY <2>1
      <4>3. tick \in Ticks
        BY <2>1 DEF NotificationTypeOK
      <4>4. [before EXCEPT !.step = "route", !.now = tick] \in SenderType
        BY <4>2, <4>3 DEF SenderType
      <4>5. [before EXCEPT !.step = "route", !.now = tick].step # "send"
        BY <4>2 DEF SenderType
      <4>6. QED
        BY <3>1, <4>1, <4>2, <4>4, <4>5
    <3>3. deaths' \in 0 .. MaxDeaths /\ UNCHANGED <<tick, notices, incident, mode, deliveries>>
      BY <2>1, <2>2, NotificationAssumption DEF StartTask, SenderDies, EndTask, NotificationTypeOK
    <3>4. QED
      BY <3>1, <3>2, <3>3, WorkerRests
  <2>3. ASSUME NEW e \in Events, EventHappens(e) PROVE OutboxTyped'
    <3>1. notices[e] = "none" /\ notices' = [notices EXCEPT ![e] = "new"]
          /\ UNCHANGED <<tick, incident, mode, deliveries, sender, deaths>>
      BY <2>3 DEF EventHappens
    <3>2. notices' \in [Events -> {"none", "new", "routed", "silent"}]
          /\ \A d \in Events : notices[d] \in {"routed", "silent"} => notices'[d] = notices[d]
      BY <2>1, <3>1 DEF NotificationTypeOK
    <3>3. NotificationTypeOK'
      BY <2>1, <3>1, <3>2 DEF NotificationTypeOK, Ticks
    <3>4. \A k \in Keys : k.kind = "notice" /\ deliveries'[k].status # "none"
                            => notices'[k.of] \in {"routed", "silent"}
      BY <3>1, <3>2, KeyFacts DEF OutboxTyped
    <3>5. QED
      BY <3>1, <3>3, <3>4 DEF OutboxTyped, Sends, TriesLeft
  <2>4. CASE \/ \E e \in Events : IncidentEnds(e)
             \/ \E m \in Modes : ChangeMode(m)
             \/ TickPasses \/ UNCHANGED notificationVars
    <3>1. /\ UNCHANGED <<notices, deliveries, sender, deaths>>
          /\ tick' \in Ticks /\ mode' \in Modes /\ incident' \in [Events -> BOOLEAN]
      <4>1. CASE TickPasses
        BY <2>1, <4>1, NotificationAssumption DEF NotificationTypeOK, TickPasses, Ticks
      <4>2. ASSUME NEW e \in Events, IncidentEnds(e)
            PROVE  /\ UNCHANGED <<notices, deliveries, sender, deaths, tick, mode>>
                   /\ incident' \in [Events -> BOOLEAN]
        BY <2>1, <4>2 DEF NotificationTypeOK, IncidentEnds
      <4>3. CASE (\E m \in Modes : ChangeMode(m)) \/ UNCHANGED notificationVars
        BY <2>1, <4>3 DEF NotificationTypeOK, ChangeMode, notificationVars
      <4>4. QED
        BY <2>1, <2>4, <4>1, <4>2, <4>3 DEF NotificationTypeOK
    <3>2. NotificationTypeOK'
      BY <2>1, <3>1 DEF NotificationTypeOK, Ticks
    <3>3. QED
      BY <3>1, <3>2 DEF OutboxTyped, Sends, TriesLeft
  <2>5. QED
    BY <2>2, <2>3, <2>4, RoutesTyped, DeliversTyped DEF NotificationNext
<1>2. OutboxTyped => NotificationTypeOK
  BY DEF OutboxTyped
<1>3. QED
  BY OutboxStarts, <1>1, <1>2, PTL DEF NotificationSpec

(***************************************************************************)
(* Imports of prices                                                       *)
(***************************************************************************)
(* The import that holds the lock has room for the row it will write: no   *)
(* other import begins meanwhile.                                          *)
MarketTyped == MarketTypeOK /\ (fetching # "none" => Len(runs) < MaxRevision)

LEMMA RecordTyped ==
  ASSUME MarketTyped, Len(runs) < MaxRevision, NEW run \in RunType, Record(run),
         UNCHANGED <<slot, poll, retention>>, fetching' = "none"
  PROVE  MarketTyped'
PROOF
<1>1. runs \in Seq(RunType) /\ current \subseteq DOMAIN runs /\ Len(runs) \in Nat
  BY DEF MarketTyped, MarketTypeOK
<1>2. runs' = Append(runs, run)
  BY DEF Record
<1>3. runs' \in Seq(RunType) /\ Len(runs') = Len(runs) + 1
      /\ DOMAIN runs \subseteq DOMAIN runs' /\ Len(runs) + 1 \in DOMAIN runs'
  BY <1>1, <1>2
<1>4. current' \subseteq DOMAIN runs'
  BY <1>1, <1>3 DEF Record, MakeCurrent
<1>5. Len(runs') <= MaxRevision
  BY <1>1, <1>3, MarketAssumption
<1>6. QED
  BY <1>3, <1>4, <1>5 DEF MarketTyped, MarketTypeOK, RunType

LEMMA RunsAreTyped ==
  ASSUME NEW status \in {"succeeded", "unchanged", "failed", "unpublished"},
         NEW file \in Files \cup {Malformed, Synthetic, Unfetched},
         NEW by \in {"poll", "administrator"}, NEW at \in NotFetched .. LastSlot
  PROVE  Run(status, file, by, at) \in RunType
PROOF
<1>1. (file = Synthetic) \in BOOLEAN
  OBVIOUS
<1>2. QED
  BY <1>1 DEF Run, RunType

LEMMA MarketIsTyped == MarketSpec => []MarketTypeOK
PROOF
<1>1. MarketInit => MarketTyped
  BY MarketAssumption DEF MarketInit, MarketTyped, MarketTypeOK
<1>2. MarketTyped /\ [MarketNext]_marketVars => MarketTyped'
  <2> SUFFICES ASSUME MarketTyped, [MarketNext]_marketVars PROVE MarketTyped'
    OBVIOUS
  <2>1. /\ MarketTypeOK /\ (fetching # "none" => Len(runs) < MaxRevision)
        /\ slot \in NotFetched .. LastSlot /\ NotFetched \in NotFetched .. LastSlot
    BY MarketAssumption DEF MarketTyped, MarketTypeOK, NotFetched
  <2>2. CASE StartPoll \/ LockPoll \/ StartImport \/ ImportDies \/ SlotPasses \/ UNCHANGED marketVars
    <3>1. UNCHANGED <<runs, current, retention>>
      BY <2>2 DEF StartPoll, LockPoll, StartImport, ImportDies, SlotPasses, marketVars
    <3>2. /\ poll' \in {"idle", "waiting"} /\ fetching' \in {"none", "poll", "administrator"}
          /\ fetching' # "none" => Len(runs) < MaxRevision
      BY <2>1, <2>2 DEF StartPoll, LockPoll, StartImport, ImportDies, SlotPasses, marketVars,
         LockIsFree, MarketTypeOK
    <3>3. slot' \in 0 .. LastSlot
      BY <2>1, <2>2, MarketAssumption DEF StartPoll, LockPoll, StartImport, ImportDies, SlotPasses,
         marketVars, MarketTypeOK
    <3>4. QED
      BY <2>1, <3>1, <3>2, <3>3 DEF MarketTyped, MarketTypeOK, RunType
  <2>3. CASE ImportUnpublished
    <3>1. Run("unpublished", Unfetched, "administrator", NotFetched) \in RunType
      BY <2>1, RunsAreTyped
    <3>2. QED
      BY <2>3, <3>1, RecordTyped DEF ImportUnpublished, LockIsFree
  <2>4. ASSUME NEW answer \in Files \cup {Malformed, Unfetched}, FinishImport(answer)
        PROVE  MarketTyped'
    <3>1. /\ FileOf(answer) \in Files \cup {Malformed, Synthetic, Unfetched}
          /\ StatusOf(FileOf(answer)) \in {"succeeded", "unchanged", "failed", "unpublished"}
          /\ fetching \in {"poll", "administrator"} /\ Len(runs) < MaxRevision
      BY <2>1, <2>4 DEF FileOf, StatusOf, FinishImport, MarketTypeOK
    <3>2. Run(StatusOf(FileOf(answer)), FileOf(answer), fetching, slot) \in RunType
      BY <2>1, <3>1, RunsAreTyped
    <3>3. QED
      BY <2>4, <3>1, <3>2, RecordTyped DEF FinishImport
  <2>5. ASSUME NEW file \in Files \cup {Malformed}, ImportFile(file) PROVE MarketTyped'
    <3>1. PICK status \in {"unchanged", "succeeded", "failed"} :
            Record(Run(status, file, "administrator", slot))
      BY <2>5 DEF ImportFile
    <3>2. Run(status, file, "administrator", slot) \in RunType
      BY <2>1, RunsAreTyped
    <3>3. QED
      BY <2>5, <3>1, <3>2, RecordTyped DEF ImportFile, LockIsFree
  <2>6. ASSUME NEW limit \in Limits, StartRetention(limit) PROVE MarketTyped'
    <3>1. retention'.revisions \subseteq DOMAIN runs
      BY <2>6 DEF StartRetention, ActiveRuns, SucceededRuns
    <3>2. QED
      BY <2>1, <2>6, <3>1 DEF StartRetention, MarketTyped, MarketTypeOK, RunType
  <2>7. ASSUME NEW dry \in BOOLEAN, FinishRetention(dry) PROVE MarketTyped'
    <3>1. runs \in Seq(RunType) /\ DOMAIN runs = 1 .. Len(runs) /\ Len(runs) \in Nat
      BY <2>1 DEF MarketTypeOK
    <3>2. PICK gone : runs' = [r \in DOMAIN runs |->
            IF r \in gone /\ ~dry THEN [runs[r] EXCEPT !.archived = TRUE] ELSE runs[r]]
      BY <2>7 DEF FinishRetention
    <3>3. \A r \in DOMAIN runs : runs'[r] \in RunType
      <4>1. \A run \in RunType : [run EXCEPT !.archived = TRUE] \in RunType
        BY DEF RunType
      <4>2. QED
        BY <3>1, <3>2, <4>1
    <3>4. runs' \in [1 .. Len(runs) -> RunType]
      BY <3>1, <3>2, <3>3
    <3>5. runs' \in Seq(RunType) /\ Len(runs') = Len(runs) /\ DOMAIN runs' = DOMAIN runs
      BY <3>1, <3>4
    <3>6. QED
      BY <2>1, <2>7, <3>5 DEF FinishRetention, MarketTyped, MarketTypeOK, RunType
  <2>8. QED
    BY <2>2, <2>3, <2>4, <2>5, <2>6, <2>7 DEF MarketNext
<1>3. QED
  BY <1>1, <1>2, PTL DEF MarketSpec, MarketTyped

(***************************************************************************)
(* Aggregates of telemetry                                                 *)
(***************************************************************************)
(* What is integrated, or computed to be, are hours; a cutoff is one too,  *)
(* or lies before the first by what is kept.                               *)
HoursOnly ==
  /\ \A h \in Hours : integrated[h] \subseteq Hours
  /\ \A h \in Done : refresher.computed[h] \subseteq Hours
  /\ purge \in NoPurge .. LastHour

LEMMA HoursStep == TelemetryInv /\ HoursOnly /\ [TelemetryNext]_telemetryVars => HoursOnly'
PROOF
<1> SUFFICES ASSUME TelemetryInv, HoursOnly, [TelemetryNext]_telemetryVars PROVE HoursOnly'
  OBVIOUS
<1>1. /\ raw \subseteq Hours /\ queued \subseteq Hours /\ hour \in Hours
      /\ Hours \subseteq Nat /\ \A h \in Hours : h <= LastHour
      /\ refresher \in RefresherType /\ integrated \in [Hours -> SUBSET Int]
  BY TelemetryFacts DEF TelemetryInv, TelemetryShape
<1>2. IdleRefresher.computed = [h \in {} |-> {}] /\ DOMAIN IdleRefresher.computed = {}
  BY DEF IdleRefresher
<1>3. CASE UNCHANGED <<integrated, purge>> /\ Done' = {}
  BY <1>3 DEF HoursOnly, Hours
<1>4. CASE UNCHANGED <<integrated, purge, refresher>>
  BY <1>4 DEF HoursOnly, Hours, Done
<1>5. ASSUME NEW sample \in Measured, BeginBatch(sample) PROVE HoursOnly'
  BY <1>4, <1>5 DEF BeginBatch
<1>6. CASE CommitBatch \/ BatchFails \/ HourPasses \/ UNCHANGED telemetryVars
  BY <1>4, <1>6 DEF CommitBatch, BatchFails, HourPasses, telemetryVars
<1>7. CASE BeginRefresh \/ RefreshFails \/ \E rows \in SUBSET queued : BeginDrain(rows)
  <2>1. refresher'.computed = IdleRefresher.computed /\ UNCHANGED <<integrated, purge>>
    BY <1>7 DEF BeginRefresh, RefreshFails, BeginDrain, IdleRefresher
  <2>2. Done' = {}
    BY <1>2, <2>1 DEF Done
  <2>3. QED
    BY <1>3, <2>1, <2>2
<1>8. ASSUME NEW h \in Hours, RefreshHour(h) PROVE HoursOnly'
  <2>1. SamplesOf(h) \subseteq Hours
    BY <1>1 DEF SamplesOf, HoursOnly
  <2>2. PICK samples : samples = SamplesOf(h)
    OBVIOUS
  <2>3. refresher'.computed =
          [i \in Done \cup {h} |-> IF i = h THEN samples ELSE refresher.computed[i]]
        /\ UNCHANGED <<integrated, purge>>
    BY <1>1, <1>8, <2>2 DEF RefreshHour, RefresherType, Done
  <2>4. \A i \in Done' : refresher'.computed[i] \subseteq Hours
    BY <2>1, <2>2, <2>3 DEF Done, HoursOnly
  <2>5. QED
    BY <2>3, <2>4 DEF HoursOnly, Hours
<1>9. CASE CommitRefresh
  <2>1. \A h \in Hours : integrated'[h] \subseteq Hours
    BY <1>9 DEF CommitRefresh, HoursOnly, Done
  <2>2. Done' = {} /\ UNCHANGED purge
    BY <1>2, <1>9 DEF CommitRefresh, Done
  <2>3. QED
    BY <2>1, <2>2 DEF HoursOnly, Hours
<1>10. CASE BeginPurge
  <2>1. PurgeBefore \in NoPurge .. LastHour
    <3>1. hour - RawRetention \in NoPurge .. LastHour
      BY <1>1, TelemetryFacts DEF NoPurge
    <3>2. CASE queued = {}
      BY <3>1, <3>2 DEF PurgeBefore
    <3>3. CASE queued # {}
      <4>1. queued \subseteq Nat
        BY <1>1
      <4>2. \E h \in queued : \A other \in queued : h <= other
        BY <3>3, <4>1, FirstExists
      <4>3. PICK first : first = CHOOSE h \in queued : \A other \in queued : h <= other
        OBVIOUS
      <4>4. first \in Hours
        BY <1>1, <4>2, <4>3
      <4>5. first - 1 \in NoPurge .. LastHour
        BY <1>1, <4>4, TelemetryFacts DEF NoPurge
      <4>6. QED
        BY <3>1, <3>3, <4>3, <4>5 DEF PurgeBefore
    <3>4. QED
      BY <3>2, <3>3
  <2>2. QED
    BY <1>10, <2>1 DEF BeginPurge, HoursOnly, Hours, Done, NoPurge
<1>11. CASE CommitPurge
  <2>1. NoPurge \in NoPurge .. LastHour
    BY TelemetryFacts DEF NoPurge
  <2>2. QED
    BY <1>11, <2>1 DEF CommitPurge, HoursOnly, Hours, Done, NoPurge
<1>12. QED
  BY <1>5, <1>6, <1>7, <1>8, <1>9, <1>10, <1>11 DEF TelemetryNext

LEMMA TelemetryIsTyped == TelemetrySpec => []TelemetryTypeOK
PROOF
<1>1. TelemetryInit => HoursOnly
  <2>1. NoPurge \in NoPurge .. LastHour
    BY TelemetryFacts DEF NoPurge
  <2>2. QED
    BY <2>1 DEF TelemetryInit, HoursOnly, Done, IdleRefresher
<1>2. TelemetryInv /\ HoursOnly => TelemetryTypeOK
  BY DEF TelemetryInv, TelemetryShape, RefresherType, HoursOnly, TelemetryTypeOK
<1>3. TelemetryInv /\ [TelemetryNext]_telemetryVars => TelemetryInv'
  BY TelemetryStep
<1>4. QED
  BY TelemetryInitInv, <1>1, <1>2, <1>3, HoursStep, PTL DEF TelemetrySpec

(***************************************************************************)
(* Sessions of the mobile application                                      *)
(***************************************************************************)
MobileSessionRow ==
  [installation : Installations, issued : 0 .. MaxRotations,
   state : {"none", "live", "revoked", "expired", "deleted"}]
FailureCounts == 0 .. MaxFailures - 1
AccountType == [exists : BOOLEAN, failures : FailureCounts, locked : BOOLEAN]
LookupType == [session : 0 .. MaxLogins, token : 0 .. MaxRotations, unused : BOOLEAN]

LEMMA MobileDefaults ==
  /\ NoSession \in MobileSessionRow /\ NoLookup \in LookupType
  /\ 1 \in 1 .. MaxRotations /\ 1 \in 0 .. MaxRotations /\ 0 \in FailureCounts
PROOF
<1>1. (CHOOSE i \in Installations : TRUE) \in Installations
  BY MobileAssumption
<1>2. 0 \in 0 .. MaxRotations /\ 1 \in 1 .. MaxRotations /\ 1 \in 0 .. MaxRotations
      /\ 0 \in 0 .. MaxLogins /\ 0 \in FailureCounts
  BY MobileAssumption DEF FailureCounts
<1>3. QED
  BY <1>1, <1>2 DEF NoSession, NoLookup, MobileSessionRow, LookupType

LEMMA AccountRows ==
  ASSUME NEW a \in AccountType, NEW n \in FailureCounts, NEW b \in BOOLEAN
  PROVE  /\ [a EXCEPT !.failures = n] \in AccountType
         /\ [a EXCEPT !.failures = n, !.locked = b] \in AccountType
         /\ [a EXCEPT !.locked = b] \in AccountType
         /\ [a EXCEPT !.exists = b] \in AccountType
PROOF BY DEF AccountType

LEMMA RevokedTyped ==
  ASSUME mobile \in [SessionIds -> MobileSessionRow], NEW gone
  PROVE  RevokedIn(gone) \in [SessionIds -> MobileSessionRow]
PROOF BY DEF RevokedIn, MobileSessionRow

LEMMA SessionCreatedTyped ==
  ASSUME MobileTypeOK, NEW i \in Installations, CreateSession(i)
  PROVE  /\ mobile' \in [SessionIds -> MobileSessionRow]
         /\ tokens' \in [SessionIds -> SUBSET (1 .. MaxRotations)]
PROOF
<1>1. PICK row : row = [installation |-> i, state |-> "live", issued |-> 1]
  OBVIOUS
<1>2. row \in MobileSessionRow
  BY <1>1, MobileDefaults DEF MobileSessionRow
<1>3. PICK new : /\ mobile' = [RevokedIn(Replaced(i)) EXCEPT ![new] = row]
                 /\ tokens' = [tokens EXCEPT ![new] = {1}]
  BY <1>1 DEF CreateSession
<1>4. RevokedIn(Replaced(i)) \in [SessionIds -> MobileSessionRow]
  BY RevokedTyped DEF MobileTypeOK, MobileSessionRow
<1>5. mobile' \in [SessionIds -> MobileSessionRow]
  BY <1>2, <1>3, <1>4
<1>6. tokens' \in [SessionIds -> SUBSET (1 .. MaxRotations)]
  BY <1>3, MobileDefaults DEF MobileTypeOK
<1>7. QED
  BY <1>5, <1>6

LEMMA MobileIsTyped == MobileSpec => []MobileTypeOK
PROOF
<1>1. MobileInit => MobileTypeOK
  <2> SUFFICES ASSUME MobileInit PROVE MobileTypeOK
    OBVIOUS
  <2>1. registration \in -1 .. MaxTries
    BY MobileAssumption DEF MobileInit, NoRegistration
  <2>2. account \in AccountType
    BY MobileDefaults DEF MobileInit, AccountType
  <2>3. QED
    BY <2>1, <2>2, MobileDefaults DEF MobileInit, MobileTypeOK, MobileSessionRow, LookupType,
       AccountType, FailureCounts
<1>2. MobileTypeOK /\ [MobileNext]_mobileVars => MobileTypeOK'
  <2> SUFFICES ASSUME MobileTypeOK, [MobileNext]_mobileVars PROVE MobileTypeOK'
    OBVIOUS
  <2>1. /\ account \in AccountType
        /\ registration \in -1 .. MaxTries
        /\ mobile \in [SessionIds -> MobileSessionRow]
        /\ tokens \in [SessionIds -> SUBSET (1 .. MaxRotations)]
        /\ lookups \in [Refreshers -> LookupType]
    BY DEF MobileTypeOK, MobileSessionRow, LookupType, AccountType, FailureCounts
  <2>2. ASSUME account' \in AccountType,
               registration' \in -1 .. MaxTries,
               mobile' \in [SessionIds -> MobileSessionRow],
               tokens' \in [SessionIds -> SUBSET (1 .. MaxRotations)],
               lookups' \in [Refreshers -> LookupType]
        PROVE  MobileTypeOK'
    BY <2>2 DEF MobileTypeOK, SessionIds, MobileSessionRow, LookupType, AccountType, FailureCounts
  <2>3. ASSUME NEW i \in Installations, LoginSucceeds(i) \/ VerifySucceeds(i) PROVE MobileTypeOK'
    <3>1. CreateSession(i) /\ UNCHANGED lookups
      BY <2>3 DEF LoginSucceeds, VerifySucceeds
    <3>2. account' \in AccountType
      <4>1. \/ account' = [account EXCEPT !.failures = 0]
            \/ account' = [account EXCEPT !.exists = TRUE]
        BY <2>3 DEF LoginSucceeds, VerifySucceeds
      <4>2. QED
        BY <2>1, <4>1, MobileDefaults, AccountRows
    <3>3. registration' \in -1 .. MaxTries
      <4>1. registration' = registration \/ registration' = -1
        BY <2>3 DEF LoginSucceeds, VerifySucceeds, NoRegistration
      <4>2. QED
        BY <2>1, <4>1, MobileAssumption
    <3>4. QED
      BY <2>1, <2>2, <3>1, <3>2, <3>3, SessionCreatedTyped
  <2>4. CASE LoginFails \/ LockEnds
    <3>1. PICK n : n = account.failures + 1
      OBVIOUS
    <3>2. account.failures \in FailureCounts
      BY <2>1 DEF AccountType
    <3>3. n >= MaxFailures \/ n \in FailureCounts
      BY <3>1, <3>2, MobileAssumption DEF FailureCounts
    <3>4. \/ account' = [account EXCEPT !.failures = 0, !.locked = TRUE]
          \/ n \in FailureCounts /\ account' = [account EXCEPT !.failures = n]
          \/ account' = [account EXCEPT !.locked = FALSE]
      BY <2>4, <3>1, <3>3 DEF LoginFails, LockEnds
    <3>5. account' \in AccountType
      BY <2>1, <3>4, MobileDefaults, AccountRows
    <3>6. QED
      BY <2>1, <2>2, <2>4, <3>5 DEF LoginFails, LockEnds
  <2>5. CASE RequestSignup \/ VerifyFails
    <3>1. registration' \in -1 .. MaxTries
      BY <2>1, <2>5, MobileAssumption DEF RequestSignup, VerifyFails, MayTry, NoRegistration
    <3>2. QED
      BY <2>1, <2>2, <2>5, <3>1 DEF RequestSignup, VerifyFails
  <2>6. CASE PurgeExpired
    <3>1. registration' \in -1 .. MaxTries
      BY <2>1, <2>6, MobileAssumption DEF PurgeExpired, NoRegistration
    <3>2. mobile' \in [SessionIds -> MobileSessionRow]
      BY <2>1, <2>6 DEF PurgeExpired, MobileSessionRow
    <3>3. tokens' \in [SessionIds -> SUBSET (1 .. MaxRotations)]
      BY <2>1, <2>6 DEF PurgeExpired
    <3>4. QED
      BY <2>1, <2>2, <2>6, <3>1, <3>2, <3>3 DEF PurgeExpired
  <2>7. ASSUME NEW r \in Refreshers, NEW s \in SessionIds, NEW token \in 1 .. MaxRotations,
               FindToken(r, s, token)
        PROVE  MobileTypeOK'
    <3>1. s \in 0 .. MaxLogins /\ token \in 0 .. MaxRotations /\ (token \in tokens[s]) \in BOOLEAN
      BY MobileAssumption DEF SessionIds
    <3>2. lookups' \in [Refreshers -> LookupType]
      BY <2>1, <2>7, <3>1 DEF FindToken, LookupType
    <3>3. QED
      BY <2>1, <2>2, <2>7, <3>2 DEF FindToken
  <2>8. ASSUME NEW r \in Refreshers, EndLookup(r) PROVE lookups' \in [Refreshers -> LookupType]
    BY <2>1, <2>8, MobileDefaults DEF EndLookup
  <2>9. ASSUME NEW r \in Refreshers, Refresh(r) PROVE MobileTypeOK'
    <3>1. PICK s : s = lookups[r].session
      OBVIOUS
    <3>2. s \in SessionIds /\ mobile[s].issued < MaxRotations /\ mobile[s] \in MobileSessionRow
          /\ mobile' = [mobile EXCEPT ![s].issued = @ + 1]
          /\ tokens' = [tokens EXCEPT ![s] = (@ \ {lookups[r].token}) \cup {mobile[s].issued + 1}]
          /\ EndLookup(r) /\ UNCHANGED <<account, registration>>
      BY <2>1, <2>9, <3>1 DEF Refresh, Live
    <3>3. mobile[s].issued + 1 \in 0 .. MaxRotations /\ mobile[s].issued + 1 \in 1 .. MaxRotations
      BY <3>2, MobileAssumption DEF MobileSessionRow
    <3>4. PICK n : n = mobile[s].issued + 1
      OBVIOUS
    <3>5. mobile' \in [SessionIds -> MobileSessionRow]
      <4>1. mobile' = [mobile EXCEPT ![s] = [mobile[s] EXCEPT !.issued = n]]
        BY <3>2, <3>4
      <4>2. [mobile[s] EXCEPT !.issued = n] \in MobileSessionRow
        BY <3>2, <3>3, <3>4 DEF MobileSessionRow
      <4>3. QED
        BY <2>1, <4>1, <4>2
    <3>6. tokens' \in [SessionIds -> SUBSET (1 .. MaxRotations)]
      BY <2>1, <3>2, <3>3
    <3>7. QED
      BY <2>1, <2>2, <2>8, <3>2, <3>5, <3>6
  <2>10. ASSUME NEW r \in Refreshers, RefreshEnds(r) PROVE MobileTypeOK'
    BY <2>1, <2>2, <2>8, <2>10 DEF RefreshEnds
  <2>11. ASSUME NEW r \in Refreshers, NEW logout \in BOOLEAN, EndSession(r, logout)
         PROVE  MobileTypeOK'
    <3>1. mobile' = RevokedIn({lookups[r].session}) /\ EndLookup(r)
          /\ UNCHANGED <<account, registration, tokens>>
      BY <2>11 DEF EndSession
    <3>2. mobile' \in [SessionIds -> MobileSessionRow]
      BY <2>1, <3>1, RevokedTyped
    <3>3. QED
      BY <2>1, <2>2, <2>8, <3>1, <3>2
  <2>12. ASSUME NEW gone, RevokeSessions(gone) PROVE MobileTypeOK'
    <3>1. mobile' \in [SessionIds -> MobileSessionRow]
      BY <2>1, <2>12, RevokedTyped DEF RevokeSessions
    <3>2. QED
      BY <2>1, <2>2, <2>12, <3>1 DEF RevokeSessions
  <2>13. ASSUME NEW s \in SessionIds, SessionExpires(s) PROVE MobileTypeOK'
    <3>1. mobile' \in [SessionIds -> MobileSessionRow]
      BY <2>1, <2>13 DEF SessionExpires, MobileSessionRow
    <3>2. QED
      BY <2>1, <2>2, <2>13, <3>1 DEF SessionExpires
  <2>14. CASE UNCHANGED mobileVars
    BY <2>1, <2>2, <2>14 DEF mobileVars
  <2>15. QED
    BY <2>3, <2>4, <2>5, <2>6, <2>7, <2>9, <2>10, <2>11, <2>12, <2>13, <2>14 DEF MobileNext
<1>3. QED
  BY <1>1, <1>2, PTL DEF MobileSpec
(***************************************************************************)
(* The connection to Deye Cloud                                            *)
(***************************************************************************)
CloudCallType ==
  [op : {"none", "connect", "select", "import", "disconnect", "poll"}, read : ConnectionType]

LEMMA NoCloudCallFits == NoConnection \in ConnectionType /\ NoCloudCall \in CloudCallType
PROOF
<1>1. 0 \in 0 .. MaxFailed
  BY CloudAssumption
<1>2. NoConnection \in ConnectionType
  BY <1>1 DEF NoConnection, ConnectionType
<1>3. QED
  BY <1>2 DEF NoCloudCall, CloudCallType

LEMMA CloudTypedInit == CloudInit => CloudTypeOK
PROOF
<1> SUFFICES ASSUME CloudInit PROVE CloudTypeOK
  OBVIOUS
<1>1. cloudCalls \in [CloudSessions -> CloudCallType]
  BY NoCloudCallFits DEF CloudInit
<1>2. QED
  BY <1>1, NoCloudCallFits DEF CloudInit, CloudTypeOK, CloudCallType

LEMMA AnswerTypes ==
  ASSUME CloudTypeOK, NEW c \in CloudSessions, NEW op, NEW new \in ConnectionType,
         Answered(c, op, new)
  PROVE  /\ connection' \in ConnectionType
         /\ cloudCalls' \in [CloudSessions -> CloudCallType]
         /\ localActive' \in BOOLEAN
PROOF
<1> DEFINE row == MergedRow(cloudCalls[c].read, new)
<1>1. /\ connection \in ConnectionType /\ cloudCalls \in [CloudSessions -> CloudCallType]
      /\ localActive \in BOOLEAN
  BY DEF CloudTypeOK, CloudCallType
<1>2. cloudCalls[c].read \in ConnectionType
  BY <1>1 DEF CloudCallType
<1>3. row \in ConnectionType
  BY <1>1, <1>2, MergedFacts
<1>4. /\ connection' \in {row, [row EXCEPT !.token = TRUE]}
      /\ cloudCalls' = [cloudCalls EXCEPT ![c] = NoCloudCall]
      /\ localActive' = localActive
  BY DEF Answered, EndCloudCall
<1> HIDE DEF row
<1>5. [row EXCEPT !.token = TRUE] \in ConnectionType
  BY <1>3 DEF ConnectionType
<1>6. QED
  BY <1>1, <1>3, <1>4, <1>5, NoCloudCallFits

LEMMA LoadTypes ==
  ASSUME CloudTypeOK, NEW c \in CloudSessions,
         NEW op \in {"connect", "select", "import", "disconnect", "poll"},
         LoadConnection(c, op)
  PROVE  CloudTypeOK'
PROOF
<1>1. [op |-> op, read |-> connection] \in CloudCallType
  BY DEF CloudTypeOK, CloudCallType
<1>2. cloudCalls' \in [CloudSessions -> CloudCallType]
  BY <1>1 DEF CloudTypeOK, LoadConnection, CloudCallType
<1>3. QED
  BY <1>2 DEF CloudTypeOK, LoadConnection, CloudCallType

LEMMA CloudPagesType ==
  ASSUME CloudTypeOK, NEW c \in CloudUsers,
         \/ Connect(c) \/ SelectStation(c) \/ DisconnectCloud(c)
         \/ \E times \in SUBSET (1 .. MaxSample) : ImportHistory(c, times)
  PROVE  CloudTypeOK'
PROOF
<1> DEFINE read == cloudCalls[c].read
<1>1. c \in CloudSessions /\ read \in ConnectionType
  BY DEF CloudTypeOK, CloudSessions
<1>2. 0 \in 0 .. MaxFailed
  BY CloudAssumption
<1>3. cloudDevice \in {"none", "active", "revoked"} /\ imported \subseteq 1 .. MaxSample
  BY DEF CloudTypeOK
<1>4. CASE Connect(c)
  <2> DEFINE new == [status |-> "pending_selection", remote |-> FALSE, account |-> TRUE,
                     token |-> TRUE, failed |-> 0, sync |-> "none"]
  <2>1. new \in ConnectionType
    BY <1>2 DEF ConnectionType
  <2>2. /\ Answered(c, "connect", new) /\ UNCHANGED imported
        /\ cloudDevice' \in {"none", "revoked"}
    BY <1>4 DEF Connect
  <2> HIDE DEF new
  <2>3. QED
    BY <1>1, <1>3, <2>1, <2>2, AnswerTypes DEF CloudTypeOK, CloudCallType
<1>5. CASE SelectStation(c)
  <2> DEFINE new == [read EXCEPT !.status = "connected", !.remote = TRUE, !.failed = 0]
  <2>1. new \in ConnectionType
    BY <1>1, <1>2 DEF ConnectionType
  <2>2. Answered(c, "select", new) /\ cloudDevice' = "active" /\ UNCHANGED imported
    BY <1>5 DEF SelectStation
  <2> HIDE DEF new, read
  <2>3. QED
    BY <1>1, <1>3, <2>1, <2>2, AnswerTypes DEF CloudTypeOK, CloudCallType
<1>6. CASE DisconnectCloud(c)
  <2> DEFINE new == Disconnected(read)
  <2>1. new \in ConnectionType
    BY <1>1 DEF ConnectionType, Disconnected
  <2>2. /\ Answered(c, "disconnect", new) /\ UNCHANGED imported
        /\ cloudDevice' \in {"none", "revoked"}
    BY <1>6 DEF DisconnectCloud
  <2> HIDE DEF new, read
  <2>3. QED
    BY <1>1, <1>3, <2>1, <2>2, AnswerTypes DEF CloudTypeOK, CloudCallType
<1>7. ASSUME NEW times \in SUBSET (1 .. MaxSample), ImportHistory(c, times)
      PROVE  CloudTypeOK'
  <2> DEFINE new == [read EXCEPT !.failed = 0, !.sync = "succeeded"]
  <2>1. new \in ConnectionType
    BY <1>1, <1>2 DEF ConnectionType
  <2>2. Answered(c, "import", new) /\ imported' = imported \cup times /\ UNCHANGED cloudDevice
    BY <1>7 DEF ImportHistory
  <2> HIDE DEF new, read
  <2>3. imported' \subseteq 1 .. MaxSample
    BY <1>3, <2>2
  <2>4. QED
    BY <1>1, <1>3, <2>1, <2>2, <2>3, AnswerTypes DEF CloudTypeOK, CloudCallType
<1>8. QED
  BY <1>4, <1>5, <1>6, <1>7

LEMMA CloudPollsType ==
  ASSUME CloudTypeOK,
         \/ PollYields \/ PollIsRefused \/ PollFindsNoService
         \/ \E time \in 1 .. MaxSample : PollSucceeds(time)
  PROVE  CloudTypeOK'
PROOF
<1>1. Poller \in CloudSessions /\ PollRead \in ConnectionType
  BY DEF CloudTypeOK, CloudSessions, PollRead
<1>z. 0 \in 0 .. MaxFailed
  BY CloudAssumption
<1>2. cloudDevice \in {"none", "active", "revoked"} /\ imported \subseteq 1 .. MaxSample
  BY DEF CloudTypeOK
<1>3. ASSUME NEW new \in ConnectionType, Polled(new), UNCHANGED cloudDevice,
             imported' \subseteq 1 .. MaxSample
      PROVE  CloudTypeOK'
  BY <1>1, <1>2, <1>3, AnswerTypes DEF CloudTypeOK, CloudCallType, Polled
<1>4. CASE PollYields
  <2>1. [PollRead EXCEPT !.sync = "skipped"] \in ConnectionType
    BY <1>1 DEF ConnectionType
  <2>2. QED
    BY <1>2, <1>3, <1>4, <2>1 DEF PollYields
<1>5. FailedPoll \in ConnectionType
  <2> DEFINE count == IF PollRead.failed < MaxFailed THEN PollRead.failed + 1
                      ELSE PollRead.failed
  <2>1. PollRead.failed \in 0 .. MaxFailed
    BY <1>1 DEF ConnectionType
  <2>2. count \in 0 .. MaxFailed
    BY <2>1, CloudAssumption
  <2>3. FailedPoll = [PollRead EXCEPT !.sync = "failed", !.failed = count]
    BY <1>1 DEF FailedPoll, ConnectionType
  <2> HIDE DEF count
  <2>4. QED
    BY <1>1, <2>2, <2>3 DEF ConnectionType
<1>6. CASE PollIsRefused
  <2>1. [FailedPoll EXCEPT !.status = "error"] \in ConnectionType
    BY <1>5 DEF ConnectionType
  <2>2. QED
    BY <1>2, <1>3, <1>6, <2>1 DEF PollIsRefused
<1>7. CASE PollFindsNoService
  BY <1>2, <1>3, <1>5, <1>7 DEF PollFindsNoService
<1>8. ASSUME NEW time \in 1 .. MaxSample, PollSucceeds(time) PROVE CloudTypeOK'
  <2>1. [PollRead EXCEPT !.sync = "succeeded", !.failed = 0] \in ConnectionType
    BY <1>1, <1>z DEF ConnectionType
  <2>2. imported' \subseteq 1 .. MaxSample
    BY <1>2, <1>8 DEF PollSucceeds
  <2>3. QED
    BY <1>3, <1>8, <2>1, <2>2 DEF PollSucceeds
<1>9. QED
  BY <1>4, <1>6, <1>7, <1>8

LEMMA CloudTypedStep == CloudTypeOK /\ [CloudNext]_cloudVars => CloudTypeOK'
PROOF
<1> SUFFICES ASSUME CloudTypeOK, [CloudNext]_cloudVars PROVE CloudTypeOK'
  OBVIOUS
<1>1. ASSUME NEW c \in CloudUsers,
             LoadToConnect(c) \/ LoadToSelect(c) \/ LoadToImport(c) \/ LoadToDisconnect(c)
      PROVE  CloudTypeOK'
  BY <1>1, LoadTypes DEF LoadToConnect, LoadToSelect, LoadToImport, LoadToDisconnect,
     CloudSessions
<1>2. CASE LoadToPoll
  BY <1>2, LoadTypes DEF LoadToPoll, CloudSessions
<1>3. ASSUME NEW c \in CloudSessions, CloudCallFails(c) PROVE CloudTypeOK'
  BY <1>3, NoCloudCallFits DEF CloudCallFails, EndCloudCall, CloudTypeOK, CloudCallType
<1>4. CASE LocalDeviceChanges \/ UNCHANGED cloudVars
  BY <1>4 DEF LocalDeviceChanges, cloudVars, CloudTypeOK
<1>5. CASE TokenLapses
  <2>1. connection' \in ConnectionType
    BY <1>5 DEF TokenLapses, CloudTypeOK, ConnectionType
  <2>2. QED
    BY <1>5, <2>1 DEF TokenLapses, CloudTypeOK
<1>6. QED
  BY <1>1, <1>2, <1>3, <1>4, <1>5, CloudPagesType, CloudPollsType DEF CloudNext

LEMMA CloudIsTyped == CloudSpec => []CloudTypeOK
PROOF
<1>1. QED
  BY CloudTypedInit, CloudTypedStep, PTL DEF CloudSpec

(***************************************************************************)
(* The link to Home Assistant through the broker                           *)
(***************************************************************************)
LinkStatus == {"none", "pending", "test_pending", "connected", "retrying", "revoked"}
Streams == 0 .. MaxConfig
ReportTimes == 0 .. LastReport
LinkType ==
  [revision : Streams, stream : Streams, enabled : BOOLEAN, publish : BOOLEAN,
   due : BOOLEAN, status : LinkStatus]
MappingType == [at : ReportTimes, value : States \cup {Blank}, available : BOOLEAN]

(* No observation is later than the last report.                           *)
MqttFits ==
  /\ link \in LinkType /\ mapping \in MappingType
  /\ mapping.at <= Clock /\ Clock <= LastReport
  /\ erasedTo \in 0 .. (LastReport + 1)
  /\ retained \in [1 .. MaxConfig -> ReportTimes]

LEMMA MqttTypeFollows == MqttInv /\ MqttFits => MqttTypeOK
PROOF
<1> SUFFICES ASSUME MqttInv, MqttFits PROVE MqttTypeOK
  OBVIOUS
<1>1. \A w \in Pollers : polls[w].step \in {"idle", "exchange", "commit"}
  BY DEF MqttInv, PollHolds, NoPoll
<1>2. QED
  BY <1>1 DEF MqttInv, MqttShape, MqttFits, MqttTypeOK, LinkType, MappingType, LinkStatus,
     Streams, ReportTimes

LEMMA MqttTypedInit == MqttInit => MqttFits
PROOF
<1> SUFFICES ASSUME MqttInit PROVE MqttFits
  OBVIOUS
<1>1. 0 \in Streams /\ 0 \in ReportTimes /\ 0 \in 0 .. (LastReport + 1) /\ 0 <= LastReport
  BY MqttAssumption DEF Streams, ReportTimes
<1>2. Clock = 0
  BY DEF MqttInit, Clock
<1>3. link \in LinkType /\ mapping \in MappingType /\ mapping.at = 0
  BY <1>1 DEF MqttInit, LinkType, LinkStatus, MappingType, Unobserved
<1>4. QED
  BY <1>1, <1>2, <1>3 DEF MqttInit, MqttFits

(* A step in which nothing is reported.                                    *)
LEMMA LinkFits ==
  ASSUME MqttInv, MqttFits, UNCHANGED <<reported, retained>>,
         link' \in LinkType, mapping' \in MappingType, mapping'.at <= Clock,
         erasedTo' \in 0 .. (LastReport + 1)
  PROVE  MqttFits'
PROOF
<1>1. Clock' = Clock
  BY DEF Clock
<1>2. QED
  BY <1>1 DEF MqttFits

LEMMA OwnerFits ==
  ASSUME MqttInv, MqttFits,
         \/ RevokeMqtt \/ InstallPackage \/ MessageAges \/ PurgeMapping \/ NextAttempt
         \/ \E publish \in BOOLEAN : ConfigureMqtt(publish)
         \/ \E rotate \in BOOLEAN : TestMqtt(rotate)
  PROVE  MqttFits'
PROOF
<1>1. /\ link \in LinkType /\ mapping \in MappingType /\ mapping.at <= Clock
      /\ erasedTo \in 0 .. (LastReport + 1)
  BY DEF MqttFits
<1>2. Clock \in Nat /\ Clock <= LastReport /\ LastReport \in Nat /\ MaxConfig \in Nat
  BY MqttAssumption, LenProperties DEF Clock, MqttFits, MqttInv, MqttShape
<1>3. Unobserved \in MappingType /\ Unobserved.at = 0 /\ 0 <= Clock
  BY <1>2 DEF Unobserved, MappingType, ReportTimes
<1>4. link.revision < MaxConfig => link.revision + 1 \in Streams
  BY <1>1, <1>2 DEF LinkType, Streams
<1>5. ASSUME NEW publish \in BOOLEAN, ConfigureMqtt(publish) PROVE MqttFits'
  <2>1. PICK next : next = link.revision + 1
    OBVIOUS
  <2>2. link' = [revision |-> next, stream |-> next, enabled |-> TRUE, publish |-> publish,
                 status |-> "pending", due |-> TRUE]
    BY <1>5, <2>1 DEF ConfigureMqtt
  <2>3. next \in Streams
    BY <1>4, <1>5, <2>1 DEF ConfigureMqtt
  <2>4. link' \in LinkType
    BY <2>2, <2>3 DEF LinkType, LinkStatus
  <2>5. QED
    BY <1>1, <1>3, <1>5, <2>4, LinkFits DEF ConfigureMqtt
<1>6. CASE RevokeMqtt
  <2>1. PICK next : next = link.revision + 1
    OBVIOUS
  <2>2. link' = [revision |-> next, stream |-> next, enabled |-> FALSE, publish |-> FALSE,
                 status |-> "revoked", due |-> FALSE]
    BY <1>6, <2>1 DEF RevokeMqtt
  <2>3. next \in Streams
    BY <1>2, <1>6, <2>1 DEF RevokeMqtt, Streams
  <2>4. link' \in LinkType
    BY <2>2, <2>3 DEF LinkType, LinkStatus
  <2>5. QED
    BY <1>1, <1>3, <1>6, <2>4, LinkFits DEF RevokeMqtt
<1>7. ASSUME NEW rotate \in BOOLEAN, TestMqtt(rotate) PROVE MqttFits'
  <2>1. PICK next : next = IF rotate THEN link.revision + 1 ELSE link.revision
    OBVIOUS
  <2>2. link' = [link EXCEPT !.revision = next, !.status = "test_pending", !.due = TRUE]
    BY <1>1, <1>7, <2>1 DEF TestMqtt, LinkType
  <2>3. next \in Streams
    BY <1>1, <1>4, <1>7, <2>1 DEF TestMqtt, LinkType
  <2>4. link' \in LinkType
    BY <1>1, <2>2, <2>3 DEF LinkType, LinkStatus
  <2>5. QED
    BY <1>1, <1>7, <2>4, LinkFits DEF TestMqtt
<1>8. CASE InstallPackage
  BY <1>1, <1>8, LinkFits DEF InstallPackage
<1>9. CASE MessageAges
  <2>1. erasedTo' \in 0 .. (LastReport + 1)
    BY <1>1, <1>2, <1>9 DEF MessageAges
  <2>2. QED
    BY <1>1, <1>9, <2>1, LinkFits DEF MessageAges
<1>10. CASE PurgeMapping
  <2>1. mapping' \in MappingType /\ mapping'.at = mapping.at
    BY <1>1, <1>10 DEF PurgeMapping, MappingType
  <2>2. QED
    BY <1>1, <1>10, <2>1, LinkFits DEF PurgeMapping
<1>11. CASE NextAttempt
  <2>1. link' \in LinkType
    BY <1>1, <1>11 DEF NextAttempt, LinkType
  <2>2. QED
    BY <1>1, <1>11, <2>1, LinkFits DEF NextAttempt
<1>12. QED
  BY <1>5, <1>6, <1>7, <1>8, <1>9, <1>10, <1>11

LEMMA SensorFits ==
  ASSUME MqttInv, MqttFits, NEW value \in States, SensorReports(value)
  PROVE  MqttFits'
PROOF
<1>1. /\ link \in LinkType /\ mapping \in MappingType /\ mapping.at <= Clock
      /\ erasedTo \in 0 .. (LastReport + 1) /\ retained \in [1 .. MaxConfig -> ReportTimes]
  BY DEF MqttFits
<1>2. Clock \in Nat /\ reported \in Seq(States) /\ LastReport \in Nat
  BY MqttAssumption, LenProperties DEF Clock, MqttInv, MqttShape
<1>3. Clock' = Clock + 1
  BY <1>2, AppendProperties DEF SensorReports, Clock
<1>4. Clock < LastReport
  BY DEF SensorReports
<1>5. Clock + 1 \in ReportTimes
  BY <1>2, <1>4 DEF ReportTimes
<1>6. retained' \in [1 .. MaxConfig -> ReportTimes]
  BY <1>1, <1>5 DEF SensorReports
<1>7. mapping.at <= Clock + 1 /\ Clock + 1 <= LastReport
  <2>1. mapping.at \in Nat
    BY DEF MqttInv, MqttShape
  <2>2. QED
    BY <1>1, <1>2, <1>4, <2>1
<1>8. QED
  BY <1>1, <1>3, <1>6, <1>7 DEF SensorReports, MqttFits

LEMMA PollFits ==
  ASSUME MqttInv, MqttFits, NEW w \in Pollers,
         BeginPoll(w) \/ Exchange(w) \/ CommitPoll(w) \/ FailPoll(w) \/ PollDies(w)
  PROVE  MqttFits'
PROOF
<1>1. /\ link \in LinkType /\ mapping \in MappingType /\ mapping.at <= Clock
      /\ erasedTo \in 0 .. (LastReport + 1)
  BY DEF MqttFits
<1>2. /\ Clock \in Nat /\ reported \in Seq(States) /\ LastReport \in Nat /\ Clock <= LastReport
      /\ DOMAIN reported = 1 .. Clock
  BY MqttAssumption, LenProperties DEF Clock, MqttInv, MqttShape, MqttFits
<1>3. CASE BeginPoll(w) \/ Exchange(w) \/ PollDies(w)
  BY <1>1, <1>3, LinkFits DEF BeginPoll, Exchange, PollDies
<1>4. CASE FailPoll(w)
  <2>1. link' \in LinkType
    BY <1>1, <1>4 DEF FailPoll, LinkType, LinkStatus
  <2>2. QED
    BY <1>1, <1>4, <2>1, LinkFits DEF FailPoll
<1>5. CASE CommitPoll(w)
  <2>1. link' \in LinkType
    BY <1>1, <1>5 DEF CommitPoll, LinkType, LinkStatus
  <2> DEFINE p == polls[w]
  <2>2. PollHolds(p) /\ p.step = "commit"
    BY <1>5 DEF CommitPoll, MqttInv, NoPoll
  <2>3. ASSUME Takes(p) PROVE Written(mapping, p) \in MappingType /\ Written(mapping, p).at <= Clock
    <3>1. mapping.at \in Nat
      BY DEF MqttInv, MqttShape
    <3>2. p.message \in 1 .. Clock
      BY <1>2, <2>2, <2>3, <3>1 DEF Takes, PollHolds
    <3>3. reported[p.message] \in States
      BY <1>2, <3>2, ElementOfSeq DEF Clock
    <3>4. PICK message, value, available :
            /\ message = p.message
            /\ value = IF reported[p.message] = p.loaded.value THEN mapping.value
                       ELSE reported[p.message]
            /\ available = IF p.loaded.available THEN mapping.available ELSE TRUE
      OBVIOUS
    <3>5. Written(mapping, p) = [at |-> message, value |-> value, available |-> available]
      BY <3>4 DEF Written
    <3>6. value \in States \cup {Blank} /\ available \in BOOLEAN
      BY <1>1, <3>3, <3>4 DEF MappingType
    <3>7. message \in ReportTimes /\ message <= Clock
      BY <1>2, <3>2, <3>4 DEF ReportTimes
    <3>8. QED
      BY <3>5, <3>6, <3>7 DEF MappingType
  <2>4. mapping' \in MappingType /\ mapping'.at <= Clock
    BY <1>1, <1>5, <2>3 DEF CommitPoll
  <2>5. QED
    BY <1>1, <1>5, <2>1, <2>4, LinkFits DEF CommitPoll
<1>6. QED
  BY <1>3, <1>4, <1>5

LEMMA MqttTypedStep == MqttInv /\ MqttFits /\ [MqttNext]_mqttVars => MqttFits'
PROOF
<1> SUFFICES ASSUME MqttInv, MqttFits, [MqttNext]_mqttVars PROVE MqttFits'
  OBVIOUS
<1>1. CASE UNCHANGED mqttVars
  BY <1>1 DEF mqttVars, MqttFits, Clock
<1>2. QED
  BY <1>1, OwnerFits, SensorFits, PollFits DEF MqttNext

LEMMA MqttIsTyped == MqttSpec => []MqttTypeOK
PROOF
<1>1. QED
  BY MqttInitInv, MqttStep, MqttTypedInit, MqttTypedStep, MqttTypeFollows, PTL DEF MqttSpec

(***************************************************************************)
(* The set-up of a station                                                 *)
(***************************************************************************)
FormOps ==
  {"none", "config", "checked", "preferences", "preset", "pair", "advanced", "setup"}
FormFits(form) == form.op \in FormOps /\ (form.op = "checked" => form.version <= MaxEdits)

(* The numbers of versions stay under their bounds.                        *)
SetupFits ==
  /\ Len(configs) <= MaxEdits /\ Len(prefs) <= MaxEdits
  /\ \A d \in Directions : Len(tariffs[d].versions) <= MaxTariffs
  /\ completed \in Dates \cup {NotYet}
  /\ \A e \in Editors : FormFits(forms[e])

LEMMA BoundedSequence ==
  ASSUME NEW S, NEW rows \in Seq(S), NEW N \in Nat, Len(rows) <= N
  PROVE  rows \in UNION {[1 .. n -> S] : n \in 0 .. N}
PROOF
<1>1. rows \in [1 .. Len(rows) -> S] /\ Len(rows) \in 0 .. N
  BY LenProperties
<1>2. QED
  BY <1>1

LEMMA SetupTypeFollows == SetupInv /\ SetupFits => SetupTypeOK
PROOF
<1> SUFFICES ASSUME SetupInv, SetupFits PROVE SetupTypeOK
  OBVIOUS
<1>1. MaxEdits \in Nat /\ MaxTariffs \in Nat
  BY SetupAssumption
<1>2. ASSUME NEW rows, Numbered(rows), Len(rows) <= MaxEdits
      PROVE  rows \in UNION {[1 .. n -> 1 .. MaxEdits] : n \in 0 .. MaxEdits}
  <2>1. Len(rows) \in Nat /\ rows \in [1 .. Len(rows) -> Nat]
    BY <1>2, LenProperties DEF Numbered
  <2>2. \A n \in 1 .. Len(rows) : rows[n] \in 1 .. MaxEdits
    BY <1>1, <1>2, <2>1 DEF Numbered
  <2>3. rows \in [1 .. Len(rows) -> 1 .. MaxEdits]
    BY <2>1, <2>2
  <2>4. Len(rows) \in 0 .. MaxEdits
    BY <1>1, <1>2, <2>1
  <2>5. QED
    BY <2>3, <2>4
<1>3. ASSUME NEW d \in Directions PROVE tariffs[d] \in Contracts
  <2> DEFINE VersionRows == UNION {[1 .. n -> TariffVersions] : n \in 0 .. MaxTariffs}
  <2>1. /\ tariffs[d] \in [kind : Kinds \cup {"none"}, versions : Seq(TariffVersions)]
        /\ Len(tariffs[d].versions) <= MaxTariffs
    BY DEF SetupInv, SetupFits
  <2>2. tariffs[d].versions \in VersionRows
    BY <1>1, <2>1, BoundedSequence
  <2>3. Contracts = [kind : Kinds \cup {"none"}, versions : VersionRows]
    BY DEF Contracts, TariffVersions
  <2> HIDE DEF VersionRows
  <2>4. QED
    BY <2>1, <2>2, <2>3
<1>4. QED
  BY <1>2, <1>3 DEF SetupInv, SetupFits, SetupTypeOK, FormFits, FormOps

LEMMA SetupTypedInit == SetupInit => SetupFits
PROOF
<1> SUFFICES ASSUME SetupInit PROVE SetupFits
  OBVIOUS
<1>1. \A e \in Editors : FormFits(forms[e])
  BY DEF SetupInit, NoForm, FormFits, FormOps
<1>2. Len(<<>>) = 0 /\ 0 <= MaxEdits /\ 0 <= MaxTariffs
  BY SetupAssumption, EmptySeq
<1>3. QED
  BY <1>1, <1>2 DEF SetupInit, SetupFits

LEMMA FormsFit ==
  ASSUME SetupInv, SetupFits, NEW e \in Editors, NEW form, FormFits(form),
         forms' = [forms EXCEPT ![e] = form]
  PROVE  \A f \in Editors : FormFits(forms[f])'
PROOF
<1>1. \A f \in Editors : forms'[f] = IF f = e THEN form ELSE forms[f]
  BY DEF SetupInv
<1>2. \A f \in Editors : FormFits(forms'[f])
  BY <1>1 DEF SetupFits
<1>3. QED
  BY <1>2 DEF FormFits

LEMMA ClosedFits ==
  ASSUME SetupInv, SetupFits, NEW e \in Editors, Closes(e)
  PROVE  \A f \in Editors : FormFits(forms[f])'
PROOF
<1>1. FormFits(NoForm) /\ forms' = [forms EXCEPT ![e] = NoForm]
  BY DEF FormFits, FormOps, NoForm, Closes
<1>2. QED
  BY <1>1, FormsFit

LEMMA FormMovesFit ==
  ASSUME SetupInv, SetupFits, NEW e \in Editors,
         \/ OpenConfig(e) \/ CheckConfig(e) \/ OpenPreferences(e) \/ RecommendPreset(e)
         \/ OpenPair(e) \/ SubmitTariff(e) \/ LoadSetup(e) \/ ActivateSetup(e) \/ Abandon(e)
  PROVE  SetupFits'
PROOF
<1>1. UNCHANGED <<configs, prefs, tariffs>> /\ completed' \in Dates \cup {NotYet}
  BY DEF OpenConfig, CheckConfig, OpenPreferences, RecommendPreset, OpenPair, SubmitTariff,
         LoadSetup, ActivateSetup, Abandon, SetupInv, SetupFits
<1>2. \A f \in Editors : FormFits(forms[f])'
  <2>1. ASSUME NEW form, form.op \in FormOps \ {"checked"}, forms' = [forms EXCEPT ![e] = form]
        PROVE  \A f \in Editors : FormFits(forms[f])'
    BY <2>1, FormsFit DEF FormFits
  <2>2. CASE CheckConfig(e)
    <3>1. PICK old : old = forms[e]
      OBVIOUS
    <3>2. old.op = "config" /\ old.seen \in Nat /\ old.seen < MaxEdits
      BY <2>2, <3>1 DEF CheckConfig, SetupInv, FormHolds
    <3>3. PICK form : form = IF old.seen = Current(configs)
                             THEN [op |-> "checked", version |-> old.seen + 1] ELSE NoForm
      OBVIOUS
    <3>4. forms' = [forms EXCEPT ![e] = form]
      BY <2>2, <3>1, <3>3 DEF CheckConfig
    <3>5. old.seen + 1 <= MaxEdits
      BY <3>2, SetupAssumption
    <3>6. FormFits(form)
      BY <3>3, <3>5 DEF FormFits, FormOps, NoForm
    <3>7. QED
      BY <3>4, <3>6, FormsFit
  <2>3. CASE OpenConfig(e)
    BY <2>1, <2>3 DEF OpenConfig, Opens, FormOps
  <2>4. CASE OpenPreferences(e)
    BY <2>1, <2>4 DEF OpenPreferences, Opens, FormOps
  <2>5. CASE RecommendPreset(e)
    BY <2>1, <2>5 DEF RecommendPreset, Opens, FormOps
  <2>6. CASE OpenPair(e)
    BY <2>1, <2>6 DEF OpenPair, Opens, FormOps
  <2>7. CASE SubmitTariff(e)
    BY <2>1, <2>7 DEF SubmitTariff, Opens, FormOps
  <2>8. CASE LoadSetup(e)
    BY <2>1, <2>8 DEF LoadSetup, Opens, FormOps
  <2>9. CASE ActivateSetup(e) \/ Abandon(e)
    BY <2>9, ClosedFits DEF ActivateSetup, Abandon
  <2>10. QED
    BY <2>2, <2>3, <2>4, <2>5, <2>6, <2>7, <2>8, <2>9
<1>3. QED
  BY <1>1, <1>2 DEF SetupFits

LEMMA RowsFit ==
  ASSUME SetupInv, SetupFits, NEW e \in Editors,
         InsertConfig(e) \/ SavePreferences(e) \/ ApplyPreset(e)
  PROVE  SetupFits'
PROOF
<1>1. Closes(e) /\ UNCHANGED <<tariffs, completed>>
  BY DEF InsertConfig, SavePreferences, ApplyPreset
<1>2. /\ Numbered(configs) /\ Current(configs) = Len(configs) /\ Len(configs) \in Nat
      /\ Len(Append(configs, Len(configs) + 1)) = Len(configs) + 1
      /\ Numbered(prefs) /\ Current(prefs) = Len(prefs) /\ Len(prefs) \in Nat
      /\ Len(Append(prefs, Len(prefs) + 1)) = Len(prefs) + 1
      /\ Len(configs) <= MaxEdits /\ Len(prefs) <= MaxEdits /\ MaxEdits \in Nat
  BY CurrentIsLength, SetupAssumption DEF SetupInv, SetupFits
<1>3. CASE InsertConfig(e)
  <2>1. PICK version : version = forms[e].version
    OBVIOUS
  <2>2. version \in 1 .. Len(configs) + 1 /\ version <= MaxEdits
    BY <1>3, <2>1 DEF InsertConfig, SetupInv, FormHolds, SetupFits, FormFits
  <2>3. CASE Taken(configs, version)
    BY <1>1, <1>2, <1>3, <2>1, <2>3, ClosedFits DEF InsertConfig, SetupFits
  <2>4. CASE ~Taken(configs, version)
    <3>1. DOMAIN configs = 1 .. Len(configs) /\ \A n \in 1 .. Len(configs) : configs[n] = n
      BY <1>2, LenProperties DEF Numbered
    <3>2. ~(version \in 1 .. Len(configs))
      BY <2>4, <3>1 DEF Taken
    <3>3. version = Len(configs) + 1
      BY <1>2, <2>2, <3>2
    <3>4. Len(configs') <= MaxEdits /\ prefs' = prefs
      BY <1>2, <1>3, <2>1, <2>2, <2>4, <3>3 DEF InsertConfig
    <3>5. QED
      BY <1>1, <1>2, <3>4, ClosedFits DEF SetupFits
  <2>5. QED
    BY <2>3, <2>4
<1>4. CASE SavePreferences(e) \/ ApplyPreset(e)
  <2>1. PICK seen : seen = forms[e].seen
    OBVIOUS
  <2>2. seen < MaxEdits /\ configs' = configs
    BY <1>4, <2>1 DEF SavePreferences, ApplyPreset
  <2>3. \/ prefs' = prefs
        \/ seen = Len(prefs) /\ prefs' = Append(prefs, Len(prefs) + 1)
    BY <1>2, <1>4, <2>1 DEF SavePreferences, ApplyPreset
  <2>4. Len(prefs') <= MaxEdits
    BY <1>2, <2>2, <2>3
  <2>5. QED
    BY <1>1, <1>2, <2>2, <2>4, ClosedFits DEF SetupFits
<1>5. QED
  BY <1>3, <1>4

LEMMA TariffsFit ==
  ASSUME SetupInv, SetupFits, NEW e \in Editors,
         \/ \E from \in Dates : SavePair(e, from)
         \/ \E d \in Directions, kind \in Kinds : AddTariff(e, d, kind)
  PROVE  SetupFits'
PROOF
<1>1. Closes(e) /\ UNCHANGED <<configs, prefs, completed>>
  BY DEF SavePair, AddTariff
<1>2. /\ \A d \in Directions : Len(tariffs[d].versions) \in Nat
      /\ \A d \in Directions : Len(tariffs[d].versions) <= MaxTariffs
      /\ MaxTariffs \in Nat
  BY LenProperties, SetupAssumption DEF SetupInv, SetupFits
<1>0. \A n \in Nat : n < MaxTariffs => n + 1 <= MaxTariffs
  BY SetupAssumption
<1>3. ASSUME \A d \in Directions : Len(tariffs'[d].versions) <= MaxTariffs PROVE SetupFits'
  BY <1>1, <1>3, ClosedFits DEF SetupFits
<1>4. ASSUME NEW from \in Dates, SavePair(e, from) PROVE SetupFits'
  <2>1. CASE tariffs' = tariffs
    BY <1>2, <1>3, <2>1
  <2>2. CASE tariffs' # tariffs
    <3>1. /\ \A d \in Directions : StartsAfterOpen(d, from) /\ Len(tariffs[d].versions) < MaxTariffs
          /\ tariffs' = [d \in Directions |-> Extended(d, "fixed", from, TRUE)]
      BY <1>4, <2>2 DEF SavePair
    <3>2. "fixed" \in Kinds /\ TRUE \in BOOLEAN
      BY DEF Kinds
    <3>3. \A d \in Directions :
            Len(Extended(d, "fixed", from, TRUE).versions) = Len(tariffs[d].versions) + 1
      BY <3>1, <3>2, ExtendedHolds
    <3>4. \A d \in Directions : tariffs'[d] = Extended(d, "fixed", from, TRUE)
      BY <3>1
    <3>5. \A d \in Directions : Len(tariffs[d].versions) + 1 <= MaxTariffs
      BY <1>2, <1>0, <3>1
    <3>6. \A d \in Directions : Len(tariffs'[d].versions) <= MaxTariffs
      BY <3>3, <3>4, <3>5
    <3>7. QED
      BY <1>3, <3>6
  <2>3. QED
    BY <2>1, <2>2
<1>5. ASSUME NEW d \in Directions, NEW kind \in Kinds, AddTariff(e, d, kind) PROVE SetupFits'
  <2>1. PICK from : from = forms[e].from
    OBVIOUS
  <2>2. from \in Dates
    BY <1>5, <2>1 DEF AddTariff, SetupInv, FormHolds
  <2>3. CASE tariffs' = tariffs
    BY <1>2, <1>3, <2>3
  <2>4. CASE tariffs' # tariffs
    <3>1. /\ StartsAfterOpen(d, from) /\ Len(tariffs[d].versions) < MaxTariffs
          /\ tariffs' = [tariffs EXCEPT ![d] = Extended(d, kind, from, FALSE)]
      BY <1>5, <2>1, <2>4 DEF AddTariff
    <3>2. Len(Extended(d, kind, from, FALSE).versions) = Len(tariffs[d].versions) + 1
      BY <2>2, <3>1, ExtendedHolds
    <3>3. \A f \in Directions :
            tariffs'[f] = IF f = d THEN Extended(d, kind, from, FALSE) ELSE tariffs[f]
      BY <3>1 DEF SetupInv
    <3>4. Len(tariffs[d].versions) + 1 <= MaxTariffs
      BY <1>0, <1>2, <3>1
    <3>5. \A f \in Directions : Len(tariffs'[f].versions) <= MaxTariffs
      BY <1>2, <3>2, <3>3, <3>4
    <3>6. QED
      BY <1>3, <3>5
  <2>5. QED
    BY <2>3, <2>4
<1>6. QED
  BY <1>4, <1>5

LEMMA SetupTypedStep == SetupInv /\ SetupFits /\ [SetupNext]_setupVars => SetupFits'
PROOF
<1> SUFFICES ASSUME SetupInv, SetupFits, [SetupNext]_setupVars PROVE SetupFits'
  OBVIOUS
<1>1. CASE CreateStation
  <2>1. Len(<<1>>) <= MaxEdits
    BY SetupAssumption
  <2>2. QED
    BY <1>1, <2>1 DEF CreateStation, SetupFits, FormFits
<1>2. CASE DatePasses \/ UNCHANGED setupVars
  BY <1>2 DEF DatePasses, setupVars, SetupFits, FormFits
<1>3. QED
  BY <1>1, <1>2, FormMovesFit, RowsFit, TariffsFit DEF SetupNext

LEMMA SetupIsTyped == SetupSpec => []SetupTypeOK
PROOF
<1>1. QED
  BY SetupInitInv, SetupStep, SetupTypedInit, SetupTypedStep, SetupTypeFollows, PTL DEF SetupSpec

(***************************************************************************)
(* Forecasts                                                               *)
(***************************************************************************)
StampedType == [issued : 1 .. MaxIssues, usable : SUBSET SourceHours, synthetic : BOOLEAN]
LoadIssueType ==
  [issued : 1 .. MaxIssues, from : 0 .. (LastPlanned + 1), aligned : BOOLEAN, trusted : BOOLEAN]
BatchesType ==
  [weather : {NotIssued} \cup StampedType, pv : {NotIssued} \cup StampedType,
   load : {NotIssued} \cup LoadIssueType]

ForecastsTyped == ForecastsTypeOK /\ batches \in BatchesType

LEMMA IssueTypes == IssueType = {NotIssued} \cup StampedType
PROOF
<1>1. [issued : {0}] = {NotIssued}
  <2>1. NotIssued \in [issued : {0}]
    BY DEF NotIssued
  <2>2. ASSUME NEW x \in [issued : {0}] PROVE x = NotIssued
    BY DEF NotIssued
  <2>3. QED
    BY <2>1, <2>2
<1>2. QED
  BY <1>1 DEF IssueType, StampedType

LEMMA AnswersTyped ==
  ASSUME NEW answer \in Answers
  PROVE  answer.usable \in SUBSET SourceHours /\ answer.synthetic \in BOOLEAN
PROOF
<1>1. LastPlanned + Intervals \in Nat /\ HourLen \in Nat /\ HourLen >= 1
  BY ForecastsAssumption
<1>2. (LastPlanned + Intervals) \div HourLen \in Nat
  BY <1>1, QuotientFacts
<1>3. 0 \in SourceHours
  BY <1>2 DEF SourceHours
<1>4. CASE answer = NoPayload
  BY <1>4 DEF NoPayload
<1>5. CASE answer = [usable |-> SourceHours, synthetic |-> TRUE]
  BY <1>5
<1>6. CASE answer \in [usable : {SourceHours, {0}}, synthetic : {FALSE}]
  <2>1. answer.usable \in {SourceHours, {0}} /\ answer.synthetic = FALSE
    BY <1>6
  <2>2. QED
    BY <1>3, <2>1
<1>7. QED
  BY <1>4, <1>5, <1>6 DEF Answers

(* The three forecasts keep the types of the batches.                      *)
LEMMA RefreshedTyped ==
  ASSUME batches \in BatchesType, NEW stamp \in 1 .. MaxIssues, NEW fetched \in Answers,
         NEW history \in Histories, NEW from \in 0 .. (LastPlanned + 1), NEW aligned \in BOOLEAN
  PROVE  Refreshed(stamp, fetched, history, from, aligned) \in BatchesType
PROOF
<1>1. ASSUME NEW b \in BatchesType PROVE Weather(b, stamp, fetched) \in BatchesType
  <2>1. PICK row : row = [issued |-> stamp, usable |-> fetched.usable,
                          synthetic |-> fetched.synthetic]
    OBVIOUS
  <2>2. row \in StampedType
    BY <2>1, AnswersTyped DEF StampedType
  <2>3. [b EXCEPT !.weather = row] \in BatchesType
    BY <2>2 DEF BatchesType
  <2>4. QED
    BY <2>1, <2>3 DEF Weather
<1>2. ASSUME NEW b \in BatchesType PROVE Production(b, stamp) \in BatchesType
  <2>1. CASE b.weather = NotIssued
    BY <2>1 DEF Production
  <2>2. CASE b.weather # NotIssued
    <3>1. b.weather \in StampedType
      BY <2>2 DEF BatchesType
    <3>2. PICK row : row = [issued |-> stamp, usable |-> b.weather.usable,
                            synthetic |-> b.weather.synthetic]
      OBVIOUS
    <3>3. row \in StampedType
      BY <3>1, <3>2 DEF StampedType
    <3>4. [b EXCEPT !.pv = row] \in BatchesType
      BY <3>3 DEF BatchesType
    <3>5. QED
      BY <3>2, <3>4 DEF Production
  <2>3. QED
    BY <2>1, <2>2
<1>3. ASSUME NEW b \in BatchesType
      PROVE  Consumption(b, stamp, history, from, aligned) \in BatchesType
  <2>1. PICK used : used = IF place.live THEN history \cap {"measured"} ELSE history
    OBVIOUS
  <2>2. PICK row : row = [issued |-> stamp, from |-> from, aligned |-> aligned,
                          trusted |-> used = {"measured"}]
    OBVIOUS
  <2>3. row \in LoadIssueType
    BY <2>2 DEF LoadIssueType
  <2>4. [b EXCEPT !.load = row] \in BatchesType
    BY <2>3 DEF BatchesType
  <2>5. Consumption(b, stamp, history, from, aligned) \in {b, [b EXCEPT !.load = row]}
    BY <2>1, <2>2 DEF Consumption
  <2>6. QED
    BY <2>4, <2>5
<1>4. QED
  BY <1>1, <1>2, <1>3 DEF Refreshed

LEMMA ForecastsTypedInit == ForecastsInit => ForecastsTyped
PROOF
<1> SUFFICES ASSUME ForecastsInit PROVE ForecastsTyped
  OBVIOUS
<1>1. 0 \in 0 .. LastPlanned /\ 0 \in 0 .. MaxIssues
  BY ForecastsAssumption
<1>2. place \in SiteStates
  BY DEF ForecastsInit, SiteStates
<1>3. batches \in BatchesType
  BY DEF ForecastsInit, BatchesType
<1>4. batches.weather \in IssueType /\ batches.pv \in IssueType
  BY IssueTypes DEF ForecastsInit
<1>5. QED
  BY <1>1, <1>2, <1>3, <1>4 DEF ForecastsInit, ForecastsTyped, ForecastsTypeOK, Answers, NoPlan

LEMMA IssuedTyped ==
  ASSUME ForecastsTyped, UNCHANGED <<interval, place>>, payload' \in Answers,
         issues' \in 0 .. MaxIssues, batches' \in BatchesType,
         published'.status \in {"none", "succeeded", "fallback", "infeasible", "solver_timeout"},
         published' # NoPlan => (published'.status = "succeeded" <=> published'.quality # <<>>)
  PROVE  ForecastsTyped'
PROOF
<1>1. batches'.weather \in IssueType /\ batches'.pv \in IssueType
  BY IssueTypes DEF BatchesType
<1>2. batches'.load = NotIssued \/ batches'.load \in LoadIssueType
  BY DEF BatchesType
<1>3. interval' \in 0 .. LastPlanned /\ place' \in SiteStates
  BY DEF ForecastsTyped, ForecastsTypeOK
<1>4. QED
  BY <1>1, <1>2, <1>3 DEF ForecastsTyped, ForecastsTypeOK, LoadIssueType

LEMMA RunTyped ==
  ASSUME ForecastsTyped, NEW answer \in Answers, NEW history \in Histories, NEW priced,
         NEW soc, NEW termination \in {"optimal", "infeasible", "solver_timeout", "error"},
         RunOptimization(answer, history, priced, soc, termination)
  PROVE  ForecastsTyped'
PROOF
<1> DEFINE stamp == issues + 1
           prepared == place.configured = "valid"
           fetched == IF prepared /\ place.located THEN Fetched(answer) ELSE payload
           b == IF prepared THEN Refreshed(stamp, fetched, history, interval + 1, TRUE)
                ELSE batches
           refusal == Refusal(b, priced, soc, termination)
<1>1. /\ payload' = fetched /\ issues' = stamp /\ batches' = b
      /\ published' = [status |-> RunStatus(refusal), soc |-> soc,
                       quality |-> IF refusal = "optimal" THEN Recorded(b, priced) ELSE <<>>]
      /\ UNCHANGED <<interval, place>> /\ issues < MaxIssues
  BY DEF RunOptimization
<1>2. fetched \in Answers
  BY DEF ForecastsTyped, ForecastsTypeOK, Fetched
<1>3. /\ issues \in 0 .. MaxIssues /\ interval \in 0 .. LastPlanned
      /\ MaxIssues \in Nat /\ LastPlanned \in Nat
  BY ForecastsAssumption DEF ForecastsTyped, ForecastsTypeOK
<1>4. stamp \in 1 .. MaxIssues /\ interval + 1 \in 0 .. (LastPlanned + 1)
  BY <1>1, <1>3
<1>5. stamp \in 0 .. MaxIssues
  BY <1>4
<1> HIDE DEF stamp, fetched
<1>6. b \in BatchesType
  BY <1>2, <1>4, RefreshedTyped DEF ForecastsTyped
<1>7. PICK r : r = refusal
  OBVIOUS
<1>8. PICK q : q = IF r = "optimal" THEN Recorded(b, priced) ELSE <<>>
  OBVIOUS
<1>9. published'.status = RunStatus(r) /\ published'.quality = q
  BY <1>1, <1>7, <1>8
<1>10. Recorded(b, priced) # <<>>
  <2>1. "pv" \in DOMAIN Recorded(b, priced)
    BY DEF Recorded
  <2>2. DOMAIN <<>> = {}
    OBVIOUS
  <2>3. QED
    BY <2>1, <2>2
<1> HIDE DEF b, refusal
<1>11. /\ RunStatus(r) \in {"none", "succeeded", "fallback", "infeasible", "solver_timeout"}
       /\ RunStatus(r) = "succeeded" <=> r = "optimal"
  BY DEF RunStatus
<1>12. published'.status = "succeeded" <=> published'.quality # <<>>
  BY <1>8, <1>9, <1>10, <1>11
<1>13. QED
  BY <1>1, <1>2, <1>5, <1>6, <1>9, <1>11, <1>12, IssuedTyped

LEMMA ForecastsTypedStep == ForecastsTyped /\ [ForecastsNext]_forecastVars => ForecastsTyped'
PROOF
<1> SUFFICES ASSUME ForecastsTyped, [ForecastsNext]_forecastVars PROVE ForecastsTyped'
  OBVIOUS
<1>1. ASSUME NEW answer \in Answers, NEW history \in Histories, RefreshForecasts(answer, history)
      PROVE  ForecastsTyped'
  <2> DEFINE stamp == issues + 1
             fetched == Fetched(answer)
             b == Refreshed(stamp, fetched, history, interval, FALSE)
  <2>1. /\ issues < MaxIssues /\ batches' = b /\ issues' = stamp
        /\ payload' = IF place.located THEN fetched ELSE payload
        /\ UNCHANGED <<interval, place, published>>
    BY <1>1 DEF RefreshForecasts
  <2>2. fetched \in Answers /\ payload \in Answers
    BY DEF ForecastsTyped, ForecastsTypeOK, Fetched
  <2>3. /\ issues \in 0 .. MaxIssues /\ interval \in 0 .. LastPlanned
        /\ MaxIssues \in Nat /\ LastPlanned \in Nat
    BY ForecastsAssumption DEF ForecastsTyped, ForecastsTypeOK
  <2>4. stamp \in 1 .. MaxIssues /\ interval \in 0 .. (LastPlanned + 1)
    BY <2>1, <2>3
  <2>5. stamp \in 0 .. MaxIssues
    BY <2>4
  <2> HIDE DEF stamp, fetched
  <2>6. b \in BatchesType
    BY <2>2, <2>4, RefreshedTyped DEF ForecastsTyped
  <2> HIDE DEF b
  <2>7. /\ published'.status \in {"none", "succeeded", "fallback", "infeasible", "solver_timeout"}
        /\ published' # NoPlan => (published'.status = "succeeded" <=> published'.quality # <<>>)
    BY <2>1 DEF ForecastsTyped, ForecastsTypeOK
  <2>8. payload' \in Answers
    BY <2>1, <2>2
  <2>9. QED
    BY <2>1, <2>5, <2>6, <2>7, <2>8, IssuedTyped
<1>2. CASE CacheExpires
  <2>1. payload' \in Answers
    BY <1>2 DEF CacheExpires, Answers
  <2>2. QED
    BY <1>2, <2>1 DEF CacheExpires, ForecastsTyped, ForecastsTypeOK
<1>3. CASE TimePasses
  <2>1. interval' \in 0 .. LastPlanned
    BY <1>3, ForecastsAssumption DEF TimePasses, ForecastsTyped, ForecastsTypeOK
  <2>2. QED
    BY <1>3, <2>1 DEF TimePasses, ForecastsTyped, ForecastsTypeOK
<1>4. CASE \E s \in SiteStates : EditSite(s)
  BY <1>4 DEF EditSite, ForecastsTyped, ForecastsTypeOK
<1>5. CASE UNCHANGED forecastVars
  BY <1>5 DEF forecastVars, ForecastsTyped, ForecastsTypeOK
<1>6. QED
  BY <1>1, <1>2, <1>3, <1>4, <1>5, RunTyped DEF ForecastsNext

LEMMA ForecastsAreTyped == ForecastsSpec => []ForecastsTypeOK
PROOF
<1>1. ForecastsTyped => ForecastsTypeOK
  BY DEF ForecastsTyped
<1>2. QED
  BY <1>1, ForecastsTypedInit, ForecastsTypedStep, PTL DEF ForecastsSpec

(***************************************************************************)
(* The inputs of an inverter                                               *)
(***************************************************************************)
SolarTyped ==
  /\ SolarTypeOK
  /\ view.step = "trackers" => view.inputs \subseteq Inputs /\ view.grouped \subseteq Inputs

LEMMA SolarTypedInit == SolarInit => SolarTyped
PROOF
<1> SUFFICES ASSUME SolarInit PROVE SolarTyped
  OBVIOUS
<1>1. 1 \in 1 .. LastMoment /\ 0 \in 0 .. (LastMoment + Ahead)
  BY SolarAssumption
<1>2. DOMAIN displayed.total = {} /\ DOMAIN displayed.compared = {}
  BY DEF SolarInit
<1>3. readings \in [Inputs -> [Moments -> {"none", "null", "known"}]]
  BY DEF SolarInit
<1>4. QED
  BY <1>1, <1>2, <1>3 DEF SolarInit, SolarTyped, SolarTypeOK, Idle

(* A stored sample stays, so a tracker's row does.                         *)
LEMMA ReportTyped ==
  ASSUME SolarTyped, NEW at \in Moments, NEW covered \in SUBSET Inputs,
         NEW items \in Items(covered), Report(at, items)
  PROVE  SolarTyped'
PROOF
<1>1. readings \in [Inputs -> [Moments -> {"none", "null", "known"}]]
  BY DEF SolarTyped, SolarTypeOK
<1>2. \A i \in DOMAIN items : items[i] \in {"known", "null"}
  BY DEF Items
<1>3. ASSUME NEW i \in Inputs
      PROVE  /\ readings'[i] \in [Moments -> {"none", "null", "known"}]
             /\ \A t \in Moments : readings[i][t] # "none" => readings'[i][t] # "none"
  <2>1. readings'[i] = IF i \in DOMAIN items /\ readings[i][at] = "none"
                       THEN [readings[i] EXCEPT ![at] = items[i]] ELSE readings[i]
    BY DEF Report
  <2>2. readings[i] \in [Moments -> {"none", "null", "known"}]
    BY <1>1
  <2>3. QED
    BY <1>2, <2>1, <2>2
<1>4. readings' \in [Inputs -> [Moments -> {"none", "null", "known"}]]
  <2>1. readings' = [i \in Inputs |-> readings'[i]]
    BY DEF Report
  <2>2. QED
    BY <1>3, <2>1
<1>5. Trackers \subseteq Trackers'
  BY <1>3 DEF Trackers, MomentsOf
<1>6. watermark' \in 0 .. (LastMoment + Ahead)
  <2>1. at \in 0 .. (LastMoment + Ahead)
    BY SolarAssumption DEF Moments
  <2>2. QED
    BY <2>1 DEF Report, NewWatermark, SolarTyped, SolarTypeOK
<1>7. UNCHANGED <<moment, grouped, view, displayed>>
  BY DEF Report
<1>8. QED
  BY <1>4, <1>5, <1>6, <1>7 DEF SolarTyped, SolarTypeOK

LEMMA SolarTypedStep == SolarTyped /\ [SolarNext]_solarVars => SolarTyped'
PROOF
<1> SUFFICES ASSUME SolarTyped, [SolarNext]_solarVars PROVE SolarTyped'
  OBVIOUS
<1>1. Trackers \subseteq Inputs
  BY DEF Trackers
<1>2. ASSUME NEW at \in Moments, NEW covered \in SUBSET Inputs \ {{}},
             NEW items \in Items(covered), Report(at, items)
      PROVE  SolarTyped'
  BY <1>2, ReportTyped
<1>3. ASSUME NEW i \in Inputs, ConfigureInput(i) PROVE SolarTyped'
  <2>1. Trackers' = Trackers /\ grouped' \subseteq Trackers
    BY <1>3 DEF ConfigureInput, Trackers, MomentsOf, SolarTyped, SolarTypeOK
  <2>2. QED
    BY <1>3, <2>1 DEF ConfigureInput, SolarTyped, SolarTypeOK
<1>4. CASE SolarTimePasses
  <2>1. moment' \in 1 .. LastMoment
    BY <1>4, SolarAssumption DEF SolarTimePasses, SolarTyped, SolarTypeOK
  <2>2. Trackers' = Trackers
    BY <1>4 DEF SolarTimePasses, Trackers, MomentsOf
  <2>3. QED
    BY <1>4, <2>1, <2>2 DEF SolarTimePasses, SolarTyped, SolarTypeOK
<1>5. CASE ReadInverter
  <2>1. Trackers' = Trackers /\ view'.step = "inverter"
    BY <1>5 DEF ReadInverter, Trackers, MomentsOf
  <2>2. QED
    BY <1>5, <2>1 DEF ReadInverter, SolarTyped, SolarTypeOK
<1>6. CASE ReadTrackers
  <2>1. /\ Trackers' = Trackers /\ view'.step = "trackers"
        /\ view'.inputs = Trackers /\ view'.grouped = grouped
    BY <1>6 DEF ReadTrackers, Trackers, MomentsOf
  <2>2. QED
    BY <1>1, <1>6, <2>1 DEF ReadTrackers, SolarTyped, SolarTypeOK
<1>7. CASE ReadSamples
  <2>1. ASSUME NEW S, S \subseteq Inputs PROVE DOMAIN Together(S) \subseteq Inputs
    <3>1. DOMAIN <<>> = {}
      OBVIOUS
    <3>2. DOMAIN Together(S) \in {S, {}}
      BY <3>1 DEF Together
    <3>3. QED
      BY <2>1, <3>2
  <2>2. view.inputs \subseteq Inputs /\ view.grouped \subseteq Inputs
    BY <1>7 DEF ReadSamples, SolarTyped
  <2>3. /\ displayed'.total = Together(view.inputs)
        /\ displayed'.compared \in {Together(view.grouped), <<>>}
    BY <1>7 DEF ReadSamples
  <2>4. DOMAIN displayed'.total \subseteq Inputs /\ DOMAIN displayed'.compared \subseteq Inputs
    <3>1. DOMAIN <<>> = {}
      OBVIOUS
    <3>2. QED
      BY <2>1, <2>2, <2>3, <3>1
  <2>5. Trackers' = Trackers /\ view'.step = "idle"
    BY <1>7 DEF ReadSamples, Trackers, MomentsOf, Idle
  <2>6. QED
    BY <1>7, <2>4, <2>5 DEF ReadSamples, SolarTyped, SolarTypeOK
<1>8. CASE UNCHANGED solarVars
  BY <1>8 DEF solarVars, SolarTyped, SolarTypeOK, Trackers, MomentsOf
<1>9. QED
  BY <1>2, <1>3, <1>4, <1>5, <1>6, <1>7, <1>8 DEF SolarNext

LEMMA SolarIsTyped == SolarSpec => []SolarTypeOK
PROOF
<1>1. SolarTyped => SolarTypeOK
  BY DEF SolarTyped
<1>2. QED
  BY <1>1, SolarTypedInit, SolarTypedStep, PTL DEF SolarSpec

(***************************************************************************)
(* The battery under plans                                                 *)
(***************************************************************************)
BatteryFits ==
  /\ battery \in 0 .. Capacity
  /\ \A t \in DOMAIN target : target[t] <= MaxCharge

LEMMA OptimizerTypeFollows == OptimizerInv /\ BatteryFits => OptimizerTypeOK
PROOF
<1> SUFFICES ASSUME OptimizerInv, BatteryFits PROVE OptimizerTypeOK
  OBVIOUS
<1>1. OptimizerShape
  BY DEF OptimizerInv
<1>2. DOMAIN target \subseteq Nat
  BY <1>1 DEF OptimizerShape
<1>3. MaxDischarge \in Nat /\ MaxCharge \in Nat
  BY OptimizerAssumption
<1>4. ASSUME NEW t \in DOMAIN target PROVE target[t] \in (-MaxDischarge) .. MaxCharge
  <2>1. target[t] \in Int /\ -target[t] <= MaxDischarge /\ target[t] <= MaxCharge
    BY <1>1 DEF OptimizerShape, BatteryFits
  <2>2. QED
    BY <1>3, <2>1
<1>5. QED
  BY <1>1, <1>2, <1>4 DEF OptimizerShape, BatteryFits, OptimizerTypeOK

LEMMA SmallerOfTwo ==
  ASSUME NEW a \in Int, NEW b \in Int
  PROVE  Min({a, b}) \in {a, b} /\ Min({a, b}) <= a /\ Min({a, b}) <= b
PROOF
<1>1. a <= b \/ b <= a
  OBVIOUS
<1>2. a <= a /\ b <= b
  OBVIOUS
<1>3. \E x \in {a, b} : \A y \in {a, b} : x <= y
  BY <1>1, <1>2
<1>4. PICK low : low = Min({a, b})
  OBVIOUS
<1>5. low \in {a, b} /\ \A y \in {a, b} : low <= y
  BY <1>3, <1>4 DEF Min
<1>6. QED
  BY <1>4, <1>5

(* A discharge takes no more than the battery has.                         *)
LEMMA BatteryLasts ==
  ASSUME OptimizerInv, BatteryFits
  PROVE  /\ Stored(Delivered(running)) \in Int
         /\ battery + Stored(Delivered(running)) >= 0
PROOF
<1>1. PICK gives, gets : gives = Delivered(running) /\ gets = Stored(gives)
  OBVIOUS
<1>2. PICK power : power = IF running \in DOMAIN target THEN target[running] ELSE 0
  OBVIOUS
<1>3. PICK can : can = battery \div DischargeCost
  OBVIOUS
<1>4. /\ battery \in Nat /\ DischargeCost \in Nat /\ DischargeCost >= 1 /\ ChargeGain \in Nat
      /\ power \in Int
  BY <1>2, OptimizerFacts DEF BatteryFits, OptimizerInv, OptimizerShape
<1>5. can \in Nat /\ DischargeCost * can <= battery
  BY <1>3, <1>4
<1>6. gives = IF power < 0 THEN -Min({-power, can}) ELSE power
  BY <1>1, <1>2, <1>3 DEF Delivered
<1>7. CASE power < 0
  <2>1. PICK low : low = Min({-power, can})
    OBVIOUS
  <2>2. low \in {-power, can} /\ low <= can
    BY <1>4, <1>5, <2>1, SmallerOfTwo
  <2>3. low \in Nat
    BY <1>4, <1>5, <1>7, <2>2
  <2>4. Most(gives, 0) = 0 /\ Most(-gives, 0) = low
    BY <1>6, <1>7, <2>1, <2>3 DEF Most
  <2>5. ChargeGain * 0 = 0 /\ DischargeCost * low \in Nat
    BY <1>4, <2>3
  <2>6. DischargeCost * low <= DischargeCost * can
    BY <1>4, <1>5, <2>2, <2>3
  <2>7. gets = 0 - DischargeCost * low
    BY <1>1, <2>4, <2>5 DEF Stored
  <2>8. PICK down, all : down = DischargeCost * low /\ all = DischargeCost * can
    OBVIOUS
  <2>9. all \in Nat
    BY <1>4, <1>5, <2>8
  <2>10. gets = 0 - down /\ down \in Nat /\ down <= all /\ all <= battery
    BY <1>5, <2>5, <2>6, <2>7, <2>8
  <2>11. gets \in Int /\ battery + gets >= 0
    BY <1>4, <2>9, <2>10
  <2>12. QED
    BY <1>1, <2>11
<1>8. CASE ~(power < 0)
  <2>1. gives = power /\ power \in Nat
    BY <1>4, <1>6, <1>8
  <2>2. Most(gives, 0) = power /\ Most(-gives, 0) = 0
    BY <2>1 DEF Most
  <2>3. ChargeGain * power \in Nat /\ DischargeCost * 0 = 0
    BY <1>4, <2>1
  <2>4. gets = ChargeGain * power - 0
    BY <1>1, <2>2, <2>3 DEF Stored
  <2>5. gets \in Nat
    BY <2>3, <2>4
  <2>6. QED
    BY <1>1, <1>4, <2>5
<1>9. QED
  BY <1>7, <1>8

LEMMA PlanFitsBattery ==
  ASSUME OptimizerInv, BatteryFits, NEW power, \A t \in Planned : power[t] <= MaxCharge,
         Replan(power)
  PROVE  BatteryFits'
PROOF
<1>1. /\ target' = [t \in Planned \cup (DOMAIN target \cap {running}) |->
                      IF t = running THEN target[t] ELSE power[t]]
      /\ battery' = battery
  BY DEF Replan
<1>2. \A t \in Planned : t # running
  <2>1. \A t \in Planned : t > running
    BY PlannedFacts DEF OptimizerInv
  <2>2. running \in Int
    BY DEF OptimizerInv, OptimizerShape
  <2>3. QED
    BY <2>1, <2>2
<1>3. ASSUME NEW t \in DOMAIN target' PROVE target'[t] <= MaxCharge
  <2>1. CASE t = running
    <3>1. t \in DOMAIN target /\ target'[t] = target[t]
      BY <1>1, <1>2, <1>3, <2>1
    <3>2. QED
      BY <3>1 DEF BatteryFits
  <2>2. CASE t # running
    <3>1. t \in Planned /\ target'[t] = power[t]
      BY <1>1, <1>3, <2>2
    <3>2. QED
      BY <3>1
  <2>3. QED
    BY <2>1, <2>2
<1>4. QED
  BY <1>1, <1>3 DEF BatteryFits

LEMMA OptimizerTypedStep ==
  OptimizerInv /\ BatteryFits /\ [OptimizerNext]_optimizerVars => BatteryFits'
PROOF
<1> SUFFICES ASSUME OptimizerInv, BatteryFits, [OptimizerNext]_optimizerVars PROVE BatteryFits'
  OBVIOUS
<1>1. MaxCharge \in Nat /\ MaxDischarge \in Nat /\ Capacity \in Nat
  BY OptimizerAssumption
<1>2. CASE Optimize
  <2>1. PICK power \in Solutions : Replan(power)
    BY <1>2 DEF Optimize
  <2>2. \A p \in Powers : p <= MaxCharge
    BY <1>1 DEF Powers
  <2>3. \A t \in Planned : power[t] <= MaxCharge
    BY <2>2 DEF Solutions
  <2>4. QED
    BY <2>1, <2>3, PlanFitsBattery
<1>3. CASE FallBack
  <2>1. PICK power : power = [t \in Planned |-> 0]
    OBVIOUS
  <2>2. \A t \in Planned : power[t] <= MaxCharge
    BY <1>1, <2>1
  <2>3. Replan(power)
    BY <1>3, <2>1 DEF FallBack
  <2>4. QED
    BY <2>2, <2>3, PlanFitsBattery
<1>4. CASE IntervalEnds
  <2>1. PICK sum : sum = battery + Stored(Delivered(running))
    OBVIOUS
  <2>2. sum \in Nat
    BY <2>1, BatteryLasts DEF BatteryFits
  <2>3. PICK low : low = Min({Capacity, sum})
    OBVIOUS
  <2>4. low \in {Capacity, sum} /\ low <= Capacity
    BY <1>1, <2>2, <2>3, SmallerOfTwo
  <2>5. low \in 0 .. Capacity
    BY <1>1, <2>2, <2>4
  <2>6. battery' = low /\ target' = target
    BY <1>4, <2>1, <2>3 DEF IntervalEnds
  <2>7. QED
    BY <2>5, <2>6 DEF BatteryFits
<1>5. CASE Aggregate \/ UNCHANGED optimizerVars
  BY <1>5 DEF Aggregate, optimizerVars, BatteryFits
<1>6. QED
  BY <1>2, <1>3, <1>4, <1>5 DEF OptimizerNext

LEMMA OptimizerIsTyped == OptimizerSpec => []OptimizerTypeOK
PROOF
<1>1. OptimizerInit => OptimizerInv
  BY OptimizerStarts
<1>2. OptimizerInit => BatteryFits
  BY DEF OptimizerInit, BatteryFits
<1>3. QED
  BY <1>1, <1>2, OptimizerStep, OptimizerTypedStep, OptimizerTypeFollows, PTL
     DEF OptimizerSpec

(***************************************************************************)
(* Jobs, the bridge and the members                                        *)
(***************************************************************************)
LEMMA JobsAreTyped == JobsSpec => []JobsTypeOK
PROOF
<1>1. JobsInv => JobsTypeOK
  BY DEF JobsInv, JobsTyped, RowsTyped, RequestsTyped, TriggerType, WorkersTyped, WorkerType,
     JobsTypeOK
<1>2. JobsInv /\ [JobsNext]_jobVars => JobsInv'
  BY StaysTyped, ClaimsKept DEF JobsInv, ClaimsHold
<1>3. QED
  BY JobsInitHolds, <1>1, <1>2, PTL DEF JobsSpec

LEMMA BridgeIsTyped == BridgeSpec => []BridgeTypeOK
PROOF
<1>1. BridgeInv => BridgeTypeOK
  BY DEF BridgeInv
<1>2. QED
  BY BridgeInitFits, BridgeStepFits, <1>1, PTL DEF BridgeSpec

LEMMA ChargingIsTyped == EvSpec => []EvTypeOK
PROOF
<1>1. QED
  BY EvInitType, EvNextType, PTL DEF EvSpec

(***************************************************************************)
(* The components together                                                 *)
(*                                                                         *)
(* A behaviour of the services is one of each component: a component moves *)
(* under its own focus and stands still under every other.                 *)
(***************************************************************************)

LEMMA IdentityMoves == ServicesSpec => IdentitySpec
PROOF
<1>1. ServicesInit => IdentityInit
  BY DEF ServicesInit
<1>2. [ServicesNext]_servicesVars => [IdentityNext]_identityVars
  BY DEF ServicesNext, OthersStand, servicesVars
<1>3. QED
  BY <1>1, <1>2, PTL DEF ServicesSpec, IdentitySpec

LEMMA ConfigMoves == ServicesSpec => ConfigSpec
PROOF
<1>1. ServicesInit => ConfigInit
  BY DEF ServicesInit
<1>2. [ServicesNext]_servicesVars => [ConfigNext]_configVars
  BY DEF ServicesNext, OthersStand, servicesVars
<1>3. QED
  BY <1>1, <1>2, PTL DEF ServicesSpec, ConfigSpec

LEMMA EvMoves == ServicesSpec => EvSpec
PROOF
<1>1. ServicesInit => EvInit
  BY DEF ServicesInit
<1>2. [ServicesNext]_servicesVars => [EvNext]_evVars
  BY DEF ServicesNext, OthersStand, servicesVars
<1>3. QED
  BY <1>1, <1>2, PTL DEF ServicesSpec, EvSpec

LEMMA HealthMoves == ServicesSpec => HealthSpec
PROOF
<1>1. ServicesInit => HealthInit
  BY DEF ServicesInit
<1>2. [ServicesNext]_servicesVars => [HealthNext]_healthVars
  BY DEF ServicesNext, OthersStand, servicesVars
<1>3. QED
  BY <1>1, <1>2, PTL DEF ServicesSpec, HealthSpec

LEMMA NotificationMoves == ServicesSpec => NotificationSpec
PROOF
<1>1. ServicesInit => NotificationInit
  BY DEF ServicesInit
<1>2. [ServicesNext]_servicesVars => [NotificationNext]_notificationVars
  BY DEF ServicesNext, OthersStand, servicesVars
<1>3. QED
  BY <1>1, <1>2, PTL DEF ServicesSpec, NotificationSpec

LEMMA JobsMoves == ServicesSpec => JobsSpec
PROOF
<1>1. ServicesInit => JobsInit
  BY DEF ServicesInit
<1>2. [ServicesNext]_servicesVars => [JobsNext]_jobVars
  BY DEF ServicesNext, OthersStand, servicesVars
<1>3. QED
  BY <1>1, <1>2, PTL DEF ServicesSpec, JobsSpec

LEMMA MarketMoves == ServicesSpec => MarketSpec
PROOF
<1>1. ServicesInit => MarketInit
  BY DEF ServicesInit
<1>2. [ServicesNext]_servicesVars => [MarketNext]_marketVars
  BY DEF ServicesNext, OthersStand, servicesVars
<1>3. QED
  BY <1>1, <1>2, PTL DEF ServicesSpec, MarketSpec

LEMMA TelemetryMoves == ServicesSpec => TelemetrySpec
PROOF
<1>1. ServicesInit => TelemetryInit
  BY DEF ServicesInit
<1>2. [ServicesNext]_servicesVars => [TelemetryNext]_telemetryVars
  BY DEF ServicesNext, OthersStand, servicesVars
<1>3. QED
  BY <1>1, <1>2, PTL DEF ServicesSpec, TelemetrySpec

LEMMA AccountsMoves == ServicesSpec => AccountsSpec
PROOF
<1>1. ServicesInit => AccountsInit
  BY DEF ServicesInit
<1>2. [ServicesNext]_servicesVars => [AccountsNext]_accountVars
  BY DEF ServicesNext, OthersStand, servicesVars
<1>3. QED
  BY <1>1, <1>2, PTL DEF ServicesSpec, AccountsSpec

LEMMA MobileMoves == ServicesSpec => MobileSpec
PROOF
<1>1. ServicesInit => MobileInit
  BY DEF ServicesInit
<1>2. [ServicesNext]_servicesVars => [MobileNext]_mobileVars
  BY DEF ServicesNext, OthersStand, servicesVars
<1>3. QED
  BY <1>1, <1>2, PTL DEF ServicesSpec, MobileSpec

LEMMA BridgeMoves == ServicesSpec => BridgeSpec
PROOF
<1>1. ServicesInit => BridgeInit
  BY DEF ServicesInit
<1>2. [ServicesNext]_servicesVars => [BridgeNext]_bridgeVars
  BY DEF ServicesNext, OthersStand, servicesVars
<1>3. QED
  BY <1>1, <1>2, PTL DEF ServicesSpec, BridgeSpec

LEMMA CloudMoves == ServicesSpec => CloudSpec
PROOF
<1>1. ServicesInit => CloudInit
  BY DEF ServicesInit
<1>2. [ServicesNext]_servicesVars => [CloudNext]_cloudVars
  BY DEF ServicesNext, OthersStand, servicesVars
<1>3. QED
  BY <1>1, <1>2, PTL DEF ServicesSpec, CloudSpec

LEMMA SetupMoves == ServicesSpec => SetupSpec
PROOF
<1>1. ServicesInit => SetupInit
  BY DEF ServicesInit
<1>2. [ServicesNext]_servicesVars => [SetupNext]_setupVars
  BY DEF ServicesNext, OthersStand, servicesVars
<1>3. QED
  BY <1>1, <1>2, PTL DEF ServicesSpec, SetupSpec

LEMMA ForecastsMoves == ServicesSpec => ForecastsSpec
PROOF
<1>1. ServicesInit => ForecastsInit
  BY DEF ServicesInit
<1>2. [ServicesNext]_servicesVars => [ForecastsNext]_forecastVars
  BY DEF ServicesNext, OthersStand, servicesVars
<1>3. QED
  BY <1>1, <1>2, PTL DEF ServicesSpec, ForecastsSpec

LEMMA OptimizerMoves == ServicesSpec => OptimizerSpec
PROOF
<1>1. ServicesInit => OptimizerInit
  BY DEF ServicesInit
<1>2. [ServicesNext]_servicesVars => [OptimizerNext]_optimizerVars
  BY DEF ServicesNext, OthersStand, servicesVars
<1>3. QED
  BY <1>1, <1>2, PTL DEF ServicesSpec, OptimizerSpec

LEMMA SolarMoves == ServicesSpec => SolarSpec
PROOF
<1>1. ServicesInit => SolarInit
  BY DEF ServicesInit
<1>2. [ServicesNext]_servicesVars => [SolarNext]_solarVars
  BY DEF ServicesNext, OthersStand, servicesVars
<1>3. QED
  BY <1>1, <1>2, PTL DEF ServicesSpec, SolarSpec

LEMMA MqttMoves == ServicesSpec => MqttSpec
PROOF
<1>1. ServicesInit => MqttInit
  BY DEF ServicesInit
<1>2. [ServicesNext]_servicesVars => [MqttNext]_mqttVars
  BY DEF ServicesNext, OthersStand, servicesVars
<1>3. QED
  BY <1>1, <1>2, PTL DEF ServicesSpec, MqttSpec

Focuses ==
  {"identity", "config", "ev", "health", "notifications", "jobs", "market", "telemetry",
   "accounts", "mobile", "bridge", "cloud", "setup", "forecasts", "optimizer", "solar",
   "mqtt"}

LEMMA FocusStays == ServicesSpec => [](focus \in Focuses)
PROOF
<1>1. ServicesInit => focus \in Focuses
  BY DEF ServicesInit, Focuses
<1>2. focus \in Focuses /\ [ServicesNext]_servicesVars => (focus \in Focuses)'
  <2>1. [ServicesNext]_servicesVars => focus' = focus
    BY DEF ServicesNext, OthersStand, servicesVars
  <2>2. QED
    BY <2>1
<1>3. QED
  BY <1>1, <1>2, PTL DEF ServicesSpec

(* Every variable of every component has its type in every state that any  *)
(* number of users, devices, workers and messages can bring it to: the     *)
(* columns and session data of the 17 components stay in the sets that     *)
(* their handlers were written for.                                        *)
THEOREM ServicesTyped == ServicesSpec => []ServicesTypeOK
PROOF
<1>1. /\ focus \in Focuses
      /\ IdentityTypeOK
      /\ ConfigTypeOK
      /\ EvTypeOK
      /\ HealthTypeOK
      /\ NotificationTypeOK
      /\ JobsTypeOK
      /\ MarketTypeOK
      /\ TelemetryTypeOK
      /\ AccountsTypeOK
      /\ MobileTypeOK
      /\ BridgeTypeOK
      /\ CloudTypeOK
      /\ SetupTypeOK
      /\ ForecastsTypeOK
      /\ OptimizerTypeOK
      /\ SolarTypeOK
      /\ MqttTypeOK
      => ServicesTypeOK
  BY DEF Focuses, ServicesTypeOK
<1>2. QED
  BY <1>1, FocusStays, IdentityMoves, IdentityTyped, ConfigMoves, ConfigIsTypedAlways,
     EvMoves, ChargingIsTyped, HealthMoves, HealthIsTyped, NotificationMoves,
     NotificationIsTyped, JobsMoves, JobsAreTyped, MarketMoves, MarketIsTyped,
     TelemetryMoves, TelemetryIsTyped, AccountsMoves, AccountsTypeCorrect, MobileMoves,
     MobileIsTyped, BridgeMoves, BridgeIsTyped, CloudMoves, CloudIsTyped, SetupMoves,
     SetupIsTyped, ForecastsMoves, ForecastsAreTyped, OptimizerMoves, OptimizerIsTyped,
     SolarMoves, SolarIsTyped, MqttMoves, MqttIsTyped, PTL
=============================================================================
