---------------------------- MODULE Devices_proofs ----------------------------
(***************************************************************************)
(* Proofs about the components that keep what a device says of itself: its *)
(* identity, its settings, its charging sessions, its connection to a      *)
(* manufacturer's cloud, its sensors in Home Assistant.  The components    *)
(* share no state; each section is about one of them.                      *)
(***************************************************************************)
EXTENDS EvSessions, InverterConfig, DeviceIdentity, DeyeCloud, HomeAssistantMqtt,
        HomeAssistantBridge, TLAPS

(***************************************************************************)
(* Charging sessions                                                       *)
(***************************************************************************)
SessionType == [start : Days, end : 0 .. MaxDay, vehicle : Vehicles \cup {NoVehicle}]
ObservationType == [at : Days, session : 0 .. MaxDay, soc : BOOLEAN]

LEMMA EvFacts ==
  /\ Days \subseteq 0 .. MaxDay /\ Never \in 0 .. MaxDay /\ Never \notin Days
  /\ 0 .. MaxDay \subseteq Int
PROOF BY EvAssumption DEF Days, Never

(* What an applied observation does to the sessions.                       *)
LEMMA UpdatedFacts ==
  ASSUME NEW s \in SessionType, NEW at \in Days, NEW state,
         NEW vehicle \in Vehicles \cup {NoVehicle}
  PROVE  LET u == Updated(s, at, state, vehicle) IN
         /\ u \in SessionType /\ u.start = s.start
         /\ u.end = IF state \in Closing THEN at ELSE s.end
         /\ u.vehicle = IF vehicle = NoVehicle THEN s.vehicle ELSE vehicle
PROOF BY EvFacts DEF Updated, SessionType, EndsSession

LEMMA OwnFacts ==
  ASSUME EvTypeOK, NEW at \in Days, NEW state, NEW vehicle \in Vehicles \cup {NoVehicle}
  PROVE  LET own == SessionOf(at, state, vehicle) IN
         /\ own \subseteq SessionType
         /\ \A s \in own : s.end = Never
         /\ OpenSessions \subseteq own
         /\ \A s \in own \ OpenSessions :
              /\ s.start = at /\ s.vehicle = vehicle /\ OpenSessions = {}
              /\ state \in Occupied
         /\ state \in Occupied => own # {}
PROOF
<1> DEFINE new == [start |-> at, end |-> Never, vehicle |-> vehicle]
<1>1. /\ new \in SessionType /\ new.end = Never /\ new.start = at /\ new.vehicle = vehicle
      /\ OpenSessions \subseteq SessionType /\ \A s \in OpenSessions : s.end = Never
  BY EvFacts DEF OpenSessions, EvTypeOK, SessionType
<1>2. SessionOf(at, state, vehicle) =
        IF OpenSessions # {} THEN OpenSessions ELSE IF state \in Occupied THEN {new} ELSE {}
  BY DEF SessionOf
<1> HIDE DEF new
<1>3. QED
  BY <1>1, <1>2

LEMMA EvInitType == EvInit => EvTypeOK
PROOF BY EvFacts, EvAssumption DEF EvInit, EvTypeOK, NotLoaded, Transitions, Days

LEMMA EvApplyType ==
  ASSUME EvTypeOK, NEW at \in Days, NEW state \in DOMAIN Transitions,
         NEW vehicle \in Vehicles \cup {NoVehicle}, NEW soc \in BOOLEAN,
         ApplyObservation(at, state, vehicle, soc)
  PROVE  EvTypeOK'
PROOF
<1> DEFINE own == SessionOf(at, state, vehicle)
           new == {Updated(s, at, state, vehicle) : s \in own}
           one == [at |-> at, session |-> Never, soc |-> soc]
           many == {[at |-> at, session |-> s.start, soc |-> soc] : s \in own}
<1>1. own \subseteq SessionType
  BY OwnFacts
<1>2. /\ sessions' = (sessions \ own) \cup new
      /\ observations' = observations \cup IF own = {} THEN {one} ELSE many
      /\ connector' = [state |-> state, last |-> at]
      /\ UNCHANGED <<requirements, evse, today, privacy>>
  BY DEF ApplyObservation
<1>3. one \in ObservationType
  BY EvFacts DEF ObservationType
<1>4. many \subseteq ObservationType
  BY <1>1, EvFacts DEF ObservationType, SessionType
<1> HIDE DEF own, one, many
<1>5. new \subseteq SessionType
  BY <1>1, UpdatedFacts
<1> HIDE DEF new
<1>6. sessions' \subseteq SessionType /\ observations' \subseteq ObservationType
  BY <1>2, <1>3, <1>4, <1>5 DEF EvTypeOK, SessionType, ObservationType
<1>7. connector' \in [state : DOMAIN Transitions, last : 0 .. MaxDay]
  BY <1>2, EvFacts
<1>8. QED
  BY <1>2, <1>6, <1>7 DEF EvTypeOK, SessionType, ObservationType

LEMMA PrivacyFacts ==
  ASSUME EvTypeOK
  PROVE  /\ WithoutVehicles(sessions) \subseteq SessionType
         /\ \A s \in WithoutVehicles(sessions) :
              s.vehicle = NoVehicle /\ \E t \in sessions : s.start = t.start /\ s.end = t.end
         /\ \A t \in sessions : \E s \in WithoutVehicles(sessions) :
              s.start = t.start /\ s.end = t.end
         /\ {[o EXCEPT !.soc = FALSE] : o \in observations} \subseteq ObservationType
         /\ \A o \in {[o EXCEPT !.soc = FALSE] : o \in observations} : ~o.soc
PROOF
<1>1. \A s \in sessions :
        LET n == [s EXCEPT !.vehicle = NoVehicle] IN
        n \in SessionType /\ n.vehicle = NoVehicle /\ n.start = s.start /\ n.end = s.end
  BY DEF EvTypeOK, SessionType
<1>2. \A o \in observations :
        LET n == [o EXCEPT !.soc = FALSE] IN n \in ObservationType /\ ~n.soc
  BY DEF EvTypeOK, ObservationType
<1>3. QED
  BY <1>1, <1>2 DEF WithoutVehicles

LEMMA EvNextType == EvTypeOK /\ [EvNext]_evVars => EvTypeOK'
PROOF
<1> SUFFICES ASSUME EvTypeOK, [EvNext]_evVars PROVE EvTypeOK'
  OBVIOUS
<1>1. ASSUME NEW at \in Days, NEW state \in DOMAIN Transitions \ {"unknown"},
             NEW vehicle \in Vehicles \cup {NoVehicle}, NEW soc \in BOOLEAN,
             ApplyObservation(at, state, vehicle, soc)
      PROVE  EvTypeOK'
  BY <1>1, EvApplyType
<1>2. ASSUME NEW at \in Days, NEW soc \in BOOLEAN, RetainLate(at, soc) PROVE EvTypeOK'
  <2>1. [at |-> at, session |-> Never, soc |-> soc] \in ObservationType
    BY EvFacts DEF ObservationType
  <2>2. QED
    BY <1>2, <2>1 DEF RetainLate, EvTypeOK, ObservationType
<1>3. ASSUME NEW v \in Vehicles, CreateRequirement(v) PROVE EvTypeOK'
  BY <1>3 DEF CreateRequirement, EvTypeOK
<1>4. ASSUME NEW c \in PrivacyCalls, LoadPrivacy(c) PROVE EvTypeOK'
  BY <1>4 DEF LoadPrivacy, EvTypeOK
<1>5. ASSUME NEW c \in PrivacyCalls, NEW consent \in BOOLEAN, NEW r \in Retentions,
             UpdatePrivacy(c, consent, r)
      PROVE  EvTypeOK'
  <2>1. /\ sessions' = sessions \/ sessions' = WithoutVehicles(sessions)
        /\ \/ observations' = observations
           \/ observations' = {[o EXCEPT !.soc = FALSE] : o \in observations}
        /\ requirements' = requirements \/ requirements' = {}
        /\ UNCHANGED <<connector, today>>
    BY <1>5 DEF UpdatePrivacy
  <2>2. sessions' \subseteq SessionType /\ observations' \subseteq ObservationType
    BY <2>1, PrivacyFacts DEF EvTypeOK, SessionType, ObservationType
  <2>3. evse' \in [consent : BOOLEAN, retention : Retentions]
    BY <1>5 DEF UpdatePrivacy, EvTypeOK
  <2>4. privacy' \in [PrivacyCalls -> [loaded : BOOLEAN, consent : BOOLEAN]]
    BY <1>5 DEF UpdatePrivacy, EvTypeOK, NotLoaded
  <2>5. QED
    BY <2>1, <2>2, <2>3, <2>4 DEF EvTypeOK, SessionType, ObservationType
<1>6. CASE EvRetention
  BY <1>6 DEF EvRetention, EvTypeOK
<1>7. CASE DayPasses
  BY <1>7, EvAssumption DEF DayPasses, EvTypeOK, Days
<1>8. CASE UNCHANGED evVars
  BY <1>8 DEF evVars, EvTypeOK
<1>9. QED
  BY <1>1, <1>2, <1>3, <1>4, <1>5, <1>6, <1>7, <1>8 DEF EvNext

LEMMA VehicleNext ==
  ASSUME EvTypeOK, VehicleDataNeedsConsent, [EvNext]_evVars
  PROVE  VehicleDataNeedsConsent'
PROOF
<1>1. ASSUME NEW at \in Days, NEW state \in DOMAIN Transitions,
             NEW vehicle \in Vehicles \cup {NoVehicle}, NEW soc \in BOOLEAN,
             ApplyObservation(at, state, vehicle, soc)
      PROVE  VehicleDataNeedsConsent'
  <2> DEFINE own == SessionOf(at, state, vehicle)
  <2>1. /\ own \subseteq SessionType
        /\ \A s \in own : s \in sessions \/ s.vehicle = vehicle
    BY OwnFacts DEF OpenSessions
  <2>2. /\ sessions' = (sessions \ own) \cup {Updated(s, at, state, vehicle) : s \in own}
        /\ \A o \in observations' : o \in observations \/ o.soc = soc
        /\ UNCHANGED <<requirements, evse>>
    BY <1>1 DEF ApplyObservation
  <2> HIDE DEF own
  <2>3. SUFFICES ASSUME ~evse.consent
                 PROVE  /\ \A s \in sessions' : s.vehicle = NoVehicle
                        /\ \A o \in observations' : ~o.soc
                        /\ requirements' = {}
    BY <2>2 DEF VehicleDataNeedsConsent
  <2>4. vehicle = NoVehicle /\ ~soc
    BY <1>1, <2>3 DEF ApplyObservation, VehicleDataAllowed
  <2>5. \A s \in own : Updated(s, at, state, vehicle).vehicle = NoVehicle
    BY <2>1, <2>3, <2>4, UpdatedFacts DEF VehicleDataNeedsConsent
  <2>6. QED
    BY <2>2, <2>3, <2>4, <2>5 DEF VehicleDataNeedsConsent
<1>2. ASSUME NEW at \in Days, NEW soc \in BOOLEAN, RetainLate(at, soc)
      PROVE  VehicleDataNeedsConsent'
  BY <1>2 DEF RetainLate, VehicleDataNeedsConsent
<1>3. ASSUME NEW v \in Vehicles, CreateRequirement(v) PROVE VehicleDataNeedsConsent'
  BY <1>3 DEF CreateRequirement, VehicleDataNeedsConsent
<1>4. ASSUME NEW c \in PrivacyCalls, NEW consent \in BOOLEAN, NEW r \in Retentions,
             UpdatePrivacy(c, consent, r)
      PROVE  VehicleDataNeedsConsent'
  <2>1. CASE consent
    <3>1. UNCHANGED <<sessions, observations, requirements>>
      BY <1>4, <2>1 DEF UpdatePrivacy
    <3>2. evse'.consent = IF consent = privacy[c].consent THEN evse.consent ELSE consent
      BY <1>4 DEF UpdatePrivacy
    <3>3. evse'.consent = evse.consent \/ evse'.consent
      BY <2>1, <3>2
    <3>4. QED
      BY <3>1, <3>3 DEF VehicleDataNeedsConsent
  <2>2. CASE ~consent
    <3>1. /\ sessions' = WithoutVehicles(sessions)
          /\ observations' = {[o EXCEPT !.soc = FALSE] : o \in observations}
          /\ requirements' = {}
      BY <1>4, <2>2 DEF UpdatePrivacy
    <3>2. QED
      BY <3>1, PrivacyFacts DEF VehicleDataNeedsConsent
  <2>3. QED
    BY <2>1, <2>2
<1>5. CASE EvRetention
  BY <1>5 DEF EvRetention, VehicleDataNeedsConsent
<1>6. ASSUME UNCHANGED <<sessions, observations, requirements, evse>>
      PROVE  VehicleDataNeedsConsent'
  BY <1>6 DEF VehicleDataNeedsConsent
<1>7. QED
  BY <1>1, <1>2, <1>3, <1>4, <1>5, <1>6 DEF EvNext, LoadPrivacy, DayPasses, evVars

(* However the requests that change the consent overlap with observations  *)
(* and with each other, no row says which vehicle charged while consent is *)
(* withdrawn (update_privacy, ingest_observation, EV retention).           *)
THEOREM VehiclesNeedConsent == EvSpec => []VehicleDataNeedsConsent
PROOF
<1>1. EvInit => VehicleDataNeedsConsent
  BY DEF EvInit, VehicleDataNeedsConsent
<1>2. EvTypeOK /\ VehicleDataNeedsConsent /\ [EvNext]_evVars => VehicleDataNeedsConsent'
  BY VehicleNext
<1>3. QED
  BY EvInitType, EvNextType, <1>1, <1>2, PTL DEF EvSpec

(* SessionsFollowConnector is inductive with one more fact: no session     *)
(* begins or ends after the last observation that was applied.             *)
ConnectorInv ==
  /\ EvTypeOK
  /\ SessionsFollowConnector
  /\ \A s \in sessions : s.start <= connector.last /\ s.end <= connector.last

LEMMA ConnectorApply ==
  ASSUME ConnectorInv, NEW at \in Days, NEW state \in DOMAIN Transitions \ {"unknown"},
         NEW vehicle \in Vehicles \cup {NoVehicle}, NEW soc \in BOOLEAN,
         ApplyObservation(at, state, vehicle, soc)
  PROVE  ConnectorInv'
PROOF
<1> DEFINE own == SessionOf(at, state, vehicle)
           new == {Updated(s, at, state, vehicle) : s \in own}
<1>1. /\ own \subseteq SessionType
      /\ \A s \in own : s.end = Never
      /\ OpenSessions \subseteq own
      /\ \A s \in own \ OpenSessions : s.start = at /\ OpenSessions = {}
      /\ state \in Occupied => own # {}
  BY OwnFacts DEF ConnectorInv
<1>2. /\ sessions' = (sessions \ own) \cup new
      /\ connector' = [state |-> state, last |-> at]
      /\ connector.last = Never \/ ~(at <= connector.last)
  BY DEF ApplyObservation, Late
<1> HIDE DEF own
<1>3. \A u \in new : \E s \in own : /\ u.start = s.start
                                    /\ u.end = IF state \in Closing THEN at ELSE Never
  BY <1>1, UpdatedFacts
<1>4. \A s \in own : \E u \in new : u.end = IF state \in Closing THEN at ELSE Never
  BY <1>1, UpdatedFacts
<1> HIDE DEF new
<1>5. /\ at \in Int /\ at > Never /\ connector.last \in Int /\ connector.last < at
      /\ \A s \in sessions : s.start \in Int /\ s.end \in Int
  <2>1. connector.last \in Int /\ connector.last >= 0 /\ at \in Int /\ at > 0
    BY EvAssumption DEF ConnectorInv, EvTypeOK, Days
  <2>2. \A s \in sessions : s.start \in Int /\ s.end \in Int
    BY EvFacts DEF ConnectorInv, EvTypeOK
  <2>3. QED
    BY <1>2, <2>1, <2>2 DEF Never
<1>6. \A s \in sessions \ own : s.end # Never
  BY <1>1 DEF OpenSessions
<1>7. EvTypeOK'
  BY EvApplyType DEF ConnectorInv
<1>8. \A s \in sessions' : s.start <= at /\ s.end <= at
  <2>1. ASSUME NEW s \in sessions PROVE s.start <= at /\ s.end <= at
    BY <1>5 DEF ConnectorInv
  <2>2. ASSUME NEW u \in new PROVE u.start <= at /\ u.end <= at
    BY <1>1, <1>3, <1>5, <2>1 DEF OpenSessions, Never
  <2>3. QED
    BY <1>2, <2>1, <2>2
<1>9. ASSUME NEW s \in sessions', NEW t \in sessions', s.start < t.start
      PROVE  s.end # Never /\ s.end < t.start
  <2>1. CASE s \in sessions \ own
    <3>1. CASE t \in sessions
      BY <1>9, <2>1, <3>1 DEF ConnectorInv, SessionsFollowConnector
    <3>2. CASE t \in new
      <4>1. PICK r \in own : t.start = r.start
        BY <1>3, <3>2
      <4>2. CASE r \in OpenSessions
        BY <1>9, <2>1, <4>1, <4>2 DEF ConnectorInv, SessionsFollowConnector, OpenSessions
      <4>3. CASE r \notin OpenSessions
        <5>1. t.start = at
          BY <1>1, <4>1, <4>3
        <5>2. s.end \in Int /\ s.end <= connector.last
          BY <1>5, <2>1 DEF ConnectorInv
        <5>3. QED
          BY <1>5, <1>6, <2>1, <5>1, <5>2
      <4>4. QED
        BY <4>2, <4>3
    <3>3. QED
      BY <1>2, <3>1, <3>2
  <2>2. CASE s \in new
    <3>1. PICK r \in own : s.start = r.start
      BY <1>3, <2>2
    <3>2. t.start <= at
      BY <1>8
    <3>3. CASE r \in OpenSessions
      <4>1. ASSUME NEW q \in sessions, r.start < q.start PROVE FALSE
        BY <3>3, <4>1 DEF ConnectorInv, SessionsFollowConnector, OpenSessions
      <4>2. CASE t \in sessions
        BY <1>9, <3>1, <4>1, <4>2
      <4>3. CASE t \in new
        <5>1. PICK q \in own : t.start = q.start
          BY <1>3, <4>3
        <5>2. q \in OpenSessions
          BY <1>1, <3>3
        <5>3. QED
          BY <1>9, <3>1, <4>1, <5>1, <5>2 DEF OpenSessions
      <4>4. QED
        BY <1>2, <4>2, <4>3
    <3>4. CASE r \notin OpenSessions
      <4>1. s.start = at
        BY <1>1, <3>1, <3>4
      <4>2. t.start \in Int
        <5>1. CASE t \in sessions
          BY <1>5, <5>1
        <5>2. CASE t \in new
          BY <1>3, <1>1, <5>2, EvFacts DEF SessionType
        <5>3. QED
          BY <1>2, <5>1, <5>2
      <4>3. QED
        BY <1>5, <1>9, <3>2, <4>1, <4>2
    <3>5. QED
      BY <3>3, <3>4
  <2>3. QED
    BY <1>2, <2>1, <2>2
<1>10. Occupied \cap Closing = {} /\ state # "unknown"
  BY DEF Occupied, Closing
<1>11. state \in Occupied => OpenSessions' # {}
  BY <1>1, <1>2, <1>4, <1>10 DEF OpenSessions
<1>12. state \in Closing => OpenSessions' = {}
  BY <1>2, <1>3, <1>5, <1>6 DEF OpenSessions
<1>13. connector'.state = state /\ connector'.last = at
  BY <1>2
<1>14. QED
  BY <1>7, <1>8, <1>9, <1>10, <1>11, <1>12, <1>13 DEF ConnectorInv, SessionsFollowConnector

LEMMA ConnectorNext == ConnectorInv /\ [EvNext]_evVars => ConnectorInv'
PROOF
<1> SUFFICES ASSUME ConnectorInv, [EvNext]_evVars PROVE ConnectorInv'
  OBVIOUS
<1>1. EvTypeOK'
  BY EvNextType DEF ConnectorInv
<1>2. ASSUME NEW c \in PrivacyCalls, NEW consent \in BOOLEAN, NEW r \in Retentions,
             UpdatePrivacy(c, consent, r)
      PROVE  ConnectorInv'
  <2>1. /\ \A s \in sessions' : \E t \in sessions : s.start = t.start /\ s.end = t.end
        /\ \A t \in sessions : \E s \in sessions' : s.start = t.start /\ s.end = t.end
        /\ UNCHANGED connector
    <3>1. CASE consent
      BY <1>2, <3>1 DEF UpdatePrivacy
    <3>2. CASE ~consent
      BY <1>2, <3>2, PrivacyFacts DEF UpdatePrivacy, ConnectorInv
    <3>3. QED
      BY <3>1, <3>2
  <2>2. OpenSessions' = {} <=> OpenSessions = {}
    BY <2>1 DEF OpenSessions
  <2>3. \A s \in sessions' : s.start <= connector.last /\ s.end <= connector.last
    BY <2>1 DEF ConnectorInv
  <2>4. ASSUME NEW s \in sessions', NEW t \in sessions', s.start < t.start
        PROVE  s.end # Never /\ s.end < t.start
    BY <2>1, <2>4 DEF ConnectorInv, SessionsFollowConnector
  <2>5. QED
    BY <1>1, <2>1, <2>2, <2>3, <2>4 DEF ConnectorInv, SessionsFollowConnector
<1>3. CASE EvRetention
  <2>1. /\ sessions' \subseteq sessions /\ OpenSessions' = OpenSessions
        /\ UNCHANGED connector
    BY <1>3 DEF EvRetention, OpenSessions
  <2>2. QED
    BY <1>1, <2>1 DEF ConnectorInv, SessionsFollowConnector
<1>4. ASSUME UNCHANGED <<sessions, connector>> PROVE ConnectorInv'
  BY <1>1, <1>4 DEF ConnectorInv, SessionsFollowConnector, OpenSessions
<1>5. QED
  BY <1>2, <1>3, <1>4, ConnectorApply
  DEF EvNext, RetainLate, CreateRequirement, LoadPrivacy, DayPasses, evVars

(* Whatever the order in which the observations of a connector arrive and  *)
(* whatever retention removes, its sessions follow one another, the open   *)
(* one comes last and the connector agrees with it (ingest_observation,    *)
(* update_privacy, EV retention).                                          *)
THEOREM ConnectorsKeepTheirSessions == EvSpec => []SessionsFollowConnector
PROOF
<1>1. EvInit => ConnectorInv
  BY EvInitType DEF EvInit, ConnectorInv, SessionsFollowConnector, OpenSessions, Occupied
<1>2. ConnectorInv => SessionsFollowConnector
  BY DEF ConnectorInv
<1>3. QED
  BY <1>1, <1>2, ConnectorNext, PTL DEF EvSpec

(***************************************************************************)
(* Settings of an inverter                                                 *)
(***************************************************************************)
WriteStatuses == {"none", "created", "delivered", "accepted", "executed", "failed", "rejected",
                  "expired", "superseded"}
WriteType == [status : WriteStatuses, basis : Nat, expires : Int, accepted : Int]
DesiredType == [profile : Profiles, value : Values \cup {NoValue}, sent : BOOLEAN]
ReportType ==
  [profile : Profiles, version : Nat, value : Values \cup {NoValue},
   outcome : {"observed", "failed"}, measured : Int]

OpenStatuses == {"created", "delivered", "accepted"}

(* The columns.                                                            *)
ConfigShape ==
  /\ desired \in Seq(DesiredType) /\ reports \in Seq(ReportType)
  /\ settingsWrite \in [Versions -> WriteType]
  /\ instant \in Int /\ Lifetime \in Int

(* What a save and a request of the protocol read still holds as far as it *)
(* matters, though the two take different locks: a command of the newest   *)
(* revision that is open is among those the save is to replace, and the    *)
(* request writes only the newest revision, or one that was replaced.      *)
SaveHolds ==
  saving.on => \A v \in Versions :
    v = Len(desired) /\ settingsWrite[v].status \in OpenStatuses => v \in saving.open

ServeHolds ==
  /\ serving.op \in {"none", "list", "ack", "result"}
  /\ \A v \in serving.write : v \in Versions /\ v <= Len(desired)
  /\ serving.op = "list" => \A v \in serving.write :
       v = Len(desired) => settingsWrite[v].status = "created"
  /\ serving.op = "ack" => \A v \in serving.write :
       v = Len(desired) /\ settingsWrite[v].status \in {"created", "delivered"}
  /\ serving.op = "result" => \A v \in serving.write :
       /\ v = Len(desired) /\ settingsWrite[v].status = "accepted"
       /\ \E i \in 1 .. Len(reports) : Confirms(reports[i], v)

ConfigInv == ConfigShape /\ AcceptedIsNewest /\ SaveHolds /\ ServeHolds

LEMMA NewestFacts ==
  ASSUME NEW S, NEW rows \in Seq(S), rows # <<>>
  PROVE  Newest(rows) \in S
PROOF BY DEF Newest

LEMMA MarkedFacts ==
  ASSUME ConfigShape, NEW vs, NEW status \in WriteStatuses
  PROVE  /\ MarkedAs(vs, status) \in [Versions -> WriteType]
         /\ \A v \in Versions :
              MarkedAs(vs, status)[v].status =
                IF v \in vs THEN status ELSE settingsWrite[v].status
PROOF BY DEF MarkedAs, ConfigShape, WriteType

LEMMA ConfigInitInv == ConfigInit => ConfigInv
PROOF
<1> SUFFICES ASSUME ConfigInit PROVE ConfigInv
  OBVIOUS
<1>1. NoWrite \in WriteType /\ NoWrite.status = "none"
  BY DEF NoWrite, WriteType, WriteStatuses
<1>2. ConfigShape
  BY <1>1, ConfigAssumption DEF ConfigInit, ConfigShape
<1>3. AcceptedIsNewest
  BY <1>1 DEF ConfigInit, AcceptedIsNewest
<1>4. SaveHolds /\ ServeHolds
  BY DEF ConfigInit, SaveHolds, ServeHolds, NotSaving, NotServing
<1>5. QED
  BY <1>2, <1>3, <1>4 DEF ConfigInv

(* A save leaves no command of the old revisions open, and waits for the   *)
(* requests that are about to write one.                                   *)
LEMMA ConfigSave ==
  ASSUME ConfigInv, NEW p \in Profiles, NEW x \in Values \cup {NoValue}, CommitSave(p, x)
  PROVE  ConfigInv'
PROOF
<1> DEFINE version == Len(desired) + 1
           sends == x # NoValue /\ saving.writable
           row == [profile |-> p, value |-> x, sent |-> sends]
           marked == MarkedAs(saving.open, "superseded")
           write == IF sends THEN NewWrite ELSE marked[version]
<1>1. /\ saving.on /\ RowsFree
      /\ desired' = Append(desired, row)
      /\ settingsWrite' = [marked EXCEPT ![version] = write]
      /\ saving' = NotSaving
      /\ UNCHANGED <<reports, instant, serving>>
  BY DEF CommitSave
<1>2. row \in DesiredType
  BY DEF DesiredType
<1>3. /\ marked \in [Versions -> WriteType]
      /\ \A v \in Versions : marked[v].status =
           IF v \in saving.open THEN "superseded" ELSE settingsWrite[v].status
  BY MarkedFacts DEF ConfigInv, WriteStatuses
<1>4. NewWrite \in WriteType /\ NewWrite.status = "created"
  BY DEF NewWrite, WriteType, WriteStatuses, ConfigInv, ConfigShape
<1> HIDE DEF row, sends, marked
<1>5. desired' \in Seq(DesiredType) /\ Len(desired') = version /\ version \in Nat
  BY <1>1, <1>2 DEF ConfigInv, ConfigShape
<1>6. settingsWrite' \in [Versions -> WriteType]
  BY <1>1, <1>3, <1>4
<1>7. ConfigShape'
  BY <1>1, <1>5, <1>6 DEF ConfigInv, ConfigShape
<1>8. \A v \in Versions : v # version =>
        settingsWrite'[v].status = IF v \in saving.open THEN "superseded"
                                   ELSE settingsWrite[v].status
  BY <1>1, <1>3
<1>9. AcceptedIsNewest'
  <2> SUFFICES ASSUME NEW v \in Versions, v # version PROVE settingsWrite'[v].status # "accepted"
    BY <1>5 DEF AcceptedIsNewest
  <2>1. CASE v \in saving.open
    BY <1>8, <2>1
  <2>2. CASE v \notin saving.open
    BY <1>1, <1>8, <2>2 DEF ConfigInv, AcceptedIsNewest, SaveHolds, OpenStatuses
  <2>3. QED
    BY <2>1, <2>2
<1>10. SaveHolds'
  BY <1>1 DEF SaveHolds, NotSaving
<1>11. ASSUME serving.op \in {"ack", "result"} PROVE serving.write = {}
  <2>1. \A v \in serving.write : v \in saving.open
    BY <1>1, <1>11 DEF ConfigInv, ServeHolds, SaveHolds, OpenStatuses
  <2>2. QED
    BY <1>1, <1>11, <2>1 DEF RowsFree
<1>12. \A v \in serving.write : v \in Versions /\ v <= version /\ v # version
  <2>1. \A v \in serving.write : v \in Versions /\ v <= Len(desired)
    BY DEF ConfigInv, ServeHolds
  <2>2. Len(desired) \in Nat
    BY DEF ConfigInv, ConfigShape
  <2>3. ASSUME NEW v \in Versions, v <= Len(desired) PROVE v <= version /\ v # version
    <3>1. v \in Int
      BY DEF Versions
    <3>2. QED
      BY <2>2, <2>3, <3>1
  <2>4. QED
    BY <2>1, <2>3
<1>13. ServeHolds'
  BY <1>1, <1>5, <1>11, <1>12 DEF ConfigInv, ServeHolds
<1>14. QED
  BY <1>7, <1>9, <1>10, <1>13 DEF ConfigInv

(* A step that closes commands and changes nothing else.                   *)
LEMMA ConfigCloses ==
  ASSUME ConfigInv, serving.op = "none", NEW vs,
         NEW status \in {"expired", "rejected", "failed"},
         settingsWrite' = MarkedAs(vs, status),
         UNCHANGED <<desired, reports, instant, saving, serving>>
  PROVE  ConfigInv'
PROOF
<1>1. /\ settingsWrite' \in [Versions -> WriteType]
      /\ \A v \in Versions : settingsWrite'[v].status =
                               IF v \in vs THEN status ELSE settingsWrite[v].status
  BY MarkedFacts DEF ConfigInv, WriteStatuses
<1>2. ConfigShape'
  BY <1>1 DEF ConfigInv, ConfigShape
<1>3. AcceptedIsNewest'
  BY <1>1 DEF ConfigInv, AcceptedIsNewest
<1>4. SaveHolds'
  BY <1>1 DEF ConfigInv, SaveHolds, OpenStatuses
<1>5. ServeHolds'
  BY DEF ConfigInv, ServeHolds
<1>6. QED
  BY <1>2, <1>3, <1>4, <1>5 DEF ConfigInv

LEMMA ConfigDeliver ==
  ASSUME ConfigInv, DeliverPending
  PROVE  ConfigInv'
PROOF
<1>1. \A v \in Versions :
        /\ settingsWrite'[v] \in WriteType
        /\ \/ settingsWrite'[v] = settingsWrite[v]
           \/ settingsWrite'[v].status \in {"superseded", "expired"}
           \/ settingsWrite'[v].status = "delivered" /\ v \in serving.write
  <2> SUFFICES ASSUME NEW v \in Versions
               PROVE  /\ settingsWrite'[v] \in WriteType
                      /\ \/ settingsWrite'[v] = settingsWrite[v]
                         \/ settingsWrite'[v].status \in {"superseded", "expired"}
                         \/ settingsWrite'[v].status = "delivered" /\ v \in serving.write
    OBVIOUS
  <2> DEFINE At(status) == [settingsWrite[v] EXCEPT !.status = status]
  <2>1. settingsWrite[v] \in WriteType
    BY DEF ConfigInv, ConfigShape
  <2>2. \A status \in WriteStatuses : At(status) \in WriteType /\ At(status).status = status
    BY <2>1 DEF WriteType
  <2>3. \/ settingsWrite'[v] = At("delivered") /\ v \in serving.write
        \/ settingsWrite'[v] \in {At("superseded"), At("expired"), settingsWrite[v]}
    BY DEF DeliverPending
  <2> HIDE DEF At
  <2>4. QED
    BY <2>1, <2>2, <2>3 DEF WriteStatuses
<1>2. /\ settingsWrite' = [v \in Versions |-> settingsWrite'[v]]
      /\ serving.op = "list" /\ serving' = NotServing
      /\ UNCHANGED <<desired, reports, instant, saving>>
  BY DEF DeliverPending
<1>3. ConfigShape'
  BY <1>1, <1>2 DEF ConfigInv, ConfigShape
<1>4. AcceptedIsNewest'
  BY <1>1, <1>2 DEF ConfigInv, AcceptedIsNewest
<1>5. SaveHolds'
  BY <1>1, <1>2 DEF ConfigInv, SaveHolds, ServeHolds, OpenStatuses
<1>6. ServeHolds'
  BY <1>2 DEF ServeHolds, NotServing
<1>7. QED
  BY <1>3, <1>4, <1>5, <1>6 DEF ConfigInv

LEMMA ConfigCommitWrite ==
  ASSUME ConfigInv, CommitWrite
  PROVE  /\ ConfigInv'
         /\ \A v \in Versions :
              settingsWrite'[v].status = "executed" /\ settingsWrite[v].status # "executed" =>
                \E i \in 1 .. Len(reports) : Confirms(reports[i], v)
PROOF
<1>1. \A v \in Versions :
        /\ settingsWrite'[v] \in WriteType
        /\ \/ settingsWrite'[v] = settingsWrite[v]
           \/ /\ v \in serving.write
              /\ \/ serving.op = "ack" /\ settingsWrite'[v].status = "accepted"
                 \/ serving.op = "result" /\ settingsWrite'[v].status = "executed"
  BY DEF CommitWrite, ConfigInv, ConfigShape, WriteType, WriteStatuses
<1>2. /\ settingsWrite' = [v \in Versions |-> settingsWrite'[v]]
      /\ serving.op \in {"ack", "result"} /\ serving' = NotServing
      /\ UNCHANGED <<desired, reports, instant, saving>>
  BY DEF CommitWrite
<1>3. ConfigShape'
  BY <1>1, <1>2 DEF ConfigInv, ConfigShape
<1>4. AcceptedIsNewest'
  BY <1>1, <1>2 DEF ConfigInv, AcceptedIsNewest, ServeHolds
<1>5. SaveHolds'
  BY <1>1, <1>2 DEF ConfigInv, SaveHolds, ServeHolds, OpenStatuses
<1>6. ServeHolds'
  BY <1>2 DEF ServeHolds, NotServing
<1>7. QED
  BY <1>1, <1>3, <1>4, <1>5, <1>6 DEF ConfigInv, ServeHolds

LEMMA ConfigLock ==
  ASSUME ConfigInv, NEW v \in 1 .. Len(desired), Acknowledge(v) \/ ReportExecuted(v)
  PROVE  ConfigInv'
PROOF
<1>1. /\ v \in Versions /\ v = Len(desired)
      /\ \/ serving'.op = "ack" /\ settingsWrite[v].status \in {"created", "delivered"}
         \/ /\ serving'.op = "result" /\ settingsWrite[v].status = "accepted"
            /\ \E i \in 1 .. Len(reports) : Confirms(reports[i], v)
      /\ serving'.write = {v}
  BY DEF Acknowledge, ReportExecuted, WithStatus, DeliveryAllowed, Confirms, IsDesired,
     LockWrite, NotServing
<1>2. UNCHANGED <<desired, reports, settingsWrite, instant, saving>>
  BY DEF Acknowledge, ReportExecuted, LockWrite
<1>3. Len(desired) \in Nat
  BY DEF ConfigInv, ConfigShape
<1>4. ServeHolds'
  <2>1. \A i \in 1 .. Len(reports) : Confirms(reports[i], v) => Confirms(reports[i], v)'
    BY <1>2 DEF Confirms, IsDesired
  <2>2. QED
    BY <1>1, <1>2, <1>3, <2>1 DEF ServeHolds
<1>5. QED
  BY <1>2, <1>4 DEF ConfigInv, ConfigShape, AcceptedIsNewest, SaveHolds

LEMMA ConfigReports ==
  ASSUME ConfigInv, NEW x \in Values \cup {NoValue}, NEW o \in {"observed", "failed"},
         NEW m \in 0 .. instant, NEW d \in BOOLEAN, ReportSnapshot(x, o, m, d)
  PROVE  ConfigInv'
PROOF
<1> DEFINE row == [profile |-> Newest(desired).profile, version |-> Len(desired),
                   value |-> IF d /\ x = NoValue THEN Newest(reports).value ELSE x,
                   outcome |-> o, measured |-> m]
<1>1. /\ reports' = Append(reports, row) /\ desired # <<>> /\ (d => reports # <<>>)
      /\ UNCHANGED <<desired, settingsWrite, instant, saving, serving>>
  BY DEF ReportSnapshot
<1>2. row \in ReportType
  <2>1. Newest(desired).profile \in Profiles
    BY <1>1, NewestFacts DEF ConfigInv, ConfigShape, DesiredType
  <2>2. d => Newest(reports).value \in Values \cup {NoValue}
    BY <1>1, NewestFacts DEF ConfigInv, ConfigShape, ReportType
  <2>3. Len(desired) \in Nat
    BY DEF ConfigInv, ConfigShape
  <2>4. QED
    BY <2>1, <2>2, <2>3 DEF ReportType, ConfigInv, ConfigShape
<1> HIDE DEF row
<1>3. /\ reports' \in Seq(ReportType) /\ Len(reports) \in Nat
      /\ Len(reports') = Len(reports) + 1
      /\ \A i \in 1 .. Len(reports) : reports'[i] = reports[i]
  BY <1>1, <1>2 DEF ConfigInv, ConfigShape
<1>4. ASSUME NEW v, \E i \in 1 .. Len(reports) : Confirms(reports[i], v)
      PROVE  \E i \in 1 .. Len(reports') : Confirms(reports[i], v)'
  <2>1. PICK i \in 1 .. Len(reports) : Confirms(reports[i], v)
    BY <1>4
  <2>2. i \in 1 .. Len(reports') /\ Confirms(reports[i], v)'
    BY <1>1, <1>3, <2>1 DEF Confirms, IsDesired
  <2>3. QED
    BY <2>2
<1>5. ServeHolds'
  BY <1>1, <1>4 DEF ConfigInv, ServeHolds
<1>6. QED
  BY <1>1, <1>3, <1>5 DEF ConfigInv, ConfigShape, AcceptedIsNewest, SaveHolds

LEMMA ConfigStep == ConfigInv /\ [ConfigNext]_configVars => ConfigInv'
PROOF
<1> SUFFICES ASSUME ConfigInv, [ConfigNext]_configVars PROVE ConfigInv'
  OBVIOUS
<1>c. \A i, v : UNCHANGED <<desired, reports, settingsWrite>> =>
        (Confirms(reports[i], v) <=> Confirms(reports[i], v)')
  BY DEF Confirms, IsDesired
<1>1. CASE BeginSave
  BY <1>1, <1>c DEF BeginSave, ConfigInv, ConfigShape, AcceptedIsNewest, SaveHolds, ServeHolds,
     WithStatus, OpenStatuses
<1>2. CASE AbandonSave
  BY <1>2, <1>c DEF AbandonSave, ConfigInv, ConfigShape, AcceptedIsNewest, SaveHolds, ServeHolds,
     NotSaving
<1>3. CASE ReadPending
  <2>1. /\ serving'.op = "list"
        /\ \A v \in serving'.write : v \in Versions /\ v = Len(desired)
                                     /\ settingsWrite[v].status = "created"
        /\ UNCHANGED <<desired, reports, settingsWrite, instant, saving>>
    BY <1>3 DEF ReadPending, DeliveryAllowed, IsDesired, WithStatus
  <2>2. Len(desired) \in Nat
    BY DEF ConfigInv, ConfigShape
  <2>3. QED
    BY <2>1, <2>2 DEF ConfigInv, ConfigShape, AcceptedIsNewest, SaveHolds, ServeHolds
<1>4. ASSUME NEW v \in 1 .. Len(desired), Decline(v) PROVE ConfigInv'
  BY <1>4, ConfigCloses DEF Decline
<1>5. CASE WritabilityChanges \/ UNCHANGED configVars
  BY <1>5, <1>c DEF WritabilityChanges, configVars, ConfigInv, ConfigShape, AcceptedIsNewest,
     SaveHolds, ServeHolds
<1>6. CASE InstantPasses
  <2>1. /\ UNCHANGED <<desired, reports, settingsWrite, saving, serving>>
        /\ instant' = instant + 1
    BY <1>6 DEF InstantPasses
  <2>2. ConfigShape'
    BY <2>1 DEF ConfigInv, ConfigShape
  <2>3. AcceptedIsNewest' /\ SaveHolds'
    BY <2>1 DEF ConfigInv, AcceptedIsNewest, SaveHolds
  <2>4. ServeHolds'
    BY <2>1, <1>c DEF ConfigInv, ServeHolds
  <2>5. QED
    BY <2>2, <2>3, <2>4 DEF ConfigInv
<1>7. QED
  BY <1>1, <1>2, <1>3, <1>4, <1>5, <1>6, ConfigSave, ConfigDeliver, ConfigCommitWrite,
     ConfigLock, ConfigReports DEF ConfigNext

(* The device has never accepted settings that a newer revision replaced,  *)
(* although acknowledge_command does not take the lock under which         *)
(* save_desired runs: the flush of the save waits for the row of the       *)
(* command.                                                                *)
THEOREM AcceptedSettingsAreNewest == ConfigSpec => []AcceptedIsNewest
PROOF
<1>1. ConfigInv => AcceptedIsNewest
  BY DEF ConfigInv
<1>2. QED
  BY ConfigInitInv, ConfigStep, <1>1, PTL DEF ConfigSpec

(* Settings count as executed only while a snapshot of the device confirms *)
(* them and they are the ones wanted, also at the moment of the write,     *)
(* which comes after the check (report_command_result,                     *)
(* validate_execution_readback).                                           *)
THEOREM ExecutedSettingsAreConfirmed == ConfigSpec => ExecutedIsConfirmed
PROOF
<1> DEFINE A == \A v \in Versions :
      settingsWrite'[v].status = "executed" /\ settingsWrite[v].status # "executed" =>
        \E i \in 1 .. Len(reports) : Confirms(reports[i], v)
<1>1. ConfigInv /\ [ConfigNext]_configVars => A
  <2> SUFFICES ASSUME ConfigInv, [ConfigNext]_configVars, NEW v \in Versions,
                      settingsWrite'[v].status = "executed", settingsWrite[v].status # "executed"
               PROVE  \E i \in 1 .. Len(reports) : Confirms(reports[i], v)
    OBVIOUS
  <2>1. CASE CommitWrite
    BY <2>1, ConfigCommitWrite
  <2>2. ASSUME NEW p \in Profiles, NEW x \in Values \cup {NoValue}, CommitSave(p, x)
        PROVE  FALSE
    <3> DEFINE marked == MarkedAs(saving.open, "superseded")
    <3>1. /\ marked \in [Versions -> WriteType]
          /\ \A w \in Versions : marked[w].status =
               IF w \in saving.open THEN "superseded" ELSE settingsWrite[w].status
      BY MarkedFacts DEF ConfigInv, WriteStatuses
    <3>2. NewWrite.status = "created"
      BY DEF NewWrite
    <3> HIDE DEF marked
    <3>3. settingsWrite'[v] \in {marked[v], NewWrite}
      BY <2>2, <3>1 DEF CommitSave, marked
    <3>4. QED
      BY <3>1, <3>2, <3>3
  <2>3. CASE DeliverPending
    BY <2>3 DEF DeliverPending, ConfigInv, ConfigShape, WriteType
  <2>4. ASSUME NEW w \in 1 .. Len(desired), Decline(w) PROVE FALSE
    <3>1. PICK status \in {"expired", "rejected", "failed"} :
            settingsWrite' = MarkedAs({w}, status)
      BY <2>4 DEF Decline
    <3>2. QED
      BY <3>1, MarkedFacts DEF ConfigInv, WriteStatuses
  <2>5. settingsWrite' # settingsWrite
    OBVIOUS
  <2>6. QED
    BY <2>1, <2>2, <2>3, <2>4, <2>5 DEF ConfigNext, configVars, BeginSave, AbandonSave,
       ReportSnapshot, ReadPending, Acknowledge, ReportExecuted, LockWrite,
       WritabilityChanges, InstantPasses
<1>2. QED
  BY ConfigInitInv, ConfigStep, <1>1, PTL DEF ConfigSpec, ExecutedIsConfirmed

(***************************************************************************)
(* The identity of a device                                                *)
(***************************************************************************)
CallOps == {"none", "request", "enroll", "allocate", "revoke"}

IdentityShape ==
  /\ device \in [Units -> RecordType]
  /\ DOMAIN credentials = Units /\ credentials = [u \in Units |-> credentials[u]]
  /\ issued \in 0 .. MaxSecret
  /\ DOMAIN calls = IdentityCalls /\ calls = [c \in IdentityCalls |-> calls[c]]
  /\ \A c \in IdentityCalls :
       /\ calls[c].op \in CallOps
       /\ calls[c].op # "none" => calls[c].unit \in Units /\ calls[c].seen \in RecordType

ActiveIsAssigned == \A u \in Units : device[u].status = "active" => device[u].station \in Sites

(* What a handler has read still decides what it may do, because no other  *)
(* handler runs: the station a request was authenticated for is where the  *)
(* device is, and a device that is being allocated has no credential yet.  *)
CallHolds(c) ==
  /\ calls[c].op = "request" =>
       /\ device[calls[c].unit].status = "active"
       /\ calls[c].seen.station = device[calls[c].unit].station
  /\ calls[c].op = "allocate" => device[calls[c].unit].status # "active"

IdentityInv ==
  /\ IdentityShape
  /\ CredentialsFollowDevice
  /\ ActiveIsAssigned
  /\ \A c \in IdentityCalls : CallHolds(c)

LEMMA IdentityInitInv == IdentityInit => IdentityInv
PROOF
<1> SUFFICES ASSUME IdentityInit PROVE IdentityInv
  OBVIOUS
<1>1. NoRecord \in RecordType /\ NoRecord.status = "none" /\ NoCall.op = "none"
  BY IdentityAssumption DEF NoRecord, RecordType, NoCall, NoSecret
<1>2. QED
  BY <1>1, IdentityAssumption DEF IdentityInit, IdentityInv, IdentityShape,
     CredentialsFollowDevice, ActiveIsAssigned, CallHolds, CallOps

(* A step that writes the row and the credentials of one unit, and ends    *)
(* the handler that took it or finds it free, keeps the invariant when the *)
(* unit itself is left in order.                                           *)
LEMMA OneUnitChanges ==
  ASSUME \A c, d \in IdentityCalls : c = d, IdentityInv,
         NEW c \in IdentityCalls, NEW u \in Units, NEW row \in RecordType, NEW kept,
         device' = [device EXCEPT ![u] = row],
         credentials' = [credentials EXCEPT ![u] = kept],
         issued' \in 0 .. MaxSecret,
         EndCall(c) \/ (Free(c) /\ UNCHANGED calls),
         row.status = "active" =>
           /\ row.station \in Sites
           /\ \E k \in kept : kept = {k} /\ k.station = row.station,
         row.status # "active" => kept = {}
  PROVE  IdentityInv'
PROOF
<1>1. NoCall.op = "none"
  BY DEF NoCall
<1>2. /\ \A d \in IdentityCalls : calls'[d].op = "none"
      /\ DOMAIN calls' = IdentityCalls /\ calls' = [d \in IdentityCalls |-> calls'[d]]
  BY <1>1 DEF EndCall, Free, IdentityInv, IdentityShape
<1>3. /\ device'[u] = row /\ credentials'[u] = kept
      /\ \A v \in Units \ {u} : device'[v] = device[v] /\ credentials'[v] = credentials[v]
      /\ device' \in [Units -> RecordType]
      /\ DOMAIN credentials' = Units /\ credentials' = [v \in Units |-> credentials'[v]]
  BY DEF IdentityInv, IdentityShape
<1>4. IdentityShape'
  BY <1>2, <1>3 DEF IdentityShape, CallOps
<1>5. CredentialsFollowDevice'
  <2> SUFFICES ASSUME NEW v \in Units
               PROVE  IF device'[v].status = "active"
                      THEN \E k \in credentials'[v] :
                             credentials'[v] = {k} /\ k.station = device'[v].station
                      ELSE credentials'[v] = {}
    BY DEF CredentialsFollowDevice
  <2>1. CASE v = u
    BY <2>1, <1>3
  <2>2. CASE v # u
    BY <2>2, <1>3 DEF IdentityInv, CredentialsFollowDevice
  <2>3. QED
    BY <2>1, <2>2
<1>6. ActiveIsAssigned'
  BY <1>3 DEF IdentityInv, ActiveIsAssigned
<1>7. QED
  BY <1>2, <1>4, <1>5, <1>6 DEF IdentityInv, CallHolds

(* The secrets and rows that the handlers make.                            *)
LEMMA IdentityRows ==
  ASSUME IdentityInv, MayIssue, NEW row \in RecordType, NEW site \in Sites
  PROVE  /\ Assigned(row, site) \in RecordType /\ Assigned(row, site).status = "active"
         /\ Assigned(row, site).station = site
         /\ Activated(row, site) \in RecordType /\ Activated(row, site).status = "active"
         /\ Activated(row, site).station = site
         /\ Moved(row, site) \in RecordType /\ Moved(row, site).status = row.status
         /\ Moved(row, site).station = site
         /\ NextSecret \in 1 .. MaxSecret
PROOF
<1>1. NextSecret \in 1 .. MaxSecret /\ NextSecret \in 0 .. MaxSecret
  BY IdentityAssumption DEF IdentityInv, IdentityShape, MayIssue, NextSecret
<1> HIDE DEF NextSecret
<1>2. QED
  BY <1>1 DEF Assigned, Activated, Moved, RecordType

LEMMA FlaggedRows ==
  ASSUME NEW row \in RecordType, NEW b \in BOOLEAN, NEW k \in BOOLEAN,
         0 \in 0 .. MaxSecret
  PROVE  /\ [row EXCEPT !.lapsed = b] \in RecordType
         /\ [row EXCEPT !.lapsed = b].status = row.status
         /\ [row EXCEPT !.lapsed = b].station = row.station
         /\ [row EXCEPT !.code = k, !.lapsed = b] \in RecordType
         /\ [row EXCEPT !.code = k, !.lapsed = b].status = row.status
         /\ [row EXCEPT !.code = k, !.lapsed = b].station = row.station
         /\ [row EXCEPT !.station = NoSite, !.status = "pending_claim", !.pending = 0,
                        !.claimed = k, !.lapsed = b] \in RecordType
         /\ [row EXCEPT !.station = NoSite, !.status = "pending_claim", !.pending = 0,
                        !.claimed = k, !.lapsed = b].status = "pending_claim"
PROOF BY DEF RecordType

LEMMA MarkedRow ==
  ASSUME NEW row \in RecordType, NEW b \in BOOLEAN, NEW k \in BOOLEAN,
         NEW marked, marked = [row EXCEPT !.code = k, !.lapsed = b]
  PROVE  marked \in RecordType /\ marked.status = row.status /\ marked.station = row.station
PROOF BY DEF RecordType

LEMMA IdentityReads ==
  ASSUME \A c, d \in IdentityCalls : c = d, IdentityInv,
         NEW c \in IdentityCalls, NEW u \in Units, NEW op \in CallOps, ReadDevice(c, op, u),
         op = "request" => device[u].status = "active",
         op = "allocate" => device[u].status # "active"
  PROVE  IdentityInv'
PROOF
<1>1. /\ calls'[c].op = op /\ calls'[c].unit = u /\ calls'[c].seen = device[u]
      /\ DOMAIN calls' = IdentityCalls /\ calls' = [d \in IdentityCalls |-> calls'[d]]
      /\ UNCHANGED <<device, credentials, held, issued>>
  BY DEF ReadDevice, IdentityInv, IdentityShape
<1>2. device[u] \in RecordType
  BY DEF IdentityInv, IdentityShape
<1>3. IdentityShape'
  BY <1>1, <1>2 DEF IdentityInv, IdentityShape
<1>4. CredentialsFollowDevice' /\ ActiveIsAssigned'
  BY <1>1 DEF IdentityInv, CredentialsFollowDevice, ActiveIsAssigned
<1>5. \A d \in IdentityCalls : CallHolds(d)'
  BY <1>1 DEF CallHolds
<1>6. QED
  BY <1>3, <1>4, <1>5 DEF IdentityInv

LEMMA IdentityStep ==
  ASSUME \A c, d \in IdentityCalls : c = d
  PROVE  IdentityInv /\ [IdentityNext]_identityVars => IdentityInv'
PROOF
<1> SUFFICES ASSUME IdentityInv, [IdentityNext]_identityVars PROVE IdentityInv'
  OBVIOUS
<1>r. \A u \in Units : device[u] \in RecordType
  BY DEF IdentityInv, IdentityShape
<1>c. \A c \in IdentityCalls : calls[c].op # "none" =>
        calls[c].unit \in Units /\ calls[c].seen \in RecordType
  BY DEF IdentityInv, IdentityShape
<1>k. \A u \in Units : [credentials EXCEPT ![u] = credentials[u]] = credentials
  BY DEF IdentityInv, IdentityShape
<1>d. \A u \in Units : [device EXCEPT ![u] = device[u]] = device
  BY DEF IdentityInv, IdentityShape
<1>i. issued \in 0 .. MaxSecret
  BY DEF IdentityInv, IdentityShape
<1>n. NoSite \notin Sites
  BY IdentityAssumption
<1>z. 0 \in 0 .. MaxSecret
  BY IdentityAssumption
<1>1. ASSUME NEW c \in IdentityCalls, NEW u \in Units,
             Authenticate(c, u) \/ Enroll(c, u) \/ Allocate(c, u) \/ Revoke(c, u)
      PROVE  IdentityInv'
  <2>1. CASE Authenticate(c, u)
    BY <2>1, IdentityReads DEF Authenticate, CallOps
  <2>2. CASE Enroll(c, u)
    BY <2>2, IdentityReads DEF Enroll, CallOps
  <2>3. CASE Allocate(c, u)
    <3>1. device[u].status # "active"
      BY <2>3, <1>n DEF Allocate, Allocatable, IdentityInv, ActiveIsAssigned
    <3>2. QED
      BY <2>3, <3>1, IdentityReads DEF Allocate, CallOps
  <2>4. CASE Revoke(c, u)
    BY <2>4, IdentityReads DEF Revoke, CallOps
  <2>5. QED
    BY <1>1, <2>1, <2>2, <2>3, <2>4
<1>2. ASSUME NEW c \in IdentityCalls, FinishRequest(c) PROVE IdentityInv'
  <2> DEFINE u == calls[c].unit
             row == [device[u] EXCEPT !.pending = PendingAfter(calls[c].seen, device[u])]
  <2>1. u \in Units /\ calls[c].seen \in RecordType
    BY <1>2, <1>c DEF FinishRequest
  <2>2. row \in RecordType /\ row.status = device[u].status /\ row.station = device[u].station
    BY <2>1, <1>r, IdentityAssumption DEF PendingAfter, RecordType, NoSecret
  <2>3. device' = [device EXCEPT ![u] = row]
    BY <1>2, <2>1 DEF FinishRequest, IdentityInv, IdentityShape
  <2>4. credentials' = [credentials EXCEPT ![u] = credentials[u]] /\ issued' = issued /\ EndCall(c)
    BY <1>2, <2>1, <1>k DEF FinishRequest
  <2>5. /\ row.status = "active" =>
             /\ row.station \in Sites
             /\ \E k \in credentials[u] : credentials[u] = {k} /\ k.station = row.station
        /\ row.status # "active" => credentials[u] = {}
    BY <2>1, <2>2 DEF IdentityInv, CredentialsFollowDevice, ActiveIsAssigned
  <2> HIDE DEF row, u
  <2>6. QED
    BY <2>1, <2>2, <2>3, <2>4, <2>5, <1>i, OneUnitChanges
<1>3. ASSUME NEW c \in IdentityCalls, FinishRevoke(c) PROVE IdentityInv'
  <2> DEFINE u == calls[c].unit
             row == [device[u] EXCEPT !.status = "revoked"]
  <2>1. u \in Units
    BY <1>3, <1>c DEF FinishRevoke
  <2>2. row \in RecordType /\ row.status = "revoked"
    BY <2>1, <1>r DEF RecordType
  <2>3. /\ device' = [device EXCEPT ![u] = row] /\ credentials' = [credentials EXCEPT ![u] = {}]
        /\ issued' = issued /\ EndCall(c)
    BY <1>3, <2>1 DEF FinishRevoke, Revoked, IdentityInv, IdentityShape
  <2> HIDE DEF row, u
  <2>4. QED
    BY <2>1, <2>2, <2>3, <1>i, OneUnitChanges
<1>4. ASSUME NEW c \in IdentityCalls, CallFails(c) PROVE IdentityInv'
  <2>1. calls[c].unit \in Units
    BY <1>4, <1>c DEF CallFails
  <2> DEFINE u == calls[c].unit
  <2>2. /\ device' = [device EXCEPT ![u] = device[u]]
        /\ credentials' = [credentials EXCEPT ![u] = credentials[u]]
        /\ issued' = issued /\ EndCall(c)
    BY <1>4, <2>1, <1>k, <1>d DEF CallFails
  <2>3. /\ device[u].status = "active" =>
             /\ device[u].station \in Sites
             /\ \E k \in credentials[u] : credentials[u] = {k} /\ k.station = device[u].station
        /\ device[u].status # "active" => credentials[u] = {}
    BY <2>1 DEF IdentityInv, CredentialsFollowDevice, ActiveIsAssigned
  <2> HIDE DEF u
  <2>4. QED
    BY <2>1, <2>2, <2>3, <1>i, <1>r, OneUnitChanges DEF u
<1>5. ASSUME NEW c \in IdentityCalls, NEW lost \in BOOLEAN, FinishRotation(c, lost)
      PROVE  IdentityInv'
  <2> DEFINE u == calls[c].unit
             row == [device[u] EXCEPT !.pending = PendingAfter(calls[c].seen, device[u])]
             new == Credential(calls[c].seen.station)
  <2>1. u \in Units /\ calls[c].seen \in RecordType
    BY <1>5, <1>c DEF FinishRotation
  <2>2. row \in RecordType /\ row.status = device[u].status /\ row.station = device[u].station
    BY <2>1, <1>r, IdentityAssumption DEF PendingAfter, RecordType, NoSecret
  <2>3. /\ device' = [device EXCEPT ![u] = row] /\ credentials' = [credentials EXCEPT ![u] = {new}]
        /\ issued' = NextSecret /\ MayIssue /\ EndCall(c)
    BY <1>5, <2>1 DEF FinishRotation, Rotated, IdentityInv, IdentityShape
  <2>4. /\ row.status = "active" /\ row.station \in Sites
        /\ new.station = row.station
    BY <1>5, <2>1, <2>2 DEF FinishRotation, IdentityInv, CallHolds, ActiveIsAssigned, Credential
  <2>5. issued' \in 0 .. MaxSecret
    BY <2>3, IdentityAssumption, <1>i DEF NextSecret, MayIssue
  <2> HIDE DEF row, u, new
  <2>6. \E k \in {new} : {new} = {k} /\ k.station = row.station
    BY <2>4
  <2>7. QED
    BY <2>1, <2>2, <2>3, <2>4, <2>5, <2>6, OneUnitChanges
<1>6. ASSUME NEW c \in IdentityCalls, NEW brings \in BOOLEAN, NEW lost \in BOOLEAN,
             FinishEnroll(c, brings, lost)
      PROVE  IdentityInv'
  <2> DEFINE u == calls[c].unit
             row == IF calls[c].seen.status # "none"
                    THEN Reenrolled(calls[c].seen, device[u], brings)
                    ELSE IF device[u].status # "none" THEN device[u]
                    ELSE [NoRecord EXCEPT !.status = "pending_claim", !.code = brings]
  <2>1. u \in Units /\ calls[c].seen \in RecordType
    BY <1>6, <1>c DEF FinishEnroll
  <2>2. /\ row \in RecordType
        /\ \/ row.status = device[u].status /\ row.station = device[u].station
           \/ device[u].status = "none" /\ row.status = "pending_claim"
    <3>1. \A k \in BOOLEAN : [NoRecord EXCEPT !.status = "pending_claim", !.code = k] \in RecordType
      BY <1>z DEF RecordType, NoRecord, NoSecret
    <3>2. [NoRecord EXCEPT !.status = "pending_claim", !.code = brings].status = "pending_claim"
      BY DEF NoRecord
    <3>3. \E k, b \in BOOLEAN :
            Reenrolled(calls[c].seen, device[u], brings) = [device[u] EXCEPT !.code = k, !.lapsed = b]
      <4>1. device[u].code \in BOOLEAN /\ device[u].lapsed \in BOOLEAN
        BY <2>1, <1>r DEF RecordType
      <4>2. QED
        BY <4>1 DEF Reenrolled
    <3> DEFINE again == Reenrolled(calls[c].seen, device[u], brings)
    <3>4. again \in RecordType /\ again.status = device[u].status /\ again.station = device[u].station
      <4>1. PICK k, b \in BOOLEAN : again = [device[u] EXCEPT !.code = k, !.lapsed = b]
        BY <3>3
      <4> HIDE DEF again
      <4>2. PICK before \in RecordType : before = device[u]
        BY <2>1, <1>r
      <4>3. again = [before EXCEPT !.code = k, !.lapsed = b]
        BY <4>1, <4>2
      <4>4. again \in RecordType /\ again.status = before.status /\ again.station = before.station
        BY <4>3, MarkedRow
      <4>5. QED
        BY <4>2, <4>4
    <3> HIDE DEF again
    <3>5. \/ row \in {again, device[u]}
          \/ /\ device[u].status = "none"
             /\ row = [NoRecord EXCEPT !.status = "pending_claim", !.code = brings]
      BY DEF again
    <3> HIDE DEF row
    <3>6. QED
      BY <2>1, <1>r, <3>1, <3>2, <3>4, <3>5
  <2>3. device' = [device EXCEPT ![u] = row]
    BY <1>6, <2>1 DEF FinishEnroll, IdentityInv, IdentityShape
  <2>4. credentials' = [credentials EXCEPT ![u] = credentials[u]] /\ issued' = issued /\ EndCall(c)
    BY <1>6, <2>1, <1>k DEF FinishEnroll
  <2> HIDE DEF row
  <2>5. /\ row.status = "active" =>
             /\ row.station \in Sites
             /\ \E k \in credentials[u] : credentials[u] = {k} /\ k.station = row.station
        /\ row.status # "active" => credentials[u] = {}
    BY <2>1, <2>2 DEF IdentityInv, CredentialsFollowDevice, ActiveIsAssigned
  <2> HIDE DEF u
  <2>6. QED
    BY <2>1, <2>2, <2>3, <2>4, <2>5, <1>i, OneUnitChanges
<1>7. ASSUME NEW c \in IdentityCalls, NEW site \in Sites, FinishAllocate(c, site)
      PROVE  IdentityInv'
  <2> DEFINE u == calls[c].unit
             row == Assigned(device[u], site)
             new == Credential(site)
  <2>1. u \in Units
    BY <1>7, <1>c DEF FinishAllocate
  <2>2. credentials[u] = {}
    BY <1>7, <2>1 DEF FinishAllocate, IdentityInv, CallHolds, CredentialsFollowDevice
  <2>3. /\ device' = [device EXCEPT ![u] = row] /\ credentials' = [credentials EXCEPT ![u] = {new}]
        /\ issued' = NextSecret /\ MayIssue /\ EndCall(c)
    BY <1>7, <2>1, <2>2 DEF FinishAllocate, IdentityInv, IdentityShape
  <2>4. /\ row \in RecordType /\ row.status = "active" /\ row.station = site
        /\ issued' \in 0 .. MaxSecret
    BY <2>1, <2>3, <1>r, IdentityRows
  <2>5. new.station = site
    BY DEF Credential
  <2> HIDE DEF row, u, new
  <2>6. \E k \in {new} : {new} = {k} /\ k.station = row.station
    BY <2>4, <2>5
  <2>7. QED
    BY <2>1, <2>3, <2>4, <2>6, OneUnitChanges
<1>8. ASSUME NEW c \in IdentityCalls, NEW u \in Units, NEW site \in Sites,
             Activate(c, u, site) \/ TransferDevice(c, u, site)
      PROVE  IdentityInv'
  <2> DEFINE row == device'[u]
             new == Credential(site)
  <2>1. Free(c) /\ UNCHANGED calls /\ issued' = NextSecret /\ MayIssue
    BY <1>8 DEF Activate, TransferDevice
  <2>2. device' = [device EXCEPT ![u] = row] /\ row \in {Activated(device[u], site), Moved(device[u], site)}
    BY <1>8 DEF Activate, TransferDevice, IdentityInv, IdentityShape
  <2>3. credentials' = [credentials EXCEPT ![u] = {new}]
    BY <1>8 DEF Activate, TransferDevice, IdentityInv, CredentialsFollowDevice, IdentityShape
  <2>4. PICK before \in RecordType : before = device[u]
    BY <1>r
  <2>5. /\ row \in RecordType /\ row.status = "active" /\ row.station = site
        /\ issued' \in 0 .. MaxSecret
    <3>1. /\ Activated(before, site) \in RecordType /\ Activated(before, site).status = "active"
          /\ Activated(before, site).station = site
          /\ Moved(before, site) \in RecordType /\ Moved(before, site).status = before.status
          /\ Moved(before, site).station = site
          /\ NextSecret \in 1 .. MaxSecret
      BY <2>1, IdentityRows
    <3>2. issued' \in 0 .. MaxSecret
      BY <2>1, <3>1
    <3>3. CASE Activate(c, u, site)
      <4>1. device'[u] = Activated(before, site)
        BY <2>4, <3>3 DEF Activate, IdentityInv, IdentityShape
      <4>2. QED
        BY <3>1, <3>2, <4>1
    <3>4. CASE TransferDevice(c, u, site)
      <4>1. device'[u] = Moved(before, site) /\ before.status = "active"
        BY <2>4, <3>4 DEF TransferDevice, OnStation, IdentityInv, IdentityShape
      <4>2. QED
        BY <3>1, <3>2, <4>1
    <3>5. QED
      BY <1>8, <3>3, <3>4
  <2>6. new.station = site
    BY DEF Credential
  <2> HIDE DEF row, new
  <2>7. \E k \in {new} : {new} = {k} /\ k.station = row.station
    BY <2>5, <2>6
  <2>8. QED
    BY <2>1, <2>2, <2>3, <2>5, <2>7, OneUnitChanges
<1>9. ASSUME NEW c \in IdentityCalls, NEW u \in Units, FactoryReset(c, u) PROVE IdentityInv'
  <2> DEFINE row == Reset(device[u])
  <2>1. row \in RecordType /\ row.status = "pending_claim"
    BY <1>r, <1>z, FlaggedRows DEF Reset, NoSecret
  <2>2. /\ device' = [device EXCEPT ![u] = row] /\ credentials' = [credentials EXCEPT ![u] = {}]
        /\ issued' = issued /\ Free(c) /\ UNCHANGED calls
    BY <1>9 DEF FactoryReset, IdentityInv, IdentityShape
  <2> HIDE DEF row
  <2>3. QED
    BY <2>1, <2>2, <1>i, OneUnitChanges
<1>10. ASSUME NEW u \in Units, EnrollmentLapses(u) PROVE IdentityInv'
  <2>1. /\ device'[u] = [device[u] EXCEPT !.lapsed = TRUE]
        /\ \A v \in Units \ {u} : device'[v] = device[v]
        /\ DOMAIN device' = Units /\ device' = [v \in Units |-> device'[v]]
        /\ UNCHANGED <<credentials, held, issued, calls>>
    BY <1>10 DEF EnrollmentLapses, IdentityInv, IdentityShape
  <2>2. \A v \in Units : /\ device'[v] \in RecordType
                         /\ device'[v].status = device[v].status
                         /\ device'[v].station = device[v].station
    <3>1. \A b \in BOOLEAN :
            /\ [device[u] EXCEPT !.lapsed = b] \in RecordType
            /\ [device[u] EXCEPT !.lapsed = b].status = device[u].status
            /\ [device[u] EXCEPT !.lapsed = b].station = device[u].station
      BY <1>r, <1>z, FlaggedRows
    <3>2. /\ device'[u] \in RecordType
          /\ device'[u].status = device[u].status /\ device'[u].station = device[u].station
      BY <2>1, <3>1
    <3>3. QED
      BY <2>1, <1>r, <3>2
  <2>3. IdentityShape'
    BY <2>1, <2>2 DEF IdentityInv, IdentityShape
  <2>4. CredentialsFollowDevice' /\ ActiveIsAssigned'
    BY <2>1, <2>2 DEF IdentityInv, CredentialsFollowDevice, ActiveIsAssigned
  <2>5. \A c \in IdentityCalls : CallHolds(c)'
    BY <2>1, <2>2, <1>c DEF IdentityInv, CallHolds
  <2>6. QED
    BY <2>3, <2>4, <2>5 DEF IdentityInv
<1>11. CASE UNCHANGED identityVars
  BY <1>11 DEF identityVars, IdentityInv, IdentityShape, CredentialsFollowDevice,
     ActiveIsAssigned, CallHolds
<1>12. QED
  BY <1>1, <1>2, <1>3, <1>4, <1>5, <1>6, <1>7, <1>8, <1>9, <1>10, <1>11 DEF IdentityNext

(* While handlers do not overlap, an active device has exactly one usable  *)
(* credential, issued for the station it is on, and a device that is not   *)
(* active has none, whatever was assigned, claimed, rotated, moved, reset  *)
(* or revoked before (allocate_device, rotate_credential, transfer_device, *)
(* factory_reset_device).                                                  *)
THEOREM CredentialsStayWithDevice ==
  ASSUME \A c, d \in IdentityCalls : c = d
  PROVE  IdentitySpec => []CredentialsFollowDevice
PROOF
<1>1. IdentityInv => CredentialsFollowDevice
  BY DEF IdentityInv
<1>2. QED
  BY IdentityInitInv, IdentityStep, <1>1, PTL DEF IdentitySpec

(***************************************************************************)
(* The connection to Deye Cloud                                            *)
(***************************************************************************)
PageOps == {"connect", "select", "import", "disconnect"}

CloudShape ==
  /\ connection \in ConnectionType
  /\ DOMAIN cloudCalls = CloudSessions /\ cloudCalls = [c \in CloudSessions |-> cloudCalls[c]]
  /\ \A c \in CloudSessions : cloudCalls[c].read \in ConnectionType

HasAccount ==
  connection.status \in {"pending_selection", "connected"} => connection.account

(* What a page has read is still so, except that a poll may have failed.   *)
PageHolds(c) ==
  cloudCalls[c].op \in PageOps =>
    /\ cloudCalls[c].read.account = connection.account
    /\ cloudCalls[c].read.remote = connection.remote
    /\ connection.status \in {cloudCalls[c].read.status, "error"}
    /\ cloudCalls[c].op = "select" =>
         /\ cloudCalls[c].read.status = "pending_selection"
         /\ cloudCalls[c].read.account

CloudInv ==
  /\ CloudShape
  /\ PolledIsComplete
  /\ HasAccount
  /\ \A c \in CloudUsers : PageHolds(c)

LEMMA CloudInitInv == CloudInit => CloudInv
PROOF
<1> SUFFICES ASSUME CloudInit PROVE CloudInv
  OBVIOUS
<1>1. /\ NoConnection \in ConnectionType /\ NoConnection.status = "none"
      /\ NoCloudCall.op = "none" /\ NoCloudCall.read = NoConnection
  BY CloudAssumption DEF NoConnection, ConnectionType, NoCloudCall
<1>2. CloudShape
  BY <1>1 DEF CloudInit, CloudShape
<1>3. \A c \in CloudUsers : PageHolds(c)
  BY <1>1 DEF CloudInit, PageHolds, PageOps, CloudSessions
<1>4. QED
  BY <1>1, <1>2, <1>3 DEF CloudInit, CloudInv, PolledIsComplete, HasAccount

(* The row an UPDATE leaves.                                               *)
LEMMA MergedFacts ==
  ASSUME connection \in ConnectionType, NEW read \in ConnectionType, NEW new \in ConnectionType
  PROVE  /\ MergedRow(read, new) \in ConnectionType
         /\ MergedRow(read, new).status =
              IF new.status = read.status THEN connection.status ELSE new.status
         /\ MergedRow(read, new).account =
              IF new.account = read.account THEN connection.account ELSE new.account
         /\ MergedRow(read, new).remote =
              IF new.remote = read.remote THEN connection.remote ELSE new.remote
PROOF
<1> DEFINE row == MergedRow(read, new)
<1>1. DOMAIN new = {"status", "remote", "account", "token", "failed", "sync"}
  BY DEF ConnectionType
<1>2. row = [f \in {"status", "remote", "account", "token", "failed", "sync"} |->
               IF new[f] = read[f] THEN connection[f] ELSE new[f]]
  BY <1>1 DEF MergedRow
<1>3. row = [status |-> IF new.status = read.status THEN connection.status ELSE new.status,
             remote |-> IF new.remote = read.remote THEN connection.remote ELSE new.remote,
             account |-> IF new.account = read.account THEN connection.account ELSE new.account,
             token |-> IF new.token = read.token THEN connection.token ELSE new.token,
             failed |-> IF new.failed = read.failed THEN connection.failed ELSE new.failed,
             sync |-> IF new.sync = read.sync THEN connection.sync ELSE new.sync]
  BY <1>2
<1> HIDE DEF row
<1>4. row \in ConnectionType
  BY <1>3 DEF ConnectionType
<1>5. QED
  BY <1>3, <1>4 DEF row

(* An answer writes the merged row, and a new token at most.               *)
LEMMA AnswerFacts ==
  ASSUME CloudInv, NEW c \in CloudSessions, NEW op, NEW new \in ConnectionType,
         Answered(c, op, new)
  PROVE  LET read == cloudCalls[c].read IN
         /\ connection' \in ConnectionType
         /\ connection'.status = IF new.status = read.status THEN connection.status ELSE new.status
         /\ connection'.account =
              IF new.account = read.account THEN connection.account ELSE new.account
         /\ connection'.remote = IF new.remote = read.remote THEN connection.remote ELSE new.remote
         /\ CloudShape'
         /\ cloudCalls'[c].op = "none" /\ cloudCalls[c].op = op
         /\ \A d \in CloudSessions \ {c} : cloudCalls'[d] = cloudCalls[d]
PROOF
<1> DEFINE read == cloudCalls[c].read
           row == MergedRow(read, new)
<1>1. read \in ConnectionType /\ connection \in ConnectionType
  BY DEF CloudInv, CloudShape
<1>2. /\ connection' \in {row, [row EXCEPT !.token = TRUE]}
      /\ cloudCalls' = [cloudCalls EXCEPT ![c] = NoCloudCall]
      /\ cloudCalls[c].op = op
  BY DEF Answered, EndCloudCall
<1>3. NoCloudCall.op = "none" /\ NoCloudCall.read \in ConnectionType
  BY CloudAssumption DEF NoConnection, ConnectionType, NoCloudCall
<1>4. /\ row \in ConnectionType
      /\ row.status = IF new.status = read.status THEN connection.status ELSE new.status
      /\ row.account = IF new.account = read.account THEN connection.account ELSE new.account
      /\ row.remote = IF new.remote = read.remote THEN connection.remote ELSE new.remote
  BY <1>1, MergedFacts
<1> HIDE DEF row, read
<1>5. \A b \in BOOLEAN :
        /\ [row EXCEPT !.token = b] \in ConnectionType
        /\ [row EXCEPT !.token = b].status = row.status
        /\ [row EXCEPT !.token = b].account = row.account
        /\ [row EXCEPT !.token = b].remote = row.remote
  BY <1>4 DEF ConnectionType
<1>6. /\ connection' \in ConnectionType /\ connection'.status = row.status
      /\ connection'.account = row.account /\ connection'.remote = row.remote
  BY <1>2, <1>4, <1>5
<1>7. /\ cloudCalls'[c] = NoCloudCall
      /\ \A d \in CloudSessions \ {c} : cloudCalls'[d] = cloudCalls[d]
      /\ DOMAIN cloudCalls' = CloudSessions
      /\ cloudCalls' = [d \in CloudSessions |-> cloudCalls'[d]]
  BY <1>2 DEF CloudInv, CloudShape
<1>8. CloudShape'
  BY <1>3, <1>6, <1>7 DEF CloudInv, CloudShape
<1>9. QED
  BY <1>2, <1>3, <1>4, <1>6, <1>7, <1>8 DEF read

LEMMA CloudLoads ==
  ASSUME CloudInv, NEW c \in CloudSessions, NEW op, LoadConnection(c, op),
         op \in PageOps => c \in CloudUsers,
         op = "select" => connection.status = "pending_selection"
  PROVE  CloudInv'
PROOF
<1>1. /\ cloudCalls'[c].op = op /\ cloudCalls'[c].read = connection
      /\ \A d \in CloudSessions \ {c} : cloudCalls'[d] = cloudCalls[d]
      /\ DOMAIN cloudCalls' = CloudSessions
      /\ cloudCalls' = [d \in CloudSessions |-> cloudCalls'[d]]
      /\ UNCHANGED <<connection, cloudDevice>>
  BY DEF LoadConnection, CloudInv, CloudShape
<1>2. CloudShape'
  BY <1>1 DEF CloudInv, CloudShape
<1>3. \A d \in CloudUsers : PageHolds(d)'
  BY <1>1 DEF CloudInv, PageHolds, HasAccount, CloudSessions
<1>4. QED
  BY <1>1, <1>2, <1>3 DEF CloudInv, PolledIsComplete, HasAccount

(* Nothing that a poll writes undoes what a page has read, but its failure. *)
LEMMA PollAnswers ==
  ASSUME CloudInv, NEW new \in ConnectionType, Polled(new), UNCHANGED cloudDevice,
         new.status \in {PollRead.status, "error"},
         new.account = PollRead.account, new.remote = PollRead.remote
  PROVE  CloudInv'
PROOF
<1>1. Poller \in CloudSessions
  BY DEF CloudSessions
<1>2. /\ CloudShape'
      /\ connection'.status \in {connection.status, "error"}
      /\ connection'.account = connection.account /\ connection'.remote = connection.remote
      /\ cloudCalls'[Poller].op = "none"
      /\ \A d \in CloudSessions \ {Poller} : cloudCalls'[d] = cloudCalls[d]
  BY <1>1, AnswerFacts DEF Polled, PollRead
<1>3. \A d \in CloudUsers : PageHolds(d)'
  BY <1>2 DEF CloudInv, PageHolds, CloudSessions, PageOps
<1>4. QED
  BY <1>2, <1>3 DEF CloudInv, PolledIsComplete, HasAccount

LEMMA PageAnswers ==
  ASSUME \A c, d \in CloudUsers : c = d, CloudInv, NEW c \in CloudUsers,
         NEW op \in PageOps, NEW new \in ConnectionType, Answered(c, op, new),
         (PolledIsComplete /\ HasAccount)'
  PROVE  CloudInv'
PROOF
<1>1. c \in CloudSessions
  BY DEF CloudSessions
<1>2. CloudShape' /\ cloudCalls'[c].op = "none"
  BY <1>1, AnswerFacts
<1>3. \A d \in CloudUsers : PageHolds(d)'
  BY <1>2 DEF PageHolds, PageOps
<1>4. QED
  BY <1>2, <1>3 DEF CloudInv

LEMMA CloudPages ==
  ASSUME \A c, d \in CloudUsers : c = d, CloudInv, NEW c \in CloudUsers,
         \/ Connect(c) \/ SelectStation(c) \/ DisconnectCloud(c)
         \/ \E times \in SUBSET (1 .. MaxSample) : ImportHistory(c, times)
  PROVE  CloudInv'
PROOF
<1> DEFINE read == cloudCalls[c].read
<1>0. c \in CloudSessions /\ read \in ConnectionType
  BY DEF CloudInv, CloudShape, CloudSessions
<1>z. 0 \in 0 .. MaxFailed
  BY CloudAssumption
<1>h. PageHolds(c)
  BY DEF CloudInv
<1>1. CASE Connect(c)
  <2> DEFINE new == [status |-> "pending_selection", remote |-> FALSE, account |-> TRUE,
                     token |-> TRUE, failed |-> 0, sync |-> "none"]
  <2>1. new \in ConnectionType /\ new.status = "pending_selection" /\ new.account = TRUE
    BY <1>z DEF ConnectionType
  <2>2. Answered(c, "connect", new)
    BY <1>1 DEF Connect
  <2> HIDE DEF new
  <2>3. cloudCalls[c].op = "connect" /\ "connect" \in PageOps
    BY <2>2 DEF Answered, PageOps
  <2>4. /\ connection'.status \in {"pending_selection", "error"} /\ connection'.account
    BY <1>0, <1>h, <2>1, <2>2, <2>3, AnswerFacts DEF PageHolds
  <2>5. (PolledIsComplete /\ HasAccount)'
    BY <2>4 DEF PolledIsComplete, HasAccount
  <2>6. QED
    BY <2>1, <2>2, <2>3, <2>5, PageAnswers
<1>2. CASE SelectStation(c)
  <2> DEFINE new == [read EXCEPT !.status = "connected", !.remote = TRUE, !.failed = 0]
  <2>1. /\ new \in ConnectionType /\ new.status = "connected" /\ new.account = read.account
        /\ new.remote = TRUE
    BY <1>0, <1>z DEF ConnectionType
  <2>2. Answered(c, "select", new) /\ cloudDevice' = "active"
    BY <1>2 DEF SelectStation
  <2> HIDE DEF new
  <2>3. cloudCalls[c].op = "select" /\ "select" \in PageOps
    BY <2>2 DEF Answered, PageOps
  <2>4. connection'.remote /\ connection'.account
    BY <1>0, <1>h, <2>1, <2>2, <2>3, AnswerFacts DEF PageHolds
  <2>5. (PolledIsComplete /\ HasAccount)'
    BY <2>2, <2>4 DEF PolledIsComplete, HasAccount
  <2>6. QED
    BY <2>1, <2>2, <2>3, <2>5, PageAnswers
<1>3. CASE DisconnectCloud(c)
  <2> DEFINE new == Disconnected(read)
  <2>1. new \in ConnectionType /\ new.status = "disconnected"
    <3>1. \A a, t \in BOOLEAN :
            /\ [read EXCEPT !.status = "disconnected", !.account = a, !.token = t] \in ConnectionType
            /\ [read EXCEPT !.status = "disconnected", !.account = a, !.token = t].status
                 = "disconnected"
      BY <1>0 DEF ConnectionType
    <3>2. QED
      BY <3>1 DEF Disconnected
  <2>2. Answered(c, "disconnect", new)
    BY <1>3 DEF DisconnectCloud
  <2> HIDE DEF new
  <2>3. cloudCalls[c].op = "disconnect" /\ "disconnect" \in PageOps
    BY <2>2 DEF Answered, PageOps
  <2>4. connection'.status \in {"disconnected", "error"}
    BY <1>0, <1>h, <2>1, <2>2, <2>3, AnswerFacts DEF PageHolds
  <2>5. (PolledIsComplete /\ HasAccount)'
    BY <2>4 DEF PolledIsComplete, HasAccount
  <2>6. QED
    BY <2>1, <2>2, <2>3, <2>5, PageAnswers
<1>4. ASSUME NEW times \in SUBSET (1 .. MaxSample), ImportHistory(c, times) PROVE CloudInv'
  <2> DEFINE new == [read EXCEPT !.failed = 0, !.sync = "succeeded"]
  <2>1. /\ new \in ConnectionType /\ new.status = read.status /\ new.account = read.account
        /\ new.remote = read.remote
    BY <1>0, <1>z DEF ConnectionType
  <2>2. Answered(c, "import", new) /\ UNCHANGED cloudDevice
    BY <1>4 DEF ImportHistory
  <2> HIDE DEF new
  <2>3. "import" \in PageOps
    BY DEF PageOps
  <2>4. /\ connection'.status = connection.status /\ connection'.account = connection.account
        /\ connection'.remote = connection.remote
    BY <1>0, <2>1, <2>2, AnswerFacts
  <2>5. (PolledIsComplete /\ HasAccount)'
    BY <2>2, <2>4 DEF CloudInv, PolledIsComplete, HasAccount
  <2>6. QED
    BY <2>1, <2>2, <2>3, <2>5, PageAnswers
<1>5. QED
  BY <1>1, <1>2, <1>3, <1>4

LEMMA CloudPolls ==
  ASSUME CloudInv,
         PollYields \/ PollIsRefused \/ PollFindsNoService
           \/ \E time \in 1 .. MaxSample : PollSucceeds(time)
  PROVE  CloudInv'
PROOF
<1>0. PollRead \in ConnectionType
  BY DEF CloudInv, CloudShape, CloudSessions, PollRead
<1>z. 0 \in 0 .. MaxFailed
  BY CloudAssumption
<1> DEFINE failed == IF PollRead.failed < MaxFailed THEN PollRead.failed + 1 ELSE PollRead.failed
<1>f. failed \in 0 .. MaxFailed
  <2>1. PollRead.failed \in 0 .. MaxFailed
    BY <1>0 DEF ConnectionType
  <2>2. QED
    BY <2>1, CloudAssumption
<1> HIDE DEF failed
<1>1. CASE PollYields
  <2> DEFINE new == [PollRead EXCEPT !.sync = "skipped"]
  <2>1. /\ new \in ConnectionType /\ new.status = PollRead.status
        /\ new.account = PollRead.account /\ new.remote = PollRead.remote
    BY <1>0 DEF ConnectionType
  <2>2. Polled(new) /\ UNCHANGED cloudDevice
    BY <1>1 DEF PollYields
  <2> HIDE DEF new
  <2>3. QED
    BY <2>1, <2>2, PollAnswers
<1>2. CASE PollIsRefused
  <2> DEFINE new == [FailedPoll EXCEPT !.status = "error"]
  <2>1. new = [PollRead EXCEPT !.sync = "failed", !.failed = failed, !.status = "error"]
    BY <1>0 DEF FailedPoll, failed, ConnectionType
  <2>2. Polled(new) /\ UNCHANGED cloudDevice
    BY <1>2 DEF PollIsRefused
  <2> HIDE DEF new
  <2>3. /\ new \in ConnectionType /\ new.status = "error"
        /\ new.account = PollRead.account /\ new.remote = PollRead.remote
    BY <1>0, <1>f, <2>1 DEF ConnectionType
  <2>4. QED
    BY <2>2, <2>3, PollAnswers
<1>3. CASE PollFindsNoService
  <2>1. FailedPoll = [PollRead EXCEPT !.sync = "failed", !.failed = failed]
    BY <1>0 DEF FailedPoll, failed, ConnectionType
  <2>2. Polled(FailedPoll) /\ UNCHANGED cloudDevice
    BY <1>3 DEF PollFindsNoService
  <2>3. /\ FailedPoll \in ConnectionType /\ FailedPoll.status = PollRead.status
        /\ FailedPoll.account = PollRead.account /\ FailedPoll.remote = PollRead.remote
    BY <1>0, <1>f, <2>1 DEF ConnectionType
  <2>4. QED
    BY <2>2, <2>3, PollAnswers
<1>4. ASSUME NEW time \in 1 .. MaxSample, PollSucceeds(time) PROVE CloudInv'
  <2> DEFINE new == [PollRead EXCEPT !.sync = "succeeded", !.failed = 0]
  <2>1. /\ new \in ConnectionType /\ new.status = PollRead.status
        /\ new.account = PollRead.account /\ new.remote = PollRead.remote
    BY <1>0, <1>z DEF ConnectionType
  <2>2. Polled(new) /\ UNCHANGED cloudDevice
    BY <1>4 DEF PollSucceeds
  <2> HIDE DEF new
  <2>3. QED
    BY <2>1, <2>2, PollAnswers
<1>5. QED
  BY <1>1, <1>2, <1>3, <1>4

LEMMA CloudStep ==
  ASSUME \A c, d \in CloudUsers : c = d
  PROVE  CloudInv /\ [CloudNext]_cloudVars => CloudInv'
PROOF
<1> SUFFICES ASSUME CloudInv, [CloudNext]_cloudVars PROVE CloudInv'
  OBVIOUS
<1>1. ASSUME NEW c \in CloudUsers,
             LoadToConnect(c) \/ LoadToSelect(c) \/ LoadToImport(c) \/ LoadToDisconnect(c)
      PROVE  CloudInv'
  BY <1>1, CloudLoads DEF LoadToConnect, LoadToSelect, LoadToImport, LoadToDisconnect,
     PageOps, CloudSessions
<1>2. CASE LoadToPoll
  BY <1>2, CloudLoads DEF LoadToPoll, PageOps, CloudSessions
<1>3. ASSUME NEW c \in CloudSessions, CloudCallFails(c) PROVE CloudInv'
  <2>1. NoCloudCall.op = "none" /\ NoCloudCall.read \in ConnectionType
    BY CloudAssumption DEF NoConnection, ConnectionType, NoCloudCall
  <2>2. /\ cloudCalls'[c] = NoCloudCall
        /\ \A d \in CloudSessions \ {c} : cloudCalls'[d] = cloudCalls[d]
        /\ DOMAIN cloudCalls' = CloudSessions
        /\ cloudCalls' = [d \in CloudSessions |-> cloudCalls'[d]]
        /\ UNCHANGED <<connection, cloudDevice>>
    BY <1>3 DEF CloudCallFails, EndCloudCall, CloudInv, CloudShape
  <2>3. CloudShape'
    BY <2>1, <2>2 DEF CloudInv, CloudShape
  <2>4. \A d \in CloudUsers : PageHolds(d)'
    BY <2>1, <2>2 DEF CloudInv, PageHolds, PageOps, CloudSessions
  <2>5. QED
    BY <2>2, <2>3, <2>4 DEF CloudInv, PolledIsComplete, HasAccount
<1>4. CASE LocalDeviceChanges \/ UNCHANGED cloudVars
  BY <1>4 DEF LocalDeviceChanges, cloudVars, CloudInv, CloudShape, PageHolds, PolledIsComplete,
     HasAccount
<1>5. CASE TokenLapses
  <2>1. \A b \in BOOLEAN :
          /\ [connection EXCEPT !.token = b] \in ConnectionType
          /\ [connection EXCEPT !.token = b].status = connection.status
          /\ [connection EXCEPT !.token = b].account = connection.account
          /\ [connection EXCEPT !.token = b].remote = connection.remote
    BY DEF CloudInv, CloudShape, ConnectionType
  <2>2. /\ connection' \in ConnectionType /\ connection'.status = connection.status
        /\ connection'.account = connection.account /\ connection'.remote = connection.remote
        /\ UNCHANGED <<cloudDevice, cloudCalls>>
    BY <1>5, <2>1 DEF TokenLapses
  <2>3. CloudShape'
    BY <2>2 DEF CloudInv, CloudShape
  <2>4. \A d \in CloudUsers : PageHolds(d)'
    BY <2>2 DEF CloudInv, PageHolds
  <2>5. QED
    BY <2>2, <2>3, <2>4 DEF CloudInv, PolledIsComplete, HasAccount
<1>6. QED
  BY <1>1, <1>2, <1>3, <1>4, <1>5, CloudPages, CloudPolls DEF CloudNext

(* While the pages do not overlap, a connection that is polled has its     *)
(* account, a remote station and an active device, although nothing is     *)
(* locked and polls end under a later connection than they began under     *)
(* (start_connection, select_remote_station, disconnect, poll_connection). *)
THEOREM PolledConnectionsAreComplete ==
  ASSUME \A c, d \in CloudUsers : c = d
  PROVE  CloudSpec => []PolledIsComplete
PROOF
<1>1. CloudInv => PolledIsComplete
  BY DEF CloudInv
<1>2. QED
  BY CloudInitInv, CloudStep, <1>1, PTL DEF CloudSpec

(***************************************************************************)
(* A station's link to Home Assistant through an MQTT broker               *)
(***************************************************************************)
(* What a poll under way has read.  It holds the row of the link, so the   *)
(* link and the time of the observation are as it read them; a purge may   *)
(* have blanked the value.                                                 *)
PollHolds(p) ==
  /\ p.step \in {"exchange", "commit"}
  /\ link.enabled /\ p.stream = link.stream
  /\ p.publish => link.publish
  /\ p.loaded.at = mapping.at
  /\ mapping.value \in {p.loaded.value, Blank}
  /\ p.step = "commit" => p.message \in 0 .. Clock

MqttShape ==
  /\ DOMAIN polls = Pollers /\ polls = [w \in Pollers |-> polls[w]]
  /\ reported \in Seq(States)
  /\ link.stream \in 0 .. MaxConfig /\ link.revision \in 0 .. MaxConfig
  /\ link = [revision |-> link.revision, stream |-> link.stream, enabled |-> link.enabled,
             publish |-> link.publish, status |-> link.status, due |-> link.due]
  /\ link.enabled => link.stream \in 1 .. MaxConfig
  /\ package \in 0 .. MaxConfig
  /\ DOMAIN retained = 1 .. MaxConfig /\ \A s \in 1 .. MaxConfig : retained[s] \in 0 .. Clock
  /\ mapping = [at |-> mapping.at, value |-> mapping.value, available |-> mapping.available]
  /\ mapping.at \in Nat
  /\ mapping.value # Blank => mapping.at \in 1 .. Clock /\ mapping.value = reported[mapping.at]

OnePoll == \A v, w \in Pollers : polls[v] # NoPoll /\ polls[w] # NoPoll => v = w

MqttInv ==
  /\ MqttShape
  /\ OnePoll
  /\ \A w \in Pollers : polls[w] # NoPoll => PollHolds(polls[w])

LEMMA MqttInitInv == MqttInit => MqttInv
PROOF
<1> SUFFICES ASSUME MqttInit PROVE MqttInv
  OBVIOUS
<1>1. Len(reported) = 0 /\ reported \in Seq(States) /\ 0 \in 0 .. MaxConfig /\ 0 \in 0 .. 0
  BY MqttAssumption DEF MqttInit
<1>2. MqttShape
  BY <1>1, MqttAssumption DEF MqttInit, MqttShape, Unobserved, Clock
<1>3. QED
  BY <1>2 DEF MqttInit, MqttInv, OnePoll

(* The owner's steps, with the row of the link free.                       *)
LEMMA OwnerSteps ==
  ASSUME MqttInv, RowFree, UNCHANGED <<reported, package, retained, polls>>,
         link' = [revision |-> link'.revision, stream |-> link'.stream,
                  enabled |-> link'.enabled, publish |-> link'.publish,
                  status |-> link'.status, due |-> link'.due],
         link'.revision \in 0 .. MaxConfig, link'.stream \in 0 .. MaxConfig,
         link'.enabled => link'.stream \in 1 .. MaxConfig,
         mapping' \in {mapping, Unobserved}
  PROVE  MqttInv'
PROOF
<1>1. MqttShape'
  <2>1. /\ mapping' = [at |-> mapping'.at, value |-> mapping'.value, available |-> mapping'.available]
        /\ mapping'.at \in Nat
        /\ mapping'.value # Blank =>
             mapping'.at \in 1 .. Clock /\ mapping'.value = reported[mapping'.at]
    BY DEF MqttInv, MqttShape, Unobserved
  <2>2. QED
    BY <2>1 DEF MqttInv, MqttShape, Clock
<1>2. QED
  BY <1>1 DEF RowFree, MqttInv, OnePoll

(* A step that leaves the station's side alone but for link.due, its       *)
(* status and the polls.                                                   *)
LEMMA PollEnds ==
  ASSUME MqttInv, NEW w \in Pollers, polls[w] # NoPoll, polls' = [polls EXCEPT ![w] = NoPoll],
         MqttShape'
  PROVE  MqttInv'
PROOF
<1>1. \A v \in Pollers : polls'[v] = NoPoll
  BY DEF MqttInv, OnePoll, MqttShape
<1>2. QED
  BY <1>1 DEF MqttInv, OnePoll

LEMMA MqttPolls ==
  ASSUME MqttInv, NEW w \in Pollers,
         BeginPoll(w) \/ Exchange(w) \/ CommitPoll(w) \/ FailPoll(w) \/ PollDies(w)
  PROVE  MqttInv'
PROOF
<1>0. \A v \in Pollers : polls[v] # NoPoll => PollHolds(polls[v])
  BY DEF MqttInv
<1>n. \A step \in {"exchange", "commit"} : polls[w].step = step => polls[w] # NoPoll
  BY DEF NoPoll
<1>1. CASE BeginPoll(w)
  <2>0. PICK p : p = [step |-> "exchange", stream |-> link.stream, publish |-> link.publish,
                      loaded |-> mapping, oldest |-> erasedTo]
    OBVIOUS
  <2>1. /\ polls' = [polls EXCEPT ![w] = p] /\ RowFree /\ link.enabled
        /\ UNCHANGED <<link, mapping, reported, package, retained>>
    BY <1>1, <2>0 DEF BeginPoll
  <2>2. PollHolds(p)'
    BY <2>0, <2>1 DEF PollHolds
  <2>3. \A v \in Pollers : polls'[v] = IF v = w THEN p ELSE NoPoll
    BY <2>1 DEF RowFree, MqttInv, MqttShape
  <2>4. MqttShape'
    BY <2>1 DEF MqttInv, MqttShape, Clock
  <2>5. \A v \in Pollers : polls'[v] # NoPoll => PollHolds(polls[v])'
    BY <2>1, <2>2, <2>3 DEF PollHolds, Clock
  <2>6. QED
    BY <2>3, <2>4, <2>5 DEF MqttInv, OnePoll
<1>2. CASE Exchange(w)
  <2>0. PICK p : p = [step |-> "commit", stream |-> polls[w].stream,
                      publish |-> polls[w].publish, loaded |-> polls[w].loaded,
                      oldest |-> polls[w].oldest, message |-> retained[polls[w].stream]]
    OBVIOUS
  <2>1. /\ polls' = [polls EXCEPT ![w] = p] /\ polls[w] # NoPoll
        /\ UNCHANGED <<link, mapping, reported, package, retained>>
    BY <1>2, <1>n, <2>0 DEF Exchange
  <2>2. PollHolds(polls[w])
    BY <1>0, <2>1
  <2>3. retained[polls[w].stream] \in 0 .. Clock
    BY <2>2 DEF PollHolds, MqttInv, MqttShape
  <2>4. PollHolds(p)'
    BY <2>0, <2>1, <2>2, <2>3 DEF PollHolds, Clock
  <2>5. \A v \in Pollers : polls'[v] = IF v = w THEN p ELSE NoPoll
    BY <2>1 DEF MqttInv, MqttShape, OnePoll
  <2>6. MqttShape'
    BY <2>1 DEF MqttInv, MqttShape, Clock
  <2>7. \A v \in Pollers : polls'[v] # NoPoll => PollHolds(polls[v])'
    BY <2>1, <2>4, <2>5 DEF PollHolds, Clock
  <2>8. QED
    BY <2>5, <2>6, <2>7 DEF MqttInv, OnePoll
<1>3. CASE CommitPoll(w)
  <2> DEFINE p == polls[w]
             row == Written(mapping, p)
  <2>1. /\ polls' = [polls EXCEPT ![w] = NoPoll] /\ p # NoPoll /\ p.step = "commit"
        /\ mapping' = IF Takes(p) THEN row ELSE mapping
        /\ link' = [link EXCEPT !.status = "connected", !.due = FALSE]
        /\ UNCHANGED <<reported, package, retained>>
    BY <1>3, <1>n DEF CommitPoll
  <2>2. PollHolds(p) /\ Clock \in Nat /\ mapping.at \in Nat
    BY <1>0, <2>1 DEF MqttInv, MqttShape, Clock
  <2>3. ASSUME Takes(p)
        PROVE  /\ row = [at |-> row.at, value |-> row.value, available |-> row.available]
               /\ row.at \in 1 .. Clock
               /\ row.value # Blank => row.value = reported[row.at]
    <3>1. p.message \in 1 .. Clock
      BY <2>1, <2>2, <2>3 DEF Takes, PollHolds
    <3>2. row.at = p.message
      BY DEF Written
    <3>3. row.value \in {reported[p.message], Blank}
      BY <2>2 DEF Written, PollHolds
    <3>4. row = [at |-> row.at, value |-> row.value, available |-> row.available]
      BY DEF Written
    <3>5. QED
      BY <3>1, <3>2, <3>3, <3>4
  <2> HIDE DEF row
  <2>4. /\ mapping' = [at |-> mapping'.at, value |-> mapping'.value, available |-> mapping'.available]
        /\ mapping'.at \in Nat
        /\ mapping'.value # Blank =>
             mapping'.at \in 1 .. Clock /\ mapping'.value = reported[mapping'.at]
    BY <2>1, <2>2, <2>3 DEF MqttInv, MqttShape
  <2>5. link'.stream = link.stream /\ link'.revision = link.revision /\ link'.enabled = link.enabled
        /\ link' = [revision |-> link.revision, stream |-> link.stream, enabled |-> link.enabled,
                    publish |-> link.publish, status |-> "connected", due |-> FALSE]
    BY <2>1 DEF MqttInv, MqttShape
  <2>6. DOMAIN polls' = Pollers /\ polls' = [v \in Pollers |-> polls'[v]]
    BY <2>1 DEF MqttInv, MqttShape
  <2>7. MqttShape'
    BY <2>1, <2>4, <2>5, <2>6 DEF MqttInv, MqttShape, Clock
  <2>8. QED
    BY <2>1, <2>7, PollEnds
<1>4. CASE FailPoll(w)
  <2>1. /\ polls' = [polls EXCEPT ![w] = NoPoll] /\ polls[w] # NoPoll
        /\ link' = [link EXCEPT !.status = "retrying", !.due = FALSE]
        /\ UNCHANGED <<mapping, reported, package, retained>>
    BY <1>4, <1>n DEF FailPoll
  <2>2. link' = [revision |-> link.revision, stream |-> link.stream, enabled |-> link.enabled,
                 publish |-> link.publish, status |-> "retrying", due |-> FALSE]
    BY <2>1 DEF MqttInv, MqttShape
  <2>3. DOMAIN polls' = Pollers /\ polls' = [v \in Pollers |-> polls'[v]]
    BY <2>1 DEF MqttInv, MqttShape
  <2>4. MqttShape'
    BY <2>1, <2>2, <2>3 DEF MqttInv, MqttShape, Clock
  <2>5. QED
    BY <2>1, <2>4, PollEnds
<1>5. CASE PollDies(w)
  <2>1. /\ polls' = [polls EXCEPT ![w] = NoPoll] /\ polls[w] # NoPoll
        /\ UNCHANGED <<link, mapping, reported, package, retained>>
    BY <1>5 DEF PollDies
  <2>2. DOMAIN polls' = Pollers /\ polls' = [v \in Pollers |-> polls'[v]]
    BY <2>1 DEF MqttInv, MqttShape
  <2>3. MqttShape'
    BY <2>1, <2>2 DEF MqttInv, MqttShape, Clock
  <2>4. QED
    BY <2>1, <2>3, PollEnds
<1>6. QED
  BY <1>1, <1>2, <1>3, <1>4, <1>5

LEMMA MqttReports ==
  ASSUME MqttInv, NEW value \in States, SensorReports(value) PROVE MqttInv'
PROOF
<1>1. /\ reported' = Append(reported, value) /\ package # 0
      /\ retained' = [retained EXCEPT ![package] = Clock + 1]
      /\ UNCHANGED <<link, mapping, package, polls>>
  BY DEF SensorReports
<1>2. /\ reported' \in Seq(States) /\ Clock \in Nat /\ Clock' = Clock + 1
      /\ \A i \in 1 .. Clock : reported'[i] = reported[i]
  BY <1>1 DEF MqttInv, MqttShape, Clock
<1>3. 1 .. Clock \subseteq 1 .. Clock' /\ 0 .. Clock \subseteq 0 .. Clock' /\ Clock + 1 \in 0 .. Clock'
  BY <1>2
<1>4. DOMAIN retained' = 1 .. MaxConfig /\ \A s \in 1 .. MaxConfig : retained'[s] \in 0 .. Clock'
  BY <1>1, <1>3 DEF MqttInv, MqttShape
<1>5. MqttShape'
  BY <1>1, <1>2, <1>3, <1>4 DEF MqttInv, MqttShape
<1>6. \A w \in Pollers : polls'[w] # NoPoll => PollHolds(polls[w])'
  BY <1>1, <1>3 DEF MqttInv, PollHolds
<1>7. QED
  BY <1>1, <1>5, <1>6 DEF MqttInv, OnePoll

LEMMA MqttStep == MqttInv /\ [MqttNext]_mqttVars => MqttInv'
PROOF
<1> SUFFICES ASSUME MqttInv, [MqttNext]_mqttVars PROVE MqttInv'
  OBVIOUS
<1>0. /\ MaxConfig \in Nat /\ 0 \in 0 .. MaxConfig
      /\ link.revision \in 0 .. MaxConfig /\ link.stream \in 0 .. MaxConfig
      /\ link.enabled => link.stream \in 1 .. MaxConfig
  BY MqttAssumption DEF MqttInv, MqttShape
<1>1. ASSUME NEW publish \in BOOLEAN, ConfigureMqtt(publish) PROVE MqttInv'
  <2>1. link.revision + 1 \in 0 .. MaxConfig /\ link.revision + 1 \in 1 .. MaxConfig
    BY <1>0, <1>1 DEF ConfigureMqtt
  <2>2. QED
    BY <1>1, <2>1, OwnerSteps DEF ConfigureMqtt
<1>2. CASE RevokeMqtt
  <2>1. link.revision + 1 \in 0 .. MaxConfig
    BY <1>0, <1>2 DEF RevokeMqtt
  <2>2. QED
    BY <1>2, <2>1, OwnerSteps DEF RevokeMqtt
<1>3. ASSUME NEW rotate \in BOOLEAN, TestMqtt(rotate) PROVE MqttInv'
  <2> DEFINE next == IF rotate THEN link.revision + 1 ELSE link.revision
  <2>1. next \in 0 .. MaxConfig
    BY <1>0, <1>3 DEF TestMqtt
  <2>2. link' = [revision |-> next, stream |-> link.stream, enabled |-> link.enabled,
                 publish |-> link.publish, status |-> "test_pending", due |-> TRUE]
    BY <1>3 DEF TestMqtt, MqttInv, MqttShape
  <2> HIDE DEF next
  <2>3. /\ link' = [revision |-> link'.revision, stream |-> link'.stream,
                    enabled |-> link'.enabled, publish |-> link'.publish,
                    status |-> link'.status, due |-> link'.due]
        /\ link'.revision \in 0 .. MaxConfig /\ link'.stream \in 0 .. MaxConfig
        /\ link'.enabled => link'.stream \in 1 .. MaxConfig
    BY <1>0, <2>1, <2>2
  <2>4. QED
    BY <1>3, <2>3, OwnerSteps DEF TestMqtt
<1>4. CASE InstallPackage
  <2>1. package' \in 0 .. MaxConfig /\ UNCHANGED <<link, mapping, reported, retained, polls>>
    BY <1>0, <1>4 DEF InstallPackage
  <2>2. QED
    BY <2>1 DEF MqttInv, MqttShape, OnePoll, PollHolds, Clock
<1>5. CASE MessageAges \/ UNCHANGED mqttVars
  <2>1. UNCHANGED <<link, mapping, reported, package, retained, polls>>
    BY <1>5 DEF MessageAges, mqttVars
  <2>2. MqttShape' /\ OnePoll'
    BY <2>1 DEF MqttInv, MqttShape, OnePoll, Clock
  <2>3. \A w \in Pollers : polls'[w] # NoPoll => PollHolds(polls[w])'
    BY <2>1 DEF MqttInv, PollHolds, Clock
  <2>4. QED
    BY <2>2, <2>3 DEF MqttInv
<1>6. CASE PurgeMapping
  <2>1. /\ mapping' = [at |-> mapping.at, value |-> Blank, available |-> FALSE]
        /\ UNCHANGED <<link, reported, package, retained, polls>>
    BY <1>6 DEF PurgeMapping, MqttInv, MqttShape
  <2>2. MqttShape'
    BY <2>1 DEF MqttInv, MqttShape, Clock
  <2>3. \A w \in Pollers : polls'[w] # NoPoll => PollHolds(polls[w])'
    BY <2>1 DEF MqttInv, PollHolds, Clock
  <2>4. QED
    BY <2>1, <2>2, <2>3 DEF MqttInv, OnePoll
<1>7. CASE NextAttempt
  <2>1. /\ link' = [revision |-> link.revision, stream |-> link.stream, enabled |-> link.enabled,
                    publish |-> link.publish, status |-> link.status, due |-> TRUE]
        /\ UNCHANGED <<mapping, reported, package, retained, polls>>
    BY <1>7 DEF NextAttempt, MqttInv, MqttShape
  <2>2. MqttShape'
    BY <2>1 DEF MqttInv, MqttShape, Clock
  <2>3. \A w \in Pollers : polls'[w] # NoPoll => PollHolds(polls[w])'
    BY <2>1 DEF MqttInv, PollHolds, Clock
  <2>4. QED
    BY <2>1, <2>2, <2>3 DEF MqttInv, OnePoll
<1>8. QED
  BY <1>1, <1>2, <1>3, <1>4, <1>5, <1>6, <1>7, MqttPolls, MqttReports DEF MqttNext

(* What a station is shown of its sensor is what the sensor reported at    *)
(* the time beside it, or nothing, and no exchange outlives the consent it *)
(* began under, however purges, polls of several workers and the owner's   *)
(* changes interleave (poll_connection, ingest, purge_context, configure,  *)
(* manage).                                                                *)
THEOREM ObservationsAreWhole == MqttSpec => []ContextIsWhole
PROOF
<1>1. MqttInv => ContextIsWhole
  BY DEF MqttInv, MqttShape, PollHolds, ContextIsWhole
<1>2. QED
  BY MqttInitInv, MqttStep, <1>1, PTL DEF MqttSpec

(***************************************************************************)
(* Sensors of a station in Home Assistant                                  *)
(*                                                                         *)
(* What is shown fits the mapping in force, for any sensors and bounds.    *)
(* With the types this is inductive: whatever changes the version, the     *)
(* mapping or the switch also empties the observations.                    *)
(***************************************************************************)
BridgeInv == BridgeTypeOK /\ ObservationsFitMapping

(* After the observations were emptied there is nothing to fit.            *)
LEMMA EmptiedFits ==
  ASSUME observed' = NoObservations
  PROVE  /\ ObservationsFitMapping'
         /\ observed' \in [Entities -> [at : 0 .. MaxObserved, version : 0 .. MaxGeneration,
                                        valued : BOOLEAN]]
<1>1. Nothing \in [at : 0 .. MaxObserved, version : 0 .. MaxGeneration, valued : BOOLEAN]
  BY BridgeAssumption DEF Nothing
<1>2. \A e \in Entities : observed'[e] = Nothing
  BY DEF NoObservations
<1>3. ObservationsFitMapping'
  BY <1>2 DEF ObservationsFitMapping, Nothing
<1>4. QED
  BY <1>1, <1>3 DEF NoObservations

LEMMA BridgeInitFits == BridgeInit => BridgeInv
<1> SUFFICES ASSUME BridgeInit PROVE BridgeInv
  OBVIOUS
<1>1. Nothing \in [at : 0 .. MaxObserved, version : 0 .. MaxGeneration, valued : BOOLEAN]
  BY BridgeAssumption DEF Nothing
<1>2. BridgeTypeOK
  BY <1>1, BridgeAssumption DEF BridgeInit, BridgeTypeOK, NoObservations
<1>3. ObservationsFitMapping
  BY DEF BridgeInit, ObservationsFitMapping, NoObservations, Nothing
<1>4. QED
  BY <1>2, <1>3 DEF BridgeInv

LEMMA BridgeStepFits == BridgeInv /\ [BridgeNext]_bridgeVars => BridgeInv'
<1> SUFFICES ASSUME BridgeInv, [BridgeNext]_bridgeVars PROVE BridgeInv'
  OBVIOUS
<1> USE BridgeAssumption
<1>0. BridgeTypeOK /\ ObservationsFitMapping
  BY DEF BridgeInv
<1>1. ASSUME NEW pairing \in BOOLEAN, ResetBridge(pairing)
      PROVE  BridgeInv'
  <2> DEFINE new == [version |-> bridge.version + 1, pairing |-> pairing, token |-> 0,
                     enabled |-> FALSE, mapped |-> {}]
  <2>1. bridge' \in [version : 0 .. MaxGeneration, pairing : BOOLEAN, token : 0 .. MaxGeneration,
                     enabled : BOOLEAN, mapped : SUBSET Entities]
    <3>1. bridge.version + 1 \in 0 .. MaxGeneration /\ 0 \in 0 .. MaxGeneration
      BY <1>0, <1>1 DEF ResetBridge, BridgeTypeOK
    <3>2. new \in [version : 0 .. MaxGeneration, pairing : BOOLEAN, token : 0 .. MaxGeneration,
                   enabled : BOOLEAN, mapped : SUBSET Entities]
      BY <3>1, Zenon
    <3>3. bridge' = new
      BY <1>1 DEF ResetBridge
    <3>4. QED
      BY <3>2, <3>3, Zenon
  <2>2. QED
    BY <1>0, <1>1, <2>1, EmptiedFits DEF ResetBridge, BridgeInv, BridgeTypeOK
<1>2. CASE PairingExpires \/ TokenExpires
  <2>1. /\ UNCHANGED <<observed, agent, sent>>
        /\ bridge' = [bridge EXCEPT !.pairing = FALSE] \/ bridge' = [bridge EXCEPT !.token = 0]
    BY <1>2 DEF PairingExpires, TokenExpires
  <2>2. BridgeTypeOK'
    <3>1. CASE bridge' = [bridge EXCEPT !.pairing = FALSE]
      BY <1>0, <2>1, <3>1 DEF BridgeTypeOK
    <3>2. CASE bridge' = [bridge EXCEPT !.token = 0]
      BY <1>0, <2>1, <3>2 DEF BridgeTypeOK
    <3>3. QED
      BY <2>1, <3>1, <3>2
  <2>3. ObservationsFitMapping'
    BY <1>0, <2>1 DEF BridgeTypeOK, ObservationsFitMapping
  <2>4. QED
    BY <2>2, <2>3 DEF BridgeInv
<1>3. ASSUME NEW lost \in BOOLEAN, Redeem(lost)
      PROVE  BridgeInv'
  <2>1. BridgeTypeOK'
    BY <1>0, <1>3 DEF Redeem, BridgeTypeOK
  <2>2. ObservationsFitMapping'
    BY <1>0, <1>3 DEF Redeem, BridgeTypeOK, ObservationsFitMapping
  <2>3. QED
    BY <2>1, <2>2 DEF BridgeInv
<1>4. ASSUME NEW mapped \in SUBSET Entities, NEW lost \in BOOLEAN, Configure(mapped, lost)
      PROVE  BridgeInv'
  <2>1. CASE UNCHANGED <<bridge, observed>>
    BY <1>0, <1>4, <2>1 DEF Configure, BridgeInv, BridgeTypeOK, ObservationsFitMapping
  <2>2. CASE /\ bridge.version < MaxGeneration
             /\ bridge' = [bridge EXCEPT !.version = @ + 1, !.mapped = mapped, !.enabled = TRUE]
             /\ observed' = NoObservations
    <3>1. bridge' \in [version : 0 .. MaxGeneration, pairing : BOOLEAN,
                       token : 0 .. MaxGeneration, enabled : BOOLEAN, mapped : SUBSET Entities]
      <4>1. bridge.version + 1 \in 0 .. MaxGeneration /\ TRUE \in BOOLEAN
        BY <1>0, <2>2 DEF BridgeTypeOK
      <4>2. \A n \in 0 .. MaxGeneration :
              [bridge EXCEPT !.version = n, !.mapped = mapped, !.enabled = TRUE] \in
                [version : 0 .. MaxGeneration, pairing : BOOLEAN,
                 token : 0 .. MaxGeneration, enabled : BOOLEAN, mapped : SUBSET Entities]
        BY <1>0 DEF BridgeTypeOK
      <4>3. QED
        BY <2>2, <4>1, <4>2
    <3>2. QED
      BY <1>0, <1>4, <2>2, <3>1, EmptiedFits DEF Configure, BridgeInv, BridgeTypeOK
  <2>3. QED
    BY <1>4, <2>1, <2>2 DEF Configure
<1>5. ASSUME NEW e \in Entities, Sample(e)
      PROVE  BridgeInv'
  BY <1>0, <1>5 DEF Sample, BridgeInv, BridgeTypeOK, ObservationsFitMapping
<1>6. CASE ClockAdvances
  BY <1>0, <1>6 DEF ClockAdvances, BridgeInv, BridgeTypeOK, ObservationsFitMapping
<1>7. ASSUME NEW m \in sent, Ingest(m)
      PROVE  BridgeInv'
  <2> DEFINE new == [at |-> m.at, version |-> m.version, valued |-> TRUE]
  <2>1. /\ m.entity \in Entities
        /\ new \in [at : 0 .. MaxObserved, version : 0 .. MaxGeneration, valued : BOOLEAN]
    BY <1>0 DEF BridgeTypeOK
  <2>2. observed' = [observed EXCEPT ![m.entity] = new] /\ UNCHANGED <<bridge, agent, sent>>
    BY <1>7 DEF Ingest
  <2>3. BridgeTypeOK'
    BY <1>0, <2>1, <2>2 DEF BridgeTypeOK
  <2>4. ObservationsFitMapping'
    BY <1>0, <1>7, <2>1, <2>2 DEF Ingest, OfThisMapping, BridgeTypeOK, ObservationsFitMapping
  <2>5. QED
    BY <2>3, <2>4 DEF BridgeInv
<1>8. CASE PurgeContext
  <2>1. PICK limit \in 1 .. MaxObserved : observed' = [e \in Entities |->
          IF observed[e].at < limit THEN [observed[e] EXCEPT !.valued = FALSE] ELSE observed[e]]
    BY <1>8 DEF PurgeContext
  <2>2. UNCHANGED <<bridge, agent, sent>>
    BY <1>8 DEF PurgeContext
  <2>3. \A e \in Entities : /\ observed'[e] \in [at : 0 .. MaxObserved,
                                  version : 0 .. MaxGeneration, valued : BOOLEAN]
                            /\ observed'[e].at = observed[e].at
                            /\ observed'[e].version = observed[e].version
    BY <1>0, <2>1 DEF BridgeTypeOK
  <2>4. BridgeTypeOK'
    BY <1>0, <2>1, <2>2, <2>3 DEF BridgeTypeOK
  <2>5. ObservationsFitMapping'
    BY <1>0, <2>2, <2>3 DEF ObservationsFitMapping
  <2>6. QED
    BY <2>4, <2>5 DEF BridgeInv
<1>9. CASE UNCHANGED bridgeVars
  BY <1>0, <1>9 DEF bridgeVars, BridgeInv, BridgeTypeOK, ObservationsFitMapping
<1>10. QED
  BY <1>1, <1>2, <1>3, <1>4, <1>5, <1>6, <1>7, <1>8, <1>9
  DEF BridgeNext, IssuePairing, Disconnect

(* ObservationsFitMapping for any sensors and bounds: no late sample and   *)
(* no lost answer brings back what a mapping, a pairing or a disconnection *)
(* has ended (ingest, configure, revoke).                                  *)
THEOREM ShownFitsMapping == BridgeSpec => []ObservationsFitMapping
<1>1. BridgeInv => ObservationsFitMapping
  BY DEF BridgeInv
<1>2. QED
  BY BridgeInitFits, BridgeStepFits, <1>1, PTL DEF BridgeSpec
==============================================================================
