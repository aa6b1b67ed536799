----------------------------- MODULE EvSessions -----------------------------
(***************************************************************************)
(* The charging sessions of an EV connector: the observations its device   *)
(* sends, in any order and more than once, the session they open and       *)
(* close, the consent to vehicle data, and retention.                      *)
(*                                                                         *)
(* Every writer holds the lock of the station, so an operation is one      *)
(* action; only the privacy route loads the EVSE before it waits for the   *)
(* lock.  An event that repeats one of the same id changes nothing.  Time  *)
(* is counted in days, fine enough for the retention window.               *)
(***************************************************************************)
EXTENDS Integers

CONSTANTS
  Vehicles,
  NoVehicle,
  Retentions,   \* choices of retention_days
  MaxDay,       \* bound: time
  PrivacyCalls  \* requests of the privacy route

ASSUME EvAssumption ==
  /\ NoVehicle \notin Vehicles
  /\ Retentions \subseteq Nat \ {0} /\ Retentions # {}
  /\ MaxDay \in Nat \ {0}

VARIABLES
  connector,    \* EVConnector: state and last_observed_at
  sessions,     \* ChargingSession rows; the start identifies one
  observations, \* EVObservation rows
  requirements, \* vehicles named by EVRequirement rows
  evse,         \* consent and retention_days
  today,
  privacy       \* the EVSE as a privacy request loaded it

evVars == <<connector, sessions, observations, requirements, evse, today, privacy>>

Never == 0   \* an instant before every other; the end of an open session
Days == 1 .. MaxDay

Transitions ==
  [unknown      |-> {"disconnected", "connected", "available", "charging", "paused", "completed", "faulted"},
   disconnected |-> {"disconnected", "connected", "available", "charging", "faulted"},
   connected    |-> {"connected", "available", "charging", "paused", "completed", "disconnected", "faulted"},
   available    |-> {"available", "connected", "charging", "disconnected", "faulted"},
   charging     |-> {"charging", "paused", "completed", "connected", "disconnected", "faulted"},
   paused       |-> {"paused", "charging", "connected", "completed", "disconnected", "faulted"},
   completed    |-> {"completed", "available", "connected", "charging", "disconnected", "faulted"},
   faulted      |-> {"faulted", "available", "connected", "charging", "paused", "disconnected", "completed"}]

Occupied == {"connected", "charging", "paused"}
Closing == {"disconnected", "completed"}

NotLoaded == [loaded |-> FALSE, consent |-> FALSE]

EvInit ==
  /\ connector = [state |-> "unknown", last |-> Never]
  /\ sessions = {}
  /\ observations = {}
  /\ requirements = {}
  /\ evse \in [consent : BOOLEAN, retention : Retentions]
  /\ today = 1
  /\ privacy = [c \in PrivacyCalls |-> NotLoaded]

Cutoff == today - evse.retention
OpenSessions == {s \in sessions : s.end = Never}

(***************************************************************************)
(* ingest_observation                                                      *)
(***************************************************************************)
(* vehicle_scope and the declared capabilities                             *)
VehicleDataAllowed(vehicle, soc) == vehicle # NoVehicle \/ soc => evse.consent

Late(at) == connector.last # Never /\ at <= connector.last

(* Late: the observation is stored and nothing else, whatever it says.     *)
RetainLate(at, soc) ==
  /\ soc => evse.consent
  /\ Cutoff <= at /\ at <= today
  /\ Late(at)
  /\ observations' = observations \cup {[at |-> at, session |-> Never, soc |-> soc]}
  /\ UNCHANGED <<connector, sessions, requirements, evse, today, privacy>>

(* Mutant: a session stays open when charging has completed.               *)
EndsUnplugged == {"disconnected"}

EndsSession == Closing

(* The session that an applied observation belongs to, if any.             *)
SessionOf(at, state, vehicle) ==
  IF OpenSessions # {} THEN OpenSessions
  ELSE IF state \in Occupied THEN {[start |-> at, end |-> Never, vehicle |-> vehicle]}
  ELSE {}

Updated(s, at, state, vehicle) ==
  [s EXCEPT !.vehicle = IF vehicle = NoVehicle THEN @ ELSE vehicle,
            !.end = IF state \in EndsSession THEN at ELSE @]

ApplyObservation(at, state, vehicle, soc) ==
  LET own == SessionOf(at, state, vehicle) IN
  /\ VehicleDataAllowed(vehicle, soc)
  /\ Cutoff <= at /\ at <= today
  /\ ~Late(at)
  /\ state \in Transitions[connector.state]
  /\ \A s \in own : vehicle # NoVehicle => s.vehicle \in {NoVehicle, vehicle}
  /\ sessions' = (sessions \ own) \cup {Updated(s, at, state, vehicle) : s \in own}
  /\ observations' = observations \cup
       IF own = {} THEN {[at |-> at, session |-> Never, soc |-> soc]}
       ELSE {[at |-> at, session |-> s.start, soc |-> soc] : s \in own}
  /\ connector' = [state |-> state, last |-> at]
  /\ UNCHANGED <<requirements, evse, today, privacy>>

(***************************************************************************)
(* Operators of the station                                                *)
(***************************************************************************)
CreateRequirement(vehicle) ==
  /\ evse.consent
  /\ requirements' = requirements \cup {vehicle}
  /\ UNCHANGED <<connector, sessions, observations, evse, today, privacy>>

(* The privacy route reads the EVSE and then waits for the station.        *)
LoadPrivacy(c) ==
  /\ ~privacy[c].loaded
  /\ privacy' = [privacy EXCEPT ![c] = [loaded |-> TRUE, consent |-> evse.consent]]
  /\ UNCHANGED <<connector, sessions, observations, requirements, evse, today>>

(* Mutant: the history of the sessions keeps its vehicles.                 *)
KeepVehicles(rows) == rows

WithoutVehicles(rows) == {[s EXCEPT !.vehicle = NoVehicle] : s \in rows}

(* update_privacy: a value equal to the one that was loaded is no change,  *)
(* and nothing is written.                                                 *)
UpdatePrivacy(c, consent, days) ==
  /\ privacy[c].loaded
  /\ evse' = [consent |-> IF consent = privacy[c].consent THEN evse.consent ELSE consent,
              retention |-> days]
  /\ IF consent
     THEN UNCHANGED <<sessions, observations, requirements>>
     ELSE /\ sessions' = WithoutVehicles(sessions)
          /\ observations' = {[o EXCEPT !.soc = FALSE] : o \in observations}
          /\ requirements' = {}
  /\ privacy' = [privacy EXCEPT ![c] = NotLoaded]
  /\ UNCHANGED <<connector, today>>

(* The daily task: ended sessions go with their observations.              *)
EvRetention ==
  LET old == {s \in sessions : s.end # Never /\ s.end < Cutoff} IN
  /\ sessions' = sessions \ old
  /\ observations' = {o \in observations :
       IF o.session = Never THEN o.at >= Cutoff ELSE o.session \notin {s.start : s \in old}}
  /\ UNCHANGED <<connector, requirements, evse, today, privacy>>

DayPasses ==
  /\ today < MaxDay
  /\ today' = today + 1
  /\ UNCHANGED <<connector, sessions, observations, requirements, evse, privacy>>

EvNext ==
  \/ \E at \in Days, state \in DOMAIN Transitions \ {"unknown"},
        vehicle \in Vehicles \cup {NoVehicle}, soc \in BOOLEAN :
       ApplyObservation(at, state, vehicle, soc)
  \/ \E at \in Days, soc \in BOOLEAN : RetainLate(at, soc)
  \/ \E v \in Vehicles : CreateRequirement(v)
  \/ \E c \in PrivacyCalls : LoadPrivacy(c)
  \/ \E c \in PrivacyCalls, consent \in BOOLEAN, r \in Retentions : UpdatePrivacy(c, consent, r)
  \/ EvRetention \/ DayPasses

EvSpec == EvInit /\ [][EvNext]_evVars

(***************************************************************************)
(* Properties                                                              *)
(***************************************************************************)
EvTypeOK ==
  /\ connector \in [state : DOMAIN Transitions, last : 0 .. MaxDay]
  /\ sessions \subseteq [start : Days, end : 0 .. MaxDay, vehicle : Vehicles \cup {NoVehicle}]
  /\ observations \subseteq [at : Days, session : 0 .. MaxDay, soc : BOOLEAN]
  /\ requirements \subseteq Vehicles
  /\ evse \in [consent : BOOLEAN, retention : Retentions]
  /\ today \in Days
  /\ privacy \in [PrivacyCalls -> [loaded : BOOLEAN, consent : BOOLEAN]]

(* The sessions of a connector follow one another, the open one comes last *)
(* and the connector agrees with it, whatever the order in which its       *)
(* observations arrive and whatever retention removes.                     *)
SessionsFollowConnector ==
  /\ \A s, t \in sessions : s.start < t.start => s.end # Never /\ s.end < t.start
  /\ connector.state \in Occupied => OpenSessions # {}
  /\ connector.state \in Closing \cup {"unknown"} => OpenSessions = {}

(* While consent is withdrawn no row says which vehicle charged, although  *)
(* the request that withdraws it read the EVSE before it had the lock.     *)
VehicleDataNeedsConsent ==
  ~evse.consent =>
    /\ \A s \in sessions : s.vehicle = NoVehicle
    /\ \A o \in observations : ~o.soc
    /\ requirements = {}
=============================================================================
