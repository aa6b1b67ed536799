------------------------------ MODULE DeyeCloud ------------------------------
(***************************************************************************)
(* The connection of a station to Deye Cloud: connect, select the remote   *)
(* station, import its history, disconnect, and the task that polls it.    *)
(*                                                                         *)
(* Nothing is locked, and the handlers wait for the network between the    *)
(* read of the connection and its commit.  cloudCalls keeps what a session *)
(* has read; MergedRow is what its UPDATE makes of the row: it carries     *)
(* only the columns whose value differs from what was read.                *)
(***************************************************************************)
EXTENDS Integers, FiniteSets

CONSTANTS
  CloudUsers,    \* sessions that serve the pages
  MaxFailed,     \* bound: failures that are counted
  MaxSample      \* bound: times at which the inverter is measured

ASSUME CloudAssumption == MaxFailed \in Nat /\ MaxSample \in Nat

VARIABLES
  connection, \* the DeyeCloudConnection row
  cloudDevice,\* the synthetic Device that owns the imported samples
  imported,   \* times of the samples imported
  localActive,\* samples of a local device are recent
  cloudCalls  \* what a session has read, and for which handler

cloudVars == <<connection, cloudDevice, imported, localActive, cloudCalls>>

Poller == "poller"
CloudSessions == CloudUsers \cup {Poller}
NoConnection == [status |-> "none", remote |-> FALSE, account |-> FALSE, token |-> FALSE,
                 failed |-> 0, sync |-> "none"]
NoCloudCall == [op |-> "none", read |-> NoConnection]

CloudInit ==
  /\ connection = NoConnection
  /\ cloudDevice = "none"
  /\ imported = {}
  /\ localActive = FALSE
  /\ cloudCalls = [c \in CloudSessions |-> NoCloudCall]

(* Mutant: the UPDATE carries every column.                                *)
WholeRow(read, new) == new

MergedRow(read, new) ==
  [f \in DOMAIN new |-> IF new[f] = read[f] THEN connection[f] ELSE new[f]]

LoadConnection(c, op) ==
  /\ cloudCalls[c].op = "none"
  /\ cloudCalls' = [cloudCalls EXCEPT ![c] = [op |-> op, read |-> connection]]
  /\ UNCHANGED <<connection, cloudDevice, imported, localActive>>

EndCloudCall(c) == cloudCalls' = [cloudCalls EXCEPT ![c] = NoCloudCall]

(* _valid_access_token: a session whose token has lapsed signs in with the *)
(* account it has read, and writes the new token whatever it read.         *)
MayRefresh(c) ==
  cloudCalls[c].op \in {"select", "import", "poll"} /\ cloudCalls[c].read.account

Answered(c, op, new) ==
  /\ cloudCalls[c].op = op
  /\ LET row == MergedRow(cloudCalls[c].read, new) IN
     connection' \in {row} \cup (IF MayRefresh(c) THEN {[row EXCEPT !.token = TRUE]} ELSE {})
  /\ EndCloudCall(c)
  /\ UNCHANGED localActive

(* An error of the network or of the database: the session rolls back.     *)
CloudCallFails(c) ==
  /\ cloudCalls[c].op # "none"
  /\ EndCloudCall(c)
  /\ UNCHANGED <<connection, cloudDevice, imported, localActive>>

(***************************************************************************)
(* The pages                                                               *)
(***************************************************************************)
(* start_connection reads the row after it has spoken to Deye.             *)
LoadToConnect(c) == LoadConnection(c, "connect")

Connect(c) ==
  LET read == cloudCalls[c].read IN
  /\ Answered(c, "connect",
       [status |-> "pending_selection", remote |-> FALSE, account |-> TRUE, token |-> TRUE,
        failed |-> 0, sync |-> "none"])
  /\ cloudDevice' = IF cloudDevice = "none" THEN "none" ELSE "revoked"
  /\ UNCHANGED imported

LoadToSelect(c) ==
  /\ connection.status = "pending_selection"
  /\ LoadConnection(c, "select")

(* select_remote_station                                                   *)
SelectStation(c) ==
  /\ Answered(c, "select",
       [cloudCalls[c].read EXCEPT !.status = "connected", !.remote = TRUE, !.failed = 0])
  /\ cloudDevice' = "active"
  /\ UNCHANGED imported

LoadToImport(c) ==
  /\ connection.status = "connected"
  /\ connection.remote
  /\ LoadConnection(c, "import")

(* import_station_history: samples that exist are skipped.                 *)
ImportHistory(c, times) ==
  /\ Answered(c, "import", [cloudCalls[c].read EXCEPT !.failed = 0, !.sync = "succeeded"])
  /\ imported' = imported \cup times
  /\ UNCHANGED cloudDevice

LoadToDisconnect(c) ==
  /\ connection.status # "none"
  /\ LoadConnection(c, "disconnect")

Disconnected(read) ==
  [read EXCEPT !.status = "disconnected", !.account = FALSE, !.token = FALSE]

DisconnectCloud(c) ==
  /\ Answered(c, "disconnect", Disconnected(cloudCalls[c].read))
  /\ cloudDevice' = IF cloudDevice = "none" THEN "none" ELSE "revoked"
  /\ UNCHANGED imported

(***************************************************************************)
(* The poll                                                                *)
(***************************************************************************)
(* The task selects the connections that are connected; the back-off of a  *)
(* connection that failed only delays it.                                  *)
LoadToPoll ==
  /\ connection.status = "connected"
  /\ LoadConnection(Poller, "poll")

Polled(new) == Answered(Poller, "poll", new)
PollRead == cloudCalls[Poller].read

(* local_device_active: the cloud stays silent.                            *)
PollYields ==
  /\ localActive
  /\ Polled([PollRead EXCEPT !.sync = "skipped"])
  /\ UNCHANGED <<cloudDevice, imported>>

(* No credentials, or Deye refuses them.                                   *)
FailedPoll == [PollRead EXCEPT !.sync = "failed",
                               !.failed = IF @ < MaxFailed THEN @ + 1 ELSE @]

PollIsRefused ==
  /\ Polled([FailedPoll EXCEPT !.status = "error"])
  /\ UNCHANGED <<cloudDevice, imported>>

PollFindsNoService ==
  /\ Polled(FailedPoll)
  /\ UNCHANGED <<cloudDevice, imported>>

(* A sample that was imported before is no error.                          *)
PollSucceeds(time) ==
  /\ PollRead.account
  /\ Polled([PollRead EXCEPT !.sync = "succeeded", !.failed = 0])
  /\ imported' = imported \cup {time}
  /\ UNCHANGED cloudDevice

LocalDeviceChanges ==
  /\ localActive' = ~localActive
  /\ UNCHANGED <<connection, cloudDevice, imported, cloudCalls>>

TokenLapses ==
  /\ connection.token
  /\ connection' = [connection EXCEPT !.token = FALSE]
  /\ UNCHANGED <<cloudDevice, imported, localActive, cloudCalls>>

CloudNext ==
  \/ \E c \in CloudUsers :
       \/ LoadToConnect(c) \/ LoadToSelect(c) \/ LoadToImport(c) \/ LoadToDisconnect(c)
       \/ Connect(c) \/ SelectStation(c) \/ DisconnectCloud(c)
  \/ \E c \in CloudUsers, times \in SUBSET (1 .. MaxSample) : ImportHistory(c, times)
  \/ \E c \in CloudSessions : CloudCallFails(c)
  \/ LoadToPoll \/ PollYields \/ PollIsRefused \/ PollFindsNoService
  \/ \E time \in 1 .. MaxSample : PollSucceeds(time)
  \/ LocalDeviceChanges \/ TokenLapses

CloudSpec == CloudInit /\ [][CloudNext]_cloudVars

(***************************************************************************)
(* Properties                                                              *)
(***************************************************************************)
ConnectionType ==
  [status : {"none", "pending_selection", "connected", "error", "disconnected"},
   remote : BOOLEAN, account : BOOLEAN, token : BOOLEAN, failed : 0 .. MaxFailed,
   sync : {"none", "succeeded", "failed", "skipped"}]

CloudTypeOK ==
  /\ connection \in ConnectionType
  /\ cloudDevice \in {"none", "active", "revoked"}
  /\ imported \subseteq 1 .. MaxSample
  /\ localActive \in BOOLEAN
  /\ cloudCalls \in [CloudSessions ->
       [op : {"none", "connect", "select", "import", "disconnect", "poll"}, read : ConnectionType]]

(* A connection that the task polls is complete: it has the account, a     *)
(* remote station and an active device, however long a poll that began     *)
(* under an earlier connection takes to end.  Holds of pages that do not   *)
(* overlap (start_connection, select_remote_station, disconnect,           *)
(* poll_connection).                                                       *)
PolledIsComplete ==
  connection.status = "connected" =>
    connection.account /\ connection.remote /\ cloudDevice = "active"
=============================================================================
