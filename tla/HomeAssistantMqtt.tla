-------------------------- MODULE HomeAssistantMqtt --------------------------
(***************************************************************************)
(* A station's link to Home Assistant through an MQTT broker: the owner's  *)
(* consent and mapping, the worker that exchanges messages with the broker *)
(* under the row lock of the link, its back-off, and the erasure of old    *)
(* context.  One sensor is mapped.  The broker and Home Assistant are      *)
(* external: the broker keeps the last message of each topic.              *)
(***************************************************************************)
EXTENDS Naturals, Sequences

CONSTANTS
  Pollers,       (* worker processes *)
  States,        (* what the sensor may report *)
  Blank,         (* no value *)
  MaxConfig,     (* bound on revisions of the link *)
  LastReport     (* bound on reports of the sensor *)

ASSUME MqttAssumption == {MaxConfig, LastReport} \subseteq Nat /\ Blank \notin States

VARIABLES
  link,        (* home_assistant_connections; a stream is named by its revision *)
  mapping,     (* home_assistant_mappings: the last observation *)
  reported,    (* what the sensor reported at each time; its clock is the length *)
  erasedTo,    (* times before this one are more than a day old *)
  package,     (* the stream of the package that Home Assistant has installed *)
  retained,    (* the last message of each stream's topic, by its time *)
  polls        (* polls under way *)

mqttVars == <<link, mapping, reported, erasedTo, package, retained, polls>>

Unobserved == [at |-> 0, value |-> Blank, available |-> FALSE]
NoPoll == [step |-> "idle"]
Clock == Len(reported)

MqttInit ==
  /\ link = [revision |-> 0, stream |-> 0, enabled |-> FALSE, publish |-> FALSE,
                   status |-> "none", due |-> FALSE]
  /\ mapping = Unobserved /\ reported = <<>> /\ erasedTo = 0 /\ package = 0
  /\ retained = [s \in 1..MaxConfig |-> 0]
  /\ polls = [w \in Pollers |-> NoPoll]

-----------------------------------------------------------------------------
(* The link's row lock, which a poll holds until it commits *)

(* Mutant: the lock is not held while the worker waits for the broker.     *)
NeverHeld == TRUE

RowFree == \A w \in Pollers : polls[w] = NoPoll

-----------------------------------------------------------------------------
(* The owner.  A form of an older revision is refused, which is no step.   *)

(* configure: a new stream, its mapping without an observation.            *)
ConfigureMqtt(publish) ==
  /\ RowFree /\ link.revision < MaxConfig
  /\ LET next == link.revision + 1
     IN link' = [revision |-> next, stream |-> next, enabled |-> TRUE,
                       publish |-> publish, status |-> "pending", due |-> TRUE]
  /\ mapping' = Unobserved
  /\ UNCHANGED <<reported, erasedTo, package, retained, polls>>

(* manage: revoke, which also takes a new stream                           *)
RevokeMqtt ==
  /\ RowFree /\ link.revision \in 1..(MaxConfig - 1)
  /\ LET next == link.revision + 1
     IN link' = [revision |-> next, stream |-> next, enabled |-> FALSE,
                       publish |-> FALSE, status |-> "revoked", due |-> FALSE]
  /\ mapping' = Unobserved
  /\ UNCHANGED <<reported, erasedTo, package, retained, polls>>

(* manage: test and rotate; only what is rotated is a new revision         *)
TestMqtt(rotate) ==
  /\ RowFree /\ link.enabled
  /\ rotate => link.revision < MaxConfig
  /\ link' = [link EXCEPT !.revision = IF rotate THEN @ + 1 ELSE @,
                                      !.status = "test_pending", !.due = TRUE]
  /\ UNCHANGED <<mapping, reported, erasedTo, package, retained, polls>>

-----------------------------------------------------------------------------
(* Home Assistant and the broker *)

(* The owner installs the package of the present configuration, or not yet. *)
InstallPackage ==
  /\ link.enabled /\ package # link.stream
  /\ package' = link.stream
  /\ UNCHANGED <<link, mapping, reported, erasedTo, retained, polls>>

(* The sensor reports, and its automation publishes to the package's topic. *)
SensorReports(value) ==
  /\ package # 0 /\ Clock < LastReport
  /\ reported' = Append(reported, value)
  /\ retained' = [retained EXCEPT ![package] = Clock + 1]
  /\ UNCHANGED <<link, mapping, erasedTo, package, polls>>

MessageAges ==
  /\ erasedTo <= Clock /\ erasedTo' = erasedTo + 1
  /\ UNCHANGED <<link, mapping, reported, package, retained, polls>>

-----------------------------------------------------------------------------
(* The worker *)

(* purge_context, in each pass of the schedule: it takes no lock of the    *)
(* link.  The time stays, against replayed messages.                       *)
PurgeMapping ==
  /\ mapping.at \in 1..(erasedTo - 1)
  /\ mapping' = [mapping EXCEPT !.value = Blank, !.available = FALSE]
  /\ UNCHANGED <<link, reported, erasedTo, package, retained, polls>>

NextAttempt ==
  /\ link.enabled /\ ~link.due
  /\ link' = [link EXCEPT !.due = TRUE]
  /\ UNCHANGED <<mapping, reported, erasedTo, package, retained, polls>>

(* poll_connection up to the exchange: a row that is locked is skipped, as *)
(* is an inactive station, which is no step.                               *)
BeginPoll(w) ==
  /\ polls[w] = NoPoll /\ RowFree
  /\ link.enabled /\ link.due
  /\ polls' = [polls EXCEPT ![w] = [step |-> "exchange", stream |-> link.stream,
                                    publish |-> link.publish, loaded |-> mapping,
                                    oldest |-> erasedTo]]
  /\ UNCHANGED <<link, mapping, reported, erasedTo, package, retained>>

(* exchange: the topics of the stream that was read are subscribed to, and *)
(* the state is published if consented to.                                 *)
Exchange(w) ==
  /\ polls[w].step = "exchange"
  /\ polls' = [polls EXCEPT ![w] = [step |-> "commit", stream |-> polls[w].stream,
                                    publish |-> polls[w].publish, loaded |-> polls[w].loaded,
                                    oldest |-> polls[w].oldest,
                                    message |-> retained[polls[w].stream]]]
  /\ UNCHANGED <<link, mapping, reported, erasedTo, package, retained>>

(* ingest: a message that is repeated, older, or of more than a day ago is *)
(* not taken.                                                              *)
Takes(p) == p.message > p.loaded.at /\ p.message >= p.oldest

(* The session writes the columns that differ from what it loaded.         *)
Written(row, p) ==
  LET value == reported[p.message]
  IN [at |-> p.message,
      value |-> IF value = p.loaded.value THEN row.value ELSE value,
      available |-> IF p.loaded.available THEN row.available ELSE TRUE]

CommitPoll(w) ==
  /\ polls[w].step = "commit"
  /\ mapping' = IF Takes(polls[w]) THEN Written(mapping, polls[w]) ELSE mapping
  /\ link' = [link EXCEPT !.status = "connected", !.due = FALSE]
  /\ polls' = [polls EXCEPT ![w] = NoPoll]
  /\ UNCHANGED <<reported, erasedTo, package, retained>>

(* MQTTFailure or unreadable credentials: what was received is dropped.    *)
FailPoll(w) ==
  /\ polls[w].step = "exchange"
  /\ link' = [link EXCEPT !.status = "retrying", !.due = FALSE]
  /\ polls' = [polls EXCEPT ![w] = NoPoll]
  /\ UNCHANGED <<mapping, reported, erasedTo, package, retained>>

(* The worker dies or passes its time limit: its transaction is rolled back. *)
PollDies(w) ==
  /\ polls[w] # NoPoll
  /\ polls' = [polls EXCEPT ![w] = NoPoll]
  /\ UNCHANGED <<link, mapping, reported, erasedTo, package, retained>>

MqttNext ==
  \/ RevokeMqtt \/ InstallPackage \/ MessageAges \/ PurgeMapping \/ NextAttempt
  \/ \E publish \in BOOLEAN : ConfigureMqtt(publish)
  \/ \E rotate \in BOOLEAN : TestMqtt(rotate)
  \/ \E value \in States : SensorReports(value)
  \/ \E w \in Pollers : BeginPoll(w) \/ Exchange(w) \/ CommitPoll(w) \/ FailPoll(w) \/ PollDies(w)

MqttSpec == MqttInit /\ [][MqttNext]_mqttVars

-----------------------------------------------------------------------------
(* Every variable has its type.                                            *)
MqttTypeOK ==
  /\ link \in [revision : 0..MaxConfig, stream : 0..MaxConfig, enabled : BOOLEAN,
                     publish : BOOLEAN, due : BOOLEAN,
                     status : {"none", "pending", "test_pending", "connected", "retrying", "revoked"}]
  /\ mapping \in [at : 0..LastReport, value : States \cup {Blank}, available : BOOLEAN]
  /\ reported \in Seq(States) /\ Clock <= LastReport /\ erasedTo \in 0..(LastReport + 1)
  /\ package \in 0..MaxConfig /\ retained \in [1..MaxConfig -> 0..LastReport]
  /\ \A w \in Pollers : polls[w].step \in {"idle", "exchange", "commit"}

(* What a station is shown of its sensor is one report: a value is the one *)
(* of the time that stands beside it, though purges, polls and the owner's *)
(* changes interleave and a poll writes only the columns it saw change.    *)
(* And no exchange outlives the consent it began under.                    *)
ContextIsWhole ==
  /\ mapping.value # Blank => mapping.value = reported[mapping.at]
  /\ \A w \in Pollers : polls[w] # NoPoll =>
       /\ link.enabled /\ polls[w].stream = link.stream
       /\ polls[w].publish => link.publish
=============================================================================
