------------------------ MODULE HomeAssistantBridge ------------------------
(***************************************************************************)
(* The bridge that a Home Assistant installation uses to send what its     *)
(* sensors observe: pairing, the mapping of the sensors, ingestion,        *)
(* disconnection and retention.  Every handler locks the bridge row before *)
(* it reads it, so each is one action; what can go wrong is on the wire,   *)
(* where answers are lost and samples are late, repeated or of an older    *)
(* mapping.  The installation is external: it holds what it was told.      *)
(***************************************************************************)
EXTENDS Integers, FiniteSets

CONSTANTS
  Entities,
  MaxGeneration, \* bound: versions of the mapping
  MaxObserved    \* bound: times at which a sample is observed

ASSUME BridgeAssumption == MaxGeneration \in Nat /\ MaxObserved \in Nat \ {0}

VARIABLES
  bridge,   \* the HomeAssistantBridge row
  observed, \* bridge.observations: the time (0: none), version and value of an entity
  agent,    \* what the installation holds
  sent      \* samples on the wire, which may arrive again

bridgeVars == <<bridge, observed, agent, sent>>

Nothing == [at |-> 0, version |-> 0, valued |-> FALSE]
NoObservations == [e \in Entities |-> Nothing]

BridgeInit ==
  /\ bridge = [version |-> 0, pairing |-> FALSE, token |-> 0,
               enabled |-> FALSE, mapped |-> {}]
  /\ observed = NoObservations
  /\ agent = [token |-> 0, version |-> 0, clock |-> 1]
  /\ sent = {}

(* The owner's membership and the station are looked at in each call: any  *)
(* call may be refused, which is no step.                                  *)
Authentic == bridge.token # 0 /\ agent.token = bridge.token

(***************************************************************************)
(* The user                                                                *)
(***************************************************************************)
(* revoke                                                                  *)
ResetBridge(pairing) ==
  /\ bridge.version < MaxGeneration
  /\ bridge' = [version |-> bridge.version + 1, pairing |-> pairing, token |-> 0,
                enabled |-> FALSE, mapped |-> {}]
  /\ observed' = NoObservations
  /\ UNCHANGED <<agent, sent>>

IssuePairing == ResetBridge(TRUE)
Disconnect == ResetBridge(FALSE)

PairingExpires ==
  /\ bridge.pairing
  /\ bridge' = [bridge EXCEPT !.pairing = FALSE]
  /\ UNCHANGED <<observed, agent, sent>>

TokenExpires ==
  /\ bridge.token # 0
  /\ bridge' = [bridge EXCEPT !.token = 0]
  /\ UNCHANGED <<observed, agent, sent>>

(***************************************************************************)
(* The installation                                                        *)
(***************************************************************************)
(* redeem: the code is spent, and if the answer is lost so is the token.   *)
(* A token is named by the version at which it was issued.                 *)
Redeem(lost) ==
  /\ bridge.pairing
  /\ bridge' = [bridge EXCEPT !.pairing = FALSE, !.token = bridge.version]
  /\ agent' = IF lost THEN agent
              ELSE [agent EXCEPT !.token = bridge.version, !.version = bridge.version]
  /\ UNCHANGED <<observed, sent>>

(* A retry whose first answer was lost.                                    *)
IsRetry(mapped) ==
  /\ agent.version + 1 = bridge.version
  /\ bridge.mapped = mapped
  /\ bridge.enabled

Configure(mapped, lost) ==
  /\ Authentic
  /\ \/ /\ IsRetry(mapped)
        /\ UNCHANGED <<bridge, observed>>
     \/ /\ ~IsRetry(mapped)
        /\ agent.version = bridge.version
        /\ bridge.version < MaxGeneration
        /\ bridge' = [bridge EXCEPT !.version = @ + 1, !.mapped = mapped,
                                    !.enabled = TRUE]
        /\ observed' = NoObservations
  /\ agent' = IF lost THEN agent ELSE [agent EXCEPT !.version = bridge'.version]
  /\ UNCHANGED sent

Sample(e) ==
  /\ agent.token # 0
  /\ sent' = sent \cup {[entity |-> e, at |-> agent.clock, version |-> agent.version]}
  /\ UNCHANGED <<bridge, observed, agent>>

ClockAdvances ==
  /\ agent.clock < MaxObserved
  /\ agent' = [agent EXCEPT !.clock = @ + 1]
  /\ UNCHANGED <<bridge, observed, sent>>

(***************************************************************************)
(* Ingestion and retention                                                 *)
(***************************************************************************)
(* Mutant: a sample of an older mapping is taken.                          *)
AnyVersion(m) == TRUE

OfThisMapping(m) == m.version = bridge.version

(* ingest: a sample that is repeated or older is ignored.                  *)
Ingest(m) ==
  /\ m \in sent
  /\ Authentic
  /\ bridge.enabled
  /\ OfThisMapping(m)
  /\ m.entity \in bridge.mapped
  /\ m.at > observed[m.entity].at
  /\ observed' = [observed EXCEPT ![m.entity] =
                    [at |-> m.at, version |-> m.version, valued |-> TRUE]]
  /\ UNCHANGED <<bridge, agent, sent>>

(* purge_context: the time stays, so that no older sample comes after it.  *)
PurgeContext ==
  /\ \E e \in Entities : observed[e].valued
  /\ \E limit \in 1 .. MaxObserved :
       observed' = [e \in Entities |->
         IF observed[e].at < limit THEN [observed[e] EXCEPT !.valued = FALSE] ELSE observed[e]]
  /\ UNCHANGED <<bridge, agent, sent>>

BridgeNext ==
  \/ IssuePairing \/ Disconnect \/ PairingExpires \/ TokenExpires
  \/ ClockAdvances \/ PurgeContext
  \/ \E lost \in BOOLEAN : Redeem(lost)
  \/ \E mapped \in SUBSET Entities, lost \in BOOLEAN : Configure(mapped, lost)
  \/ \E e \in Entities : Sample(e)
  \/ \E m \in sent : Ingest(m)

BridgeSpec == BridgeInit /\ [][BridgeNext]_bridgeVars

(***************************************************************************)
(* Properties                                                              *)
(***************************************************************************)
BridgeTypeOK ==
  /\ bridge \in [version : 0 .. MaxGeneration, pairing : BOOLEAN, token : 0 .. MaxGeneration,
                 enabled : BOOLEAN, mapped : SUBSET Entities]
  /\ observed \in [Entities -> [at : 0 .. MaxObserved, version : 0 .. MaxGeneration, valued : BOOLEAN]]
  /\ agent \in [token : 0 .. MaxGeneration, version : 0 .. MaxGeneration, clock : 1 .. MaxObserved]
  /\ sent \subseteq [entity : Entities, at : 1 .. MaxObserved, version : 0 .. MaxGeneration]

(* What the station shows was observed under the mapping that is in force, *)
(* by the installation that is paired now: no late sample and no lost      *)
(* answer brings back what a new mapping, a new pairing or a disconnection *)
(* has ended (ingest, configure, revoke).                                  *)
ObservationsFitMapping ==
  \A e \in Entities :
    observed[e].at # 0 => /\ e \in bridge.mapped
                          /\ bridge.enabled
                          /\ observed[e].version = bridge.version
=============================================================================
