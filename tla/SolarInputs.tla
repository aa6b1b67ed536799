----------------------------- MODULE SolarInputs -----------------------------
(***************************************************************************)
(* The inputs of an inverter: what the reports of a device or of Deye      *)
(* Cloud store, the installer's configuration, and the snapshot that adds  *)
(* the inputs up.  A report may be late, repeated, or leave inputs out; a  *)
(* snapshot reads the rows one query after another and locks none.  Only   *)
(* power is modelled, known or not; voltage and current are like it.       *)
(***************************************************************************)
EXTENDS Naturals, FiniteSets, FiniteSetsExt

CONSTANTS
  Inputs,        (* inputs of the inverter *)
  CloudReported, (* whether Deye Cloud reports the inverter, or the device *)
  FreshFor,      (* age, in moments, up to which a sample is fresh *)
  Ahead,         (* moments that a clock may be ahead *)
  LastMoment     (* bound on time *)

ASSUME SolarAssumption ==
  /\ CloudReported \in BOOLEAN /\ {FreshFor, Ahead} \subseteq Nat
  /\ LastMoment \in Nat \ {0}

VARIABLES
  moment,     (* now *)
  watermark,  (* inverter.ac_observation's moment; 0: no inverter *)
  grouped,    (* inputs whose configuration has them compared *)
  readings,   (* solar_input_samples by input and moment *)
  view,       (* a snapshot being read *)
  displayed   (* the last snapshot displayed *)

solarVars == <<moment, watermark, grouped, readings, view, displayed>>

Moments == 1..(LastMoment + Ahead)
Idle == [step |-> "idle"]

SolarInit ==
  /\ moment = 1 /\ watermark = 0 /\ grouped = {}
  /\ readings = [i \in Inputs |-> [t \in Moments |-> "none"]]
  /\ view = Idle /\ displayed = [newest |-> 0, total |-> <<>>, compared |-> <<>>]

MomentsOf(i) == {t \in Moments : readings[i][t] # "none"}
NewestOf(moments) == Max(moments \cup {0})

(* A tracker's row is there from its first sample on.                      *)
Trackers == {i \in Inputs : MomentsOf(i) # {}}

-----------------------------------------------------------------------------
(* Reports *)

(* A device's late reports are stored; poll leaves them out, and what it   *)
(* cannot fetch.                                                           *)
Accepted(at) == at <= moment + Ahead /\ (CloudReported => moment <= at + FreshFor)

(* What a report says of the inputs it covers: some may lack a power.      *)
Items(covered) == [covered -> {"known", "null"}]

(* Mutant: a late report takes the newest one's place.                     *)
LastWatermark(at) == at

(* The inverter's moment only moves forward.                               *)
NewWatermark(at) == IF at > watermark THEN at ELSE watermark

(* ingest, under the inverter's row lock: of the inputs it covers, some    *)
(* without a power; the first sample of a moment stays.                    *)
Report(at, items) ==
  /\ Accepted(at)
  /\ watermark' = NewWatermark(at)
  /\ readings' = [i \in Inputs |->
       IF i \in DOMAIN items /\ readings[i][at] = "none"
       THEN [readings[i] EXCEPT ![at] = items[i]] ELSE readings[i]]
  /\ UNCHANGED <<moment, grouped, view, displayed>>

(* configure, under the tracker's lock; the form of an older revision is   *)
(* refused, which is no step.                                              *)
ConfigureInput(i) ==
  /\ i \in Trackers
  /\ grouped' \in {grouped \cup {i}, grouped \ {i}}
  /\ UNCHANGED <<moment, watermark, readings, view, displayed>>

SolarTimePasses ==
  /\ moment < LastMoment /\ moment' = moment + 1
  /\ UNCHANGED <<watermark, grouped, readings, view, displayed>>

-----------------------------------------------------------------------------
(* snapshot: three queries, each of what is committed when it runs *)

ReadInverter ==
  /\ view = Idle /\ watermark > 0
  /\ view' = [step |-> "inverter", now |-> moment, watermark |-> watermark,
              newest |-> NewestOf(UNION {MomentsOf(i) : i \in Inputs})]
  /\ UNCHANGED <<moment, watermark, grouped, readings, displayed>>

ReadTrackers ==
  /\ view.step = "inverter"
  /\ view' = [step |-> "trackers", now |-> view.now, watermark |-> view.watermark,
              newest |-> view.newest, inputs |-> Trackers, grouped |-> grouped]
  /\ UNCHANGED <<moment, watermark, grouped, readings, displayed>>

(* A sample that the newest report left behind is stale, whatever its age. *)
Stale(at) ==
  view.now > at + FreshFor \/ at > view.now + Ahead \/ at < view.watermark

(* The newest samples of inputs, if each is fresh and has a power.         *)
Together(inputs) ==
  LET at == [i \in inputs |-> NewestOf(MomentsOf(i))]
  IN IF \A i \in inputs : ~Stale(at[i]) /\ readings[i][at[i]] = "known" THEN at ELSE <<>>

(* The total is of all inputs or there is none; comparison_warnings takes  *)
(* two inputs or more.                                                     *)
ReadSamples ==
  /\ view.step = "trackers"
  /\ displayed' = [newest |-> view.newest, total |-> Together(view.inputs),
               compared |-> IF Cardinality(view.grouped) >= 2 THEN Together(view.grouped)
                            ELSE <<>>]
  /\ view' = Idle
  /\ UNCHANGED <<moment, watermark, grouped, readings>>

SolarNext ==
  \/ SolarTimePasses \/ ReadInverter \/ ReadTrackers \/ ReadSamples
  \/ \E at \in Moments, covered \in SUBSET Inputs \ {{}} :
       \E items \in Items(covered) : Report(at, items)
  \/ \E i \in Inputs : ConfigureInput(i)

SolarSpec == SolarInit /\ [][SolarNext]_solarVars

-----------------------------------------------------------------------------
(* Every variable has its type.                                            *)
SolarTypeOK ==
  /\ moment \in 1..LastMoment /\ watermark \in 0..(LastMoment + Ahead)
  /\ grouped \subseteq Trackers
  /\ readings \in [Inputs -> [Moments -> {"none", "null", "known"}]]
  /\ view.step \in {"idle", "inverter", "trackers"}
  /\ DOMAIN displayed.total \subseteq Inputs /\ DOMAIN displayed.compared \subseteq Inputs

(* A total is of one moment or of later ones, and so is a comparison: no   *)
(* input in it was left out of a report that was stored before the         *)
(* snapshot began, however late, repeated or partial the reports are and   *)
(* however the snapshot's queries fall between them.                       *)
TotalsLeaveNothingBehind ==
  /\ \A i \in DOMAIN displayed.total : displayed.total[i] >= displayed.newest
  /\ \A i \in DOMAIN displayed.compared : displayed.compared[i] >= displayed.newest
=============================================================================
