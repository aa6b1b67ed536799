------------------------------ MODULE Telemetry ------------------------------
(***************************************************************************)
(* The telemetry of a station: the batches its device sends, late and more *)
(* than once, the hourly aggregates, the queue of hours to aggregate again *)
(* (TelemetryBackfill), and retention.                                     *)
(*                                                                         *)
(* Time is counted in hours and an hour holds one sample.  The aggregate   *)
(* of an hour integrates its own sample and the one carried in from the    *)
(* hour before; without a sample of its own an hour has no aggregate.      *)
(* A transaction is modelled by what it reads and, at its commit, writes.  *)
(***************************************************************************)
EXTENDS Integers, FiniteSets

CONSTANTS
  LateAfter,    \* samples older than this are queued for aggregation (2 h)
  Lookback,     \* RECENT_REAGGREGATION_LOOKBACK (3 h)
  RawRetention, \* telemetry_raw_retention_days
  RetentionMargin, \* how much earlier samples are refused (3 h)
  Measured,     \* hours in which the device measures
  LastHour      \* bound: time

ASSUME TelemetryAssumption ==
  /\ LateAfter \in Nat /\ Lookback \in Nat /\ LateAfter < Lookback
  /\ RawRetention \in Nat /\ Lookback < RawRetention
  /\ RetentionMargin \in Nat /\ RetentionMargin >= 2
  /\ LastHour \in Nat /\ Measured \subseteq 0 .. LastHour

VARIABLES
  hour,      \* the time
  raw,       \* hours that have a TelemetryRaw row
  integrated, \* what the aggregate of an hour has integrated
  queued,    \* TelemetryBackfill rows
  batch,     \* the batch whose transaction is open
  refresher, \* the task that aggregates again: the rows it holds, what it computed
  purge,     \* the cutoff a retention run has decided on
  refreshed  \* the periodic task has run in this hour

telemetryVars == <<hour, raw, integrated, queued, batch, refresher, purge, refreshed>>

Hours == 0 .. LastHour
NoBatch == [sample |-> -1, now |-> -1]
IdleRefresher == [task |-> "none", todo |-> {}, computed |-> [h \in {} |-> {}]]
NoPurge == -RawRetention - 2

TelemetryInit ==
  /\ hour = 0
  /\ raw = {}
  /\ integrated = [h \in Hours |-> {}]
  /\ queued = {}
  /\ batch = NoBatch
  /\ refresher = IdleRefresher
  /\ purge = NoPurge
  /\ refreshed = FALSE

(***************************************************************************)
(* ingest_telemetry_batch                                                  *)
(***************************************************************************)
Acceptable(sample) == sample >= hour - RawRetention + RetentionMargin

BeginBatch(sample) ==
  /\ batch = NoBatch
  /\ sample <= hour
  /\ Acceptable(sample)
  /\ batch' = [sample |-> sample, now |-> hour]
  /\ UNCHANGED <<hour, raw, integrated, queued, refresher, purge, refreshed>>

(* Mutant: only the hour of the sample is queued.                          *)
OwnHour(sample) == {sample}

HoursTouched(sample) == {sample - 1, sample, sample + 1} \cap Hours

QueuedBy(b) == IF b.sample \in raw \/ b.now - b.sample <= LateAfter THEN {} ELSE HoursTouched(b.sample)

(* The queue row of an hour is inserted or updated, and waits for the      *)
(* transaction that holds it.                                              *)
CommitBatch ==
  /\ batch # NoBatch
  /\ \/ refresher.task # "backfill"
     \/ QueuedBy(batch) \cap (refresher.todo \cup DOMAIN refresher.computed) = {}
  /\ raw' = raw \cup {batch.sample}
  /\ queued' = queued \cup QueuedBy(batch)
  /\ batch' = NoBatch
  /\ UNCHANGED <<hour, integrated, refresher, purge, refreshed>>

(* The connection is lost before the answer; the device sends it again.    *)
BatchFails ==
  /\ batch # NoBatch
  /\ batch' = NoBatch
  /\ UNCHANGED <<hour, raw, integrated, queued, refresher, purge, refreshed>>

(***************************************************************************)
(* Aggregation: the station is locked from the first read to the commit    *)
(***************************************************************************)
(* run_aggregation_task: the hours of the lookback                         *)
BeginRefresh ==
  /\ refresher.task = "none"
  /\ refresher' = [IdleRefresher EXCEPT
       !.task = "periodic", !.todo = {h \in Hours : hour - Lookback <= h /\ h <= hour}]
  /\ UNCHANGED <<hour, raw, integrated, queued, batch, purge, refreshed>>

(* drain_backfill: the rows it found when it began are locked              *)
BeginDrain(rows) ==
  /\ refresher.task = "none"
  /\ rows # {}
  /\ refresher' = [IdleRefresher EXCEPT !.task = "backfill", !.todo = rows]
  /\ UNCHANGED <<hour, raw, integrated, queued, batch, purge, refreshed>>

(* aggregate_interval_15m and _rollup: the samples of an hour              *)
SamplesOf(h) == IF h \in raw THEN {h - 1, h} \cap raw ELSE integrated[h]

RefreshHour(h) ==
  /\ h \in refresher.todo
  /\ \A other \in refresher.todo : h <= other
  /\ refresher' = [refresher EXCEPT
       !.todo = @ \ {h},
       !.computed = [i \in DOMAIN @ \cup {h} |-> IF i = h THEN SamplesOf(h) ELSE @[i]]]
  /\ UNCHANGED <<hour, raw, integrated, queued, batch, purge, refreshed>>

CommitRefresh ==
  LET done == DOMAIN refresher.computed IN
  /\ refresher.task # "none"
  /\ refresher.todo = {}
  /\ integrated' = [h \in Hours |->
       IF h \in done THEN refresher.computed[h] ELSE integrated[h]]
  /\ queued' = IF refresher.task = "backfill" THEN queued \ done ELSE queued
  /\ refreshed' = (refreshed \/ refresher.task = "periodic")
  /\ refresher' = IdleRefresher
  /\ UNCHANGED <<hour, raw, batch, purge>>

(* A worker dies or one station fails: the transaction is rolled back.     *)
RefreshFails ==
  /\ refresher.task # "none"
  /\ refresher' = IdleRefresher
  /\ UNCHANGED <<hour, raw, integrated, queued, batch, purge, refreshed>>

(***************************************************************************)
(* retention_task                                                          *)
(***************************************************************************)
(* Mutant: the queue of hours to aggregate is not looked at.               *)
PurgeByAge == hour - RawRetention

PurgeBefore ==
  LET cutoff == hour - RawRetention IN
  IF queued = {} THEN cutoff
  ELSE LET first == CHOOSE h \in queued : \A other \in queued : h <= other
       IN  IF first - 1 < cutoff THEN first - 1 ELSE cutoff

BeginPurge ==
  /\ purge = NoPurge
  /\ purge' = PurgeBefore
  /\ UNCHANGED <<hour, raw, integrated, queued, batch, refresher, refreshed>>

CommitPurge ==
  /\ purge # NoPurge
  /\ raw' = {h \in raw : h >= purge}
  /\ purge' = NoPurge
  /\ UNCHANGED <<hour, integrated, queued, batch, refresher, refreshed>>

(* The periodic task runs every quarter of an hour, and requests and       *)
(* retention take seconds: none lasts into the next hour.                  *)
HourPasses ==
  /\ hour < LastHour
  /\ refreshed
  /\ batch = NoBatch
  /\ purge = NoPurge
  /\ refresher.task # "periodic"
  /\ hour' = hour + 1
  /\ refreshed' = FALSE
  /\ UNCHANGED <<raw, integrated, queued, batch, refresher, purge>>

TelemetryNext ==
  \/ \E sample \in Measured : BeginBatch(sample)
  \/ CommitBatch \/ BatchFails
  \/ BeginRefresh \/ CommitRefresh \/ RefreshFails
  \/ \E rows \in SUBSET queued : BeginDrain(rows)
  \/ \E h \in Hours : RefreshHour(h)
  \/ BeginPurge \/ CommitPurge \/ HourPasses

TelemetrySpec == TelemetryInit /\ [][TelemetryNext]_telemetryVars

(***************************************************************************)
(* Properties                                                              *)
(***************************************************************************)
TelemetryTypeOK ==
  /\ hour \in Hours
  /\ raw \subseteq Hours
  /\ integrated \in [Hours -> SUBSET Hours]
  /\ queued \subseteq Hours
  /\ batch \in [sample : Hours, now : Hours] \cup {NoBatch}
  /\ refresher.task \in {"none", "periodic", "backfill"} /\ refresher.todo \subseteq Hours
  /\ purge \in NoPurge .. LastHour
  /\ refreshed \in BOOLEAN

(* No sample is forgotten: one that is too old for the periodic task is in *)
(* the aggregates of its hour and of the next, or the hour is queued,      *)
(* however late it came and whatever was being aggregated then.            *)
SamplesAreIntegrated ==
  \A s \in raw : \A h \in {s, s + 1} \cap raw :
    h < hour - Lookback => s \in integrated[h] \/ h \in queued

(* Aggregating again never takes a sample out of an aggregate: what an     *)
(* hour is made of is not deleted while the hour may be aggregated again.  *)
AggregatesKeepSamples ==
  [][\A h \in Hours : integrated[h] \subseteq integrated'[h]]_telemetryVars
=============================================================================
