---------------------------- MODULE Stations_proofs ----------------------------
(***************************************************************************)
(* Proofs about what is stored of a station and of the market: its samples *)
(* and their aggregates, its inputs, its versioned set-up, and the prices  *)
(* of a day; and about the discharge budgets that its plans keep.  The     *)
(* components share no state; each section is about one.                   *)
(***************************************************************************)
EXTENDS Telemetry, MarketPrices, SolarInputs, StationSetup, Optimizer,
        Sums_proofs, FiniteSetTheorems, SequenceTheorems, TLAPS

(***************************************************************************)
(* Telemetry                                                               *)
(*                                                                         *)
(* The invariant says which hours may be aggregated again (Reopenable):    *)
(* the queued ones, and those of which samples are still accepted or that  *)
(* the periodic task looks at.  Of these nothing an aggregate is made of   *)
(* is deleted, nor due to be deleted by the cutoff that retention has      *)
(* decided on, and what the refresher has computed is no older than what   *)
(* it replaces.  The samples of an hour before SettledBefore are in its    *)
(* aggregate or the hour is queued; the periodic task settles one hour     *)
(* more, and a drain keeps SettledBefore where it is, because the hour     *)
(* cannot end twice while it has the station.                              *)
(***************************************************************************)
Computations == UNION {[D -> SUBSET Int] : D \in SUBSET Hours}
RefresherType ==
  [task : {"none", "periodic", "backfill"}, todo : SUBSET Hours, computed : Computations]

TelemetryShape ==
  /\ hour \in Hours
  /\ raw \subseteq Hours
  /\ integrated \in [Hours -> SUBSET Int]
  /\ queued \subseteq Hours
  /\ batch = NoBatch \/ batch \in [sample : Hours, now : Hours]
  /\ refresher \in RefresherType
  /\ purge \in Int
  /\ refreshed \in BOOLEAN

Done == DOMAIN refresher.computed
Reopenable(h) == h >= hour - RawRetention + 1 \/ h \in queued
SettledBefore == IF refreshed THEN hour - Lookback + 1 ELSE hour - Lookback
WillSettle == IF refresher.task = "periodic" THEN hour - Lookback + 1 ELSE SettledBefore
Carried(s, h) == s = h \/ s = h - 1

AggregateHolds(h) ==
  /\ \A s \in integrated[h] : Carried(s, h)
  /\ Reopenable(h) => integrated[h] \subseteq raw
  /\ purge # NoPurge /\ Reopenable(h) => purge <= h - 1

ComputedHolds(h) ==
  /\ \A s \in refresher.computed[h] : Carried(s, h)
  /\ integrated[h] \subseteq refresher.computed[h]
  /\ Reopenable(h) => refresher.computed[h] \subseteq raw

RefresherHolds ==
  /\ refresher.task = "none" => refresher.todo \cup Done = {}
  /\ refresher.task = "periodic" => \A h \in Hours :
       h \in refresher.todo \cup Done <=> hour - Lookback <= h /\ h <= hour
  /\ refresher.task = "backfill" => refresher.todo \cup Done \subseteq queued

BatchHolds ==
  batch # NoBatch => batch.now = hour /\ batch.sample <= hour /\ Acceptable(batch.sample)

SampleHolds(s, h) ==
  /\ h < SettledBefore => s \in integrated[h] \/ h \in queued
  /\ h \in Done /\ h < WillSettle =>
       s \in refresher.computed[h] \/ (refresher.task = "periodic" /\ h \in queued)

TelemetryInv ==
  /\ TelemetryShape
  /\ RefresherHolds
  /\ BatchHolds
  /\ \A h \in Hours : AggregateHolds(h)
  /\ \A h \in Done : ComputedHolds(h)
  /\ \A s, h \in raw : Carried(s, h) => SampleHolds(s, h)

LEMMA TelemetryFacts ==
  /\ LateAfter \in Nat /\ Lookback \in Nat /\ LateAfter < Lookback
  /\ RawRetention \in Nat /\ Lookback < RawRetention
  /\ RetentionMargin \in Nat /\ RetentionMargin >= 2
  /\ LastHour \in Nat /\ Measured \subseteq Hours
  /\ Hours \subseteq Nat /\ \A h : h \in Hours <=> h \in Nat /\ h <= LastHour
  /\ NoPurge \in Int
PROOF
  BY TelemetryAssumption DEF Hours, NoPurge

LEMMA TelemetryInitInv == TelemetryInit => TelemetryInv
PROOF
<1> SUFFICES ASSUME TelemetryInit PROVE TelemetryInv
  OBVIOUS
<1>1. PICK none : none = [h \in {} |-> {}]
  OBVIOUS
<1>2. DOMAIN none = {} /\ none \in Computations
  <2>1. none \in [{} -> SUBSET Int] /\ {} \in SUBSET Hours
    BY <1>1
  <2>2. QED
    BY <1>1, <2>1 DEF Computations
<1>3. refresher = [task |-> "none", todo |-> {}, computed |-> none]
  BY <1>1 DEF TelemetryInit, IdleRefresher
<1>4. /\ refresher \in RefresherType /\ refresher.task = "none"
      /\ refresher.todo = {} /\ Done = {}
  BY <1>2, <1>3 DEF RefresherType, Done
<1>5. TelemetryShape
  <2>1. /\ raw \subseteq Hours /\ queued \subseteq Hours /\ batch = NoBatch
        /\ purge \in Int /\ refreshed \in BOOLEAN /\ hour = 0
    BY TelemetryFacts, Zenon DEF TelemetryInit
  <2> 0 \in Hours
    BY TelemetryFacts
  <2>2. integrated \in [Hours -> SUBSET Int]
    BY DEF TelemetryInit
  <2>3. QED
    BY <1>4, <2>1, <2>2 DEF TelemetryShape
<1>6. QED
  BY <1>4, <1>5 DEF TelemetryInit, TelemetryInv, RefresherHolds, BatchHolds, AggregateHolds

(* Only the open batch changes.                                            *)
LEMMA BatchOpens ==
  ASSUME TelemetryInv, NEW sample \in Measured, BeginBatch(sample)
  PROVE  TelemetryInv'
PROOF
<1>1. UNCHANGED <<hour, raw, integrated, queued, refresher, purge, refreshed>>
      /\ batch' = [sample |-> sample, now |-> hour]
  BY DEF BeginBatch
<1>2. sample \in Hours /\ hour \in Hours
  BY TelemetryFacts DEF TelemetryInv, TelemetryShape
<1>3. batch' \in [sample : Hours, now : Hours] /\ batch'.sample = sample /\ batch'.now = hour
  BY <1>1, <1>2
<1>4. BatchHolds'
  BY <1>1, <1>3 DEF BeginBatch, BatchHolds, Acceptable
<1>5. TelemetryShape'
  BY <1>1, <1>3 DEF TelemetryInv, TelemetryShape
<1>6. RefresherHolds' /\ \A h \in Hours : AggregateHolds(h)'
  BY <1>1 DEF TelemetryInv, RefresherHolds, AggregateHolds, Reopenable, Done
<1>7. (\A h \in Done : ComputedHolds(h))'
  BY <1>1 DEF TelemetryInv, ComputedHolds, Reopenable, Done
<1>8. (\A s, h \in raw : Carried(s, h) => SampleHolds(s, h))'
  BY <1>1 DEF TelemetryInv, SampleHolds, SettledBefore, WillSettle, Done, Carried
<1>9. QED
  BY <1>4, <1>5, <1>6, <1>7, <1>8 DEF TelemetryInv

LEMMA BatchCloses ==
  ASSUME TelemetryInv, batch' = NoBatch,
         UNCHANGED <<hour, raw, integrated, queued, refresher, purge, refreshed>>
  PROVE  TelemetryInv'
PROOF
<1>1. TelemetryShape' /\ BatchHolds'
  BY DEF TelemetryInv, TelemetryShape, BatchHolds
<1>2. RefresherHolds' /\ \A h \in Hours : AggregateHolds(h)'
  BY DEF TelemetryInv, RefresherHolds, AggregateHolds, Reopenable, Done
<1>3. (\A h \in Done : ComputedHolds(h))'
  BY DEF TelemetryInv, ComputedHolds, Reopenable, Done
<1>4. (\A s, h \in raw : Carried(s, h) => SampleHolds(s, h))'
  BY DEF TelemetryInv, SampleHolds, SettledBefore, WillSettle, Done, Carried
<1>5. QED
  BY <1>1, <1>2, <1>3, <1>4 DEF TelemetryInv

(* A late sample queues every hour that it is carried into; one that is    *)
(* not late is in no hour that is settled already.                         *)
LEMMA BatchCommits ==
  ASSUME TelemetryInv, CommitBatch
  PROVE  TelemetryInv'
PROOF
<1> DEFINE sample == batch.sample
<1>1. /\ sample \in Hours /\ hour \in Hours /\ batch.now = hour /\ sample <= hour
      /\ sample >= hour - RawRetention + RetentionMargin
  BY DEF CommitBatch, TelemetryInv, TelemetryShape, BatchHolds, Acceptable
<1>2. sample \in Int /\ hour \in Int /\ hour >= 0 /\ sample >= 0
  BY <1>1, TelemetryFacts
<1>3. PICK Q : Q = QueuedBy(batch)
  OBVIOUS
<1>4. /\ raw' = raw \cup {sample} /\ queued' = queued \cup Q /\ batch' = NoBatch
      /\ UNCHANGED <<hour, integrated, refresher, purge, refreshed>>
      /\ refresher.task = "backfill" => Q \cap (refresher.todo \cup Done) = {}
  BY <1>3 DEF CommitBatch, Done
<1>5. Q \subseteq Hours /\ \A h \in Q : h >= hour - RawRetention + 1
  <2>1. \A h \in HoursTouched(sample) : h \in Hours /\ h >= sample - 1
    BY <1>2 DEF HoursTouched
  <2>2. Q \subseteq HoursTouched(sample)
    BY <1>3 DEF QueuedBy
  <2>3. \A h \in Hours : h >= sample - 1 => h >= hour - RawRetention + 1
    BY <1>1, <1>2, TelemetryFacts
  <2>4. QED
    BY <2>1, <2>2, <2>3
<1>6. ASSUME NEW h \in Hours, h = sample \/ h = sample + 1, sample \notin raw
      PROVE  h \in Q \/ h >= hour - Lookback + 1
  <2>1. CASE hour - sample <= LateAfter
    BY <2>1, <1>2, <1>6, TelemetryFacts
  <2>2. CASE ~(hour - sample <= LateAfter)
    BY <2>2, <1>1, <1>2, <1>3, <1>6 DEF QueuedBy, HoursTouched
  <2>3. QED
    BY <2>1, <2>2
<1>7. TelemetryShape' /\ BatchHolds'
  BY <1>1, <1>4, <1>5 DEF TelemetryInv, TelemetryShape, BatchHolds
<1>8. \A h : Reopenable(h)' => Reopenable(h)
  BY <1>4, <1>5 DEF Reopenable
<1>9. RefresherHolds'
  BY <1>4 DEF TelemetryInv, RefresherHolds, Done
<1>10. \A h \in Hours : AggregateHolds(h)'
  BY <1>4, <1>8 DEF TelemetryInv, AggregateHolds
<1>11. (\A h \in Done : ComputedHolds(h))'
  BY <1>4, <1>8 DEF TelemetryInv, ComputedHolds, Done
<1>12. ASSUME NEW s \in raw', NEW h \in raw', Carried(s, h) PROVE SampleHolds(s, h)'
  <2>1. s \in Hours /\ h \in Hours /\ s \in Int /\ h \in Int
    <3>1. raw \subseteq Hours /\ Hours \subseteq Int
      BY TelemetryFacts DEF TelemetryInv, TelemetryShape
    <3>2. s \in raw \cup {sample} /\ h \in raw \cup {sample}
      BY <1>4
    <3>3. QED
      BY <1>1, <3>1, <3>2
  <2>2. UNCHANGED <<SettledBefore, WillSettle, Done>>
    BY <1>4 DEF SettledBefore, WillSettle, Done
  <2>3. CASE s \in raw /\ h \in raw
    <3>1. SampleHolds(s, h)
      BY <2>3, <1>12 DEF TelemetryInv
    <3>2. QED
      BY <2>2, <3>1, <1>4 DEF SampleHolds
  <2>4. CASE ~(s \in raw /\ h \in raw)
    <3>1. sample \notin raw /\ (h = sample \/ h = sample + 1)
      BY <2>1, <2>4, <1>2, <1>4, <1>12 DEF Carried
    <3>2. h \in Q \/ h >= hour - Lookback + 1
      BY <2>1, <3>1, <1>6
    <3>3. SettledBefore \in Int /\ WillSettle \in Int
          /\ SettledBefore <= hour - Lookback + 1 /\ WillSettle <= hour - Lookback + 1
      BY <1>2, TelemetryFacts DEF SettledBefore, WillSettle
    <3>4. h \in Q \/ (~(h < SettledBefore) /\ ~(h < WillSettle))
      BY <1>2, <2>1, <3>2, <3>3, TelemetryFacts
    <3>5. h \in Q /\ h \in Done => refresher.task = "periodic"
      BY <1>4 DEF TelemetryInv, TelemetryShape, RefresherHolds, RefresherType
    <3>6. QED
      BY <1>4, <2>2, <3>4, <3>5 DEF SampleHolds
  <2>5. QED
    BY <2>3, <2>4
<1>13. \A s, h : Carried(s, h)' <=> Carried(s, h)
  BY DEF Carried
<1>14. QED
  BY <1>7, <1>9, <1>10, <1>11, <1>12, <1>13 DEF TelemetryInv

(* A refresher that has computed nothing: it begins, or has failed.        *)
LEMMA RefresherEmpty ==
  ASSUME TelemetryInv, UNCHANGED <<hour, raw, integrated, queued, batch, purge, refreshed>>,
         NEW task \in {"none", "periodic", "backfill"}, NEW todo, todo \subseteq Hours,
         refresher' = [task |-> task, todo |-> todo, computed |-> IdleRefresher.computed],
         task = "periodic" => \A h \in Hours : h \in todo <=> hour - Lookback <= h /\ h <= hour,
         task = "backfill" => todo \subseteq queued, task = "none" => todo = {}
  PROVE  TelemetryInv'
PROOF
<1>1. PICK none : none = [h \in {} |-> {}]
  OBVIOUS
<1>2. DOMAIN none = {} /\ none \in Computations
  <2>1. none \in [{} -> SUBSET Int] /\ {} \in SUBSET Hours
    BY <1>1
  <2>2. QED
    BY <1>1, <2>1 DEF Computations
<1>3. refresher' = [task |-> task, todo |-> todo, computed |-> none]
  BY <1>1 DEF IdleRefresher
<1>4. /\ refresher' \in RefresherType
      /\ refresher'.task = task /\ refresher'.todo = todo /\ Done' = {}
  BY <1>2, <1>3 DEF RefresherType, Done
<1>5. TelemetryShape'
  BY <1>4 DEF TelemetryInv, TelemetryShape
<1>6. RefresherHolds'
  BY <1>4 DEF RefresherHolds
<1>7. BatchHolds' /\ \A h \in Hours : AggregateHolds(h)'
  BY DEF TelemetryInv, BatchHolds, Acceptable, AggregateHolds, Reopenable
<1>8. \A s, h \in raw : Carried(s, h) => SampleHolds(s, h)'
  BY <1>4 DEF TelemetryInv, SampleHolds, SettledBefore
<1>9. QED
  BY <1>4, <1>5, <1>6, <1>7, <1>8 DEF TelemetryInv, Carried

(* What is computed of an hour is what it is made of, or its own samples.  *)
LEMMA HourRefreshed ==
  ASSUME TelemetryInv, NEW h \in Hours, RefreshHour(h)
  PROVE  TelemetryInv'
PROOF
<1>1. /\ UNCHANGED <<hour, raw, integrated, queued, batch, purge, refreshed>>
      /\ h \in refresher.todo /\ refresher \in RefresherType
      /\ refresher.task # "none" /\ refresher.task \in {"none", "periodic", "backfill"}
  BY DEF RefreshHour, TelemetryInv, TelemetryShape, RefresherHolds, RefresherType
<1>2. hour \in Int /\ h \in Int /\ raw \subseteq Hours /\ integrated[h] \in SUBSET Int
  BY TelemetryFacts DEF TelemetryInv, TelemetryShape
<1>3. PICK samples : samples = SamplesOf(h)
  OBVIOUS
<1>4. PICK todo : todo = refresher.todo \ {h}
  OBVIOUS
<1>5. PICK c : c = [i \in Done \cup {h} |-> IF i = h THEN samples ELSE refresher.computed[i]]
  OBVIOUS
<1>6. refresher' = [refresher EXCEPT !.todo = todo, !.computed = c]
  BY <1>3, <1>4, <1>5 DEF RefreshHour, Done
<1>7. Reopenable(h)
  <2>1. CASE refresher.task = "periodic"
    BY <2>1, <1>1, <1>2, TelemetryFacts DEF TelemetryInv, RefresherHolds, Reopenable
  <2>2. CASE refresher.task = "backfill"
    BY <2>2, <1>1 DEF TelemetryInv, RefresherHolds, Reopenable
  <2>3. QED
    BY <1>1, <2>1, <2>2
<1>8. integrated[h] \subseteq raw /\ \A s \in integrated[h] : Carried(s, h)
  BY <1>7 DEF TelemetryInv, AggregateHolds
<1>9. /\ samples \subseteq raw /\ samples \in SUBSET Int
      /\ integrated[h] \subseteq samples /\ \A s \in samples : Carried(s, h)
      /\ h \in raw => \A s \in raw : Carried(s, h) => s \in samples
  <2>1. CASE h \in raw
    <3>1. samples = {h - 1, h} \cap raw
      BY <2>1, <1>3 DEF SamplesOf
    <3>2. raw \subseteq Int
      BY <1>2, TelemetryFacts
    <3>3. QED
      BY <3>1, <3>2, <1>8 DEF Carried
  <2>2. CASE h \notin raw
    BY <2>2, <1>2, <1>3, <1>8 DEF SamplesOf
  <2>3. QED
    BY <2>1, <2>2
<1>10. Done \in SUBSET Hours /\ \A i \in Done : refresher.computed[i] \in SUBSET Int
  <2>1. refresher.computed \in Computations
    BY <1>1 DEF RefresherType
  <2>2. PICK D \in SUBSET Hours : refresher.computed \in [D -> SUBSET Int]
    BY <2>1 DEF Computations
  <2>3. QED
    BY <2>2 DEF Done
<1>11. /\ DOMAIN c = Done \cup {h} /\ c[h] = samples
       /\ \A i \in Done : i # h => c[i] = refresher.computed[i]
       /\ c \in Computations
  <2>1. Done \cup {h} \in SUBSET Hours
    BY <1>10
  <2>2. c \in [Done \cup {h} -> SUBSET Int]
    BY <1>5, <1>9, <1>10
  <2>3. QED
    BY <1>5, <2>1, <2>2 DEF Computations
<1>12. /\ refresher' \in RefresherType /\ refresher'.task = refresher.task
       /\ refresher'.todo = todo /\ refresher'.computed = c
  <2>1. todo \in SUBSET Hours
    BY <1>1, <1>4 DEF RefresherType
  <2>2. QED
    BY <1>1, <1>6, <1>11, <2>1 DEF RefresherType
<1>13. Done' = Done \cup {h} /\ refresher'.todo \cup Done' = refresher.todo \cup Done
  BY <1>1, <1>4, <1>11, <1>12 DEF Done
<1>14. TelemetryShape' /\ BatchHolds'
  BY <1>1, <1>12 DEF TelemetryInv, TelemetryShape, BatchHolds, Acceptable
<1>15. RefresherHolds'
  BY <1>1, <1>12, <1>13 DEF TelemetryInv, RefresherHolds
<1>16. \A i \in Hours : AggregateHolds(i)'
  BY <1>1 DEF TelemetryInv, AggregateHolds, Reopenable
<1>17. ASSUME NEW i \in Done \cup {h} PROVE ComputedHolds(i)'
  <2>1. CASE i = h
    BY <2>1, <1>1, <1>9, <1>11, <1>12 DEF ComputedHolds, Carried
  <2>2. CASE i # h
    <3>1. ComputedHolds(i) /\ c[i] = refresher.computed[i]
      BY <2>2, <1>11 DEF TelemetryInv
    <3>2. QED
      BY <3>1, <1>1, <1>12 DEF ComputedHolds, Reopenable, Carried
  <2>3. QED
    BY <2>1, <2>2
<1>18. ASSUME NEW s \in raw, NEW i \in raw, Carried(s, i) PROVE SampleHolds(s, i)'
  <2>1. UNCHANGED <<SettledBefore, WillSettle>>
    BY <1>1, <1>12 DEF SettledBefore, WillSettle
  <2>2. SampleHolds(s, i)
    BY <1>18 DEF TelemetryInv
  <2>3. i = h => s \in samples
    BY <1>9, <1>18
  <2>4. QED
    BY <2>1, <2>2, <2>3, <1>1, <1>11, <1>12, <1>13 DEF SampleHolds
<1>19. QED
  BY <1>1, <1>13, <1>14, <1>15, <1>16, <1>17, <1>18 DEF TelemetryInv

(* The horizon of a drain is where it was when the drain began; that of    *)
(* the periodic task moves over the hours that it has computed.            *)
LEMMA RefreshCommits ==
  ASSUME TelemetryInv, CommitRefresh
  PROVE  TelemetryInv' /\ \A h \in Hours : integrated[h] \subseteq integrated'[h]
PROOF
<1>1. /\ UNCHANGED <<hour, raw, batch, purge>>
      /\ refresher.task # "none" /\ refresher.todo = {} /\ refresher \in RefresherType
      /\ refresher.task \in {"none", "periodic", "backfill"}
  BY DEF CommitRefresh, TelemetryInv, TelemetryShape, RefresherType
<1>2. Done \in SUBSET Hours /\ \A h \in Done : refresher.computed[h] \in SUBSET Int
  <2>1. refresher.computed \in Computations
    BY <1>1 DEF RefresherType
  <2>2. PICK D \in SUBSET Hours : refresher.computed \in [D -> SUBSET Int]
    BY <2>1 DEF Computations
  <2>3. QED
    BY <2>2 DEF Done
<1>3. /\ \A h \in Hours : integrated'[h] = IF h \in Done THEN refresher.computed[h] ELSE integrated[h]
      /\ integrated' \in [Hours -> SUBSET Int]
  <2>1. integrated' = [h \in Hours |-> IF h \in Done THEN refresher.computed[h] ELSE integrated[h]]
    BY DEF CommitRefresh, Done
  <2>2. \A h \in Hours : integrated[h] \in SUBSET Int
    BY DEF TelemetryInv, TelemetryShape
  <2>3. QED
    BY <1>2, <2>1, <2>2
<1>4. \A h \in Hours : integrated[h] \subseteq integrated'[h]
  BY <1>3 DEF TelemetryInv, ComputedHolds
<1>5. /\ refresher.task = "backfill" => queued' = queued \ Done
      /\ refresher.task = "periodic" => queued' = queued
      /\ queued' \subseteq queued
  BY DEF CommitRefresh, Done
<1>6. /\ refresher.task = "periodic" => refreshed' = TRUE
      /\ refresher.task = "backfill" => refreshed' = refreshed
  BY DEF CommitRefresh, TelemetryInv, TelemetryShape
<1>7. PICK none : none = [h \in {} |-> {}]
  OBVIOUS
<1>8. DOMAIN none = {} /\ none \in Computations
  <2>1. none \in [{} -> SUBSET Int] /\ {} \in SUBSET Hours
    BY <1>7
  <2>2. QED
    BY <1>7, <2>1 DEF Computations
<1>9. refresher' = [task |-> "none", todo |-> {}, computed |-> none]
  BY <1>7 DEF IdleRefresher, CommitRefresh
<1>10. /\ refresher' \in RefresherType /\ refresher'.task = "none"
       /\ refresher'.todo = {} /\ Done' = {}
  BY <1>8, <1>9 DEF RefresherType, Done
<1>11. TelemetryShape' /\ RefresherHolds' /\ BatchHolds'
  <2>1. refreshed' \in BOOLEAN
    BY <1>1, <1>6 DEF TelemetryInv, TelemetryShape
  <2>2. QED
    BY <1>1, <1>3, <1>5, <1>10, <2>1
       DEF TelemetryInv, TelemetryShape, RefresherHolds, BatchHolds, Acceptable
<1>12. \A h : Reopenable(h)' => Reopenable(h)
  BY <1>1, <1>5 DEF Reopenable
<1>13. \A h \in Hours : AggregateHolds(h)'
  BY <1>1, <1>3, <1>12 DEF TelemetryInv, AggregateHolds, ComputedHolds
<1>14. SettledBefore' = WillSettle
  BY <1>1, <1>6 DEF SettledBefore, WillSettle
<1>15. ASSUME NEW s \in raw, NEW h \in raw, Carried(s, h), h < WillSettle
       PROVE  s \in integrated'[h] \/ h \in queued'
  <2>1. SampleHolds(s, h) /\ h \in Hours /\ hour \in Int /\ h \in Int /\ hour >= 0
    BY <1>15, TelemetryFacts DEF TelemetryInv, TelemetryShape
  <2>2. CASE h \in Done
    BY <2>1, <2>2, <1>1, <1>3, <1>5, <1>15 DEF SampleHolds
  <2>3. CASE h \notin Done
    <3>1. h < SettledBefore
      <4>1. CASE refresher.task = "periodic"
        <5>1. ~(hour - Lookback <= h /\ h <= hour)
          BY <2>1, <2>3, <4>1, <1>1 DEF TelemetryInv, RefresherHolds
        <5>2. h < hour - Lookback
          BY <2>1, <4>1, <5>1, <1>15, TelemetryFacts DEF WillSettle
        <5>3. QED
          BY <2>1, <5>2, TelemetryFacts DEF SettledBefore
      <4>2. CASE refresher.task = "backfill"
        BY <4>2, <1>15 DEF WillSettle
      <4>3. QED
        BY <1>1, <4>1, <4>2
    <3>2. QED
      BY <2>1, <2>3, <3>1, <1>1, <1>3, <1>5 DEF SampleHolds
  <2>4. QED
    BY <2>2, <2>3
<1>16. \A s, h \in raw : Carried(s, h) => SampleHolds(s, h)'
  BY <1>10, <1>14, <1>15 DEF SampleHolds
<1>17. \A s, h : Carried(s, h)' <=> Carried(s, h)
  BY DEF Carried
<1>18. QED
  BY <1>1, <1>4, <1>10, <1>11, <1>13, <1>16, <1>17 DEF TelemetryInv

LEMMA PurgeDecided ==
  ASSUME TelemetryInv, BeginPurge
  PROVE  TelemetryInv'
PROOF
<1>1. UNCHANGED <<hour, raw, integrated, queued, batch, refresher, refreshed>>
      /\ purge' = PurgeBefore
  BY DEF BeginPurge
<1>2. hour \in Int /\ queued \subseteq Nat /\ RawRetention \in Int
  BY TelemetryFacts DEF TelemetryInv, TelemetryShape
<1>3. /\ PurgeBefore \in Int /\ PurgeBefore <= hour - RawRetention
      /\ \A h \in queued : PurgeBefore <= h - 1
  <2>1. CASE queued = {}
    BY <2>1, <1>2 DEF PurgeBefore
  <2>2. CASE queued # {}
    <3>1. PICK first : first = CHOOSE h \in queued : \A other \in queued : h <= other
      OBVIOUS
    <3>2. first \in queued /\ \A other \in queued : first <= other
      BY <2>2, <1>2, <3>1, FirstExists
    <3>3. PurgeBefore = IF first - 1 < hour - RawRetention THEN first - 1 ELSE hour - RawRetention
      BY <2>2, <3>1 DEF PurgeBefore
    <3>4. first \in Int /\ \A h \in queued : h \in Int
      BY <1>2, <3>2
    <3>5. QED
      BY <1>2, <3>2, <3>3, <3>4
  <2>3. QED
    BY <2>1, <2>2
<1>4. TelemetryShape' /\ RefresherHolds' /\ BatchHolds'
  BY <1>1, <1>3 DEF TelemetryInv, TelemetryShape, RefresherHolds, BatchHolds, Acceptable, Done
<1>5. \A h \in Hours : Reopenable(h) => PurgeBefore <= h - 1
  BY <1>2, <1>3, TelemetryFacts DEF Reopenable
<1>6. \A h \in Hours : AggregateHolds(h)'
  BY <1>1, <1>5 DEF TelemetryInv, AggregateHolds, Reopenable
<1>7. (\A h \in Done : ComputedHolds(h))'
  BY <1>1 DEF TelemetryInv, ComputedHolds, Reopenable, Done
<1>8. (\A s, h \in raw : Carried(s, h) => SampleHolds(s, h))'
  BY <1>1 DEF TelemetryInv, SampleHolds, SettledBefore, WillSettle, Done, Carried
<1>9. QED
  BY <1>4, <1>6, <1>7, <1>8 DEF TelemetryInv

LEMMA PurgeCommits ==
  ASSUME TelemetryInv, CommitPurge
  PROVE  TelemetryInv'
PROOF
<1>1. /\ UNCHANGED <<hour, integrated, queued, batch, refresher, refreshed>>
      /\ raw' = {h \in raw : h >= purge} /\ purge # NoPurge /\ purge' = NoPurge
  BY DEF CommitPurge
<1>2. raw \subseteq Hours /\ purge \in Int /\ NoPurge \in Int
  BY TelemetryFacts DEF TelemetryInv, TelemetryShape
<1>3. TelemetryShape' /\ RefresherHolds' /\ BatchHolds'
  BY <1>1, <1>2 DEF TelemetryInv, TelemetryShape, RefresherHolds, BatchHolds, Acceptable, Done
<1>4. ASSUME NEW h \in Hours, NEW S, S \subseteq raw, \A s \in S : Carried(s, h), Reopenable(h)
      PROVE  S \subseteq raw'
  <2>1. purge <= h - 1
    BY <1>1, <1>4 DEF TelemetryInv, AggregateHolds
  <2>2. h \in Int
    BY TelemetryFacts
  <2>3. \A s \in S : s >= purge
    BY <1>2, <1>4, <2>1, <2>2 DEF Carried
  <2>4. QED
    BY <1>1, <1>4, <2>3
<1>5. \A h : Reopenable(h)' <=> Reopenable(h)
  BY <1>1 DEF Reopenable
<1>6. ASSUME NEW h \in Hours PROVE AggregateHolds(h)'
  <2>1. /\ \A s \in integrated[h] : Carried(s, h)
        /\ Reopenable(h) => integrated[h] \subseteq raw
    BY DEF TelemetryInv, AggregateHolds
  <2>2. Reopenable(h) => integrated[h] \subseteq raw'
    BY <2>1, <1>4
  <2>3. QED
    BY <2>1, <2>2, <1>1, <1>5 DEF AggregateHolds, Carried
<1>7. Done \subseteq Hours
  <2>1. refresher.computed \in Computations
    BY DEF TelemetryInv, TelemetryShape, RefresherType
  <2>2. PICK D \in SUBSET Hours : refresher.computed \in [D -> SUBSET Int]
    BY <2>1 DEF Computations
  <2>3. QED
    BY <2>2 DEF Done
<1>8. ASSUME NEW h \in Done PROVE ComputedHolds(h)'
  <2>1. /\ \A s \in refresher.computed[h] : Carried(s, h)
        /\ integrated[h] \subseteq refresher.computed[h]
        /\ Reopenable(h) => refresher.computed[h] \subseteq raw
    BY DEF TelemetryInv, ComputedHolds
  <2>2. Reopenable(h) => refresher.computed[h] \subseteq raw'
    BY <2>1, <1>4, <1>7
  <2>3. QED
    BY <2>1, <2>2, <1>1, <1>5 DEF ComputedHolds, Carried
<1>9. Done' = Done /\ raw' \subseteq raw
  BY <1>1 DEF Done
<1>10. (\A s, h \in raw : Carried(s, h) => SampleHolds(s, h))'
  BY <1>1, <1>9 DEF TelemetryInv, SampleHolds, SettledBefore, WillSettle, Done, Carried
<1>11. QED
  BY <1>3, <1>6, <1>8, <1>9, <1>10 DEF TelemetryInv

(* The hour ends after the periodic task has run: nothing is settled later *)
(* than it would have been.                                                *)
LEMMA HourEnds ==
  ASSUME TelemetryInv, HourPasses
  PROVE  TelemetryInv'
PROOF
<1>1. /\ UNCHANGED <<raw, integrated, queued, batch, refresher, purge>>
      /\ hour' = hour + 1 /\ hour < LastHour /\ refreshed = TRUE /\ refreshed' = FALSE
      /\ batch = NoBatch /\ purge = NoPurge /\ refresher.task # "periodic"
  BY DEF HourPasses, TelemetryInv, TelemetryShape
<1>2. hour \in Nat /\ hour' \in Hours
  BY <1>1, TelemetryFacts DEF TelemetryInv, TelemetryShape
<1>3. TelemetryShape' /\ RefresherHolds' /\ BatchHolds'
  BY <1>1, <1>2 DEF TelemetryInv, TelemetryShape, RefresherHolds, BatchHolds, Done
<1>4. \A h \in Hours : Reopenable(h)' => Reopenable(h)
  BY <1>1, <1>2, TelemetryFacts DEF Reopenable
<1>5. \A h \in Hours : AggregateHolds(h)'
  BY <1>1, <1>4 DEF TelemetryInv, AggregateHolds, Carried
<1>6. Done \subseteq Hours
  <2>1. refresher.computed \in Computations
    BY DEF TelemetryInv, TelemetryShape, RefresherType
  <2>2. PICK D \in SUBSET Hours : refresher.computed \in [D -> SUBSET Int]
    BY <2>1 DEF Computations
  <2>3. QED
    BY <2>2 DEF Done
<1>7. (\A h \in Done : ComputedHolds(h))'
  BY <1>1, <1>4, <1>6 DEF TelemetryInv, ComputedHolds, Carried, Done
<1>8. SettledBefore' = SettledBefore /\ WillSettle' = WillSettle
  BY <1>1, <1>2, TelemetryFacts DEF SettledBefore, WillSettle
<1>9. (\A s, h \in raw : Carried(s, h) => SampleHolds(s, h))'
  BY <1>1, <1>8 DEF TelemetryInv, SampleHolds, Done, Carried
<1>10. QED
  BY <1>3, <1>5, <1>7, <1>9 DEF TelemetryInv

LEMMA TelemetryStep ==
  ASSUME TelemetryInv, [TelemetryNext]_telemetryVars
  PROVE  TelemetryInv' /\ \A h \in Hours : integrated[h] \subseteq integrated'[h]
PROOF
<1>1. ASSUME NEW sample \in Measured, BeginBatch(sample)
      PROVE  TelemetryInv' /\ UNCHANGED integrated
  BY <1>1, BatchOpens DEF BeginBatch
<1>2. CASE CommitBatch \/ BatchFails
  BY <1>2, BatchCommits, BatchCloses DEF CommitBatch, BatchFails
<1>3. CASE BeginRefresh
  <2>1. PICK todo : todo = {h \in Hours : hour - Lookback <= h /\ h <= hour}
    OBVIOUS
  <2>2. /\ refresher' = [task |-> "periodic", todo |-> todo, computed |-> IdleRefresher.computed]
        /\ UNCHANGED <<hour, raw, integrated, queued, batch, purge, refreshed>>
    BY <1>3, <2>1 DEF BeginRefresh, IdleRefresher
  <2>3. todo \subseteq Hours /\ \A h \in Hours : h \in todo <=> hour - Lookback <= h /\ h <= hour
    BY <2>1
  <2>4. TelemetryInv'
    BY <2>2, <2>3, RefresherEmpty
  <2>5. QED
    BY <2>2, <2>4
<1>4. ASSUME NEW rows \in SUBSET queued, BeginDrain(rows)
      PROVE  TelemetryInv' /\ UNCHANGED integrated
  <2>1. /\ refresher' = [task |-> "backfill", todo |-> rows, computed |-> IdleRefresher.computed]
        /\ UNCHANGED <<hour, raw, integrated, queued, batch, purge, refreshed>>
    BY <1>4 DEF BeginDrain, IdleRefresher
  <2>2. rows \subseteq Hours /\ rows \subseteq queued
    BY DEF TelemetryInv, TelemetryShape
  <2>3. TelemetryInv'
    BY <2>1, <2>2, RefresherEmpty
  <2>4. QED
    BY <2>1, <2>3
<1>5. CASE RefreshFails
  <2>1. /\ refresher' = [task |-> "none", todo |-> {}, computed |-> IdleRefresher.computed]
        /\ UNCHANGED <<hour, raw, integrated, queued, batch, purge, refreshed>>
    BY <1>5 DEF RefreshFails, IdleRefresher
  <2>2. TelemetryInv'
    BY <2>1, RefresherEmpty
  <2>3. QED
    BY <2>1, <2>2
<1>6. ASSUME NEW h \in Hours, RefreshHour(h)
      PROVE  TelemetryInv' /\ UNCHANGED integrated
  BY <1>6, HourRefreshed DEF RefreshHour
<1>7. CASE CommitRefresh
  BY <1>7, RefreshCommits
<1>8. CASE BeginPurge \/ CommitPurge \/ HourPasses
  BY <1>8, PurgeDecided, PurgeCommits, HourEnds DEF BeginPurge, CommitPurge, HourPasses
<1>9. CASE UNCHANGED telemetryVars
  <2>1. UNCHANGED <<hour, raw, integrated, queued, batch, refresher, purge, refreshed>>
    BY <1>9 DEF telemetryVars
  <2>2. TelemetryShape' /\ RefresherHolds' /\ BatchHolds'
    BY <2>1 DEF TelemetryInv, TelemetryShape, RefresherHolds, BatchHolds, Acceptable, Done
  <2>3. (\A h \in Hours : AggregateHolds(h))'
    BY <2>1 DEF TelemetryInv, AggregateHolds, Reopenable, Carried
  <2>4. (\A h \in Done : ComputedHolds(h))'
    BY <2>1 DEF TelemetryInv, ComputedHolds, Reopenable, Done, Carried
  <2>5. (\A s, h \in raw : Carried(s, h) => SampleHolds(s, h))'
    BY <2>1 DEF TelemetryInv, SampleHolds, SettledBefore, WillSettle, Done, Carried
  <2>6. QED
    BY <2>1, <2>2, <2>3, <2>4, <2>5 DEF TelemetryInv
<1>10. QED
  BY <1>1, <1>2, <1>3, <1>4, <1>5, <1>6, <1>7, <1>8, <1>9 DEF TelemetryNext

(* No sample is forgotten: one that is too old for the periodic task is in *)
(* the aggregates of its hour and of the next or the hour is queued,       *)
(* whatever was computed, committed, rolled back or deleted while it came  *)
(* (ingest_telemetry_batch, drain_backfill, run_aggregation_task).         *)
THEOREM SamplesAreNotForgotten == TelemetrySpec => []SamplesAreIntegrated
PROOF
<1>1. TelemetryInv => SamplesAreIntegrated
  <2> SUFFICES ASSUME TelemetryInv, NEW s \in raw, NEW h \in {s, s + 1} \cap raw,
                      h < hour - Lookback
               PROVE  s \in integrated[h] \/ h \in queued
    BY DEF SamplesAreIntegrated
  <2>1. s \in Int /\ h \in Int /\ hour \in Int
    BY TelemetryFacts DEF TelemetryInv, TelemetryShape
  <2>2. Carried(s, h)
    BY <2>1 DEF Carried
  <2>3. h < SettledBefore
    BY <2>1, TelemetryFacts DEF SettledBefore
  <2>4. QED
    BY <2>2, <2>3 DEF TelemetryInv, SampleHolds
<1>2. TelemetryInv /\ [TelemetryNext]_telemetryVars => TelemetryInv'
  BY TelemetryStep
<1>3. QED
  BY TelemetryInitInv, <1>1, <1>2, PTL DEF TelemetrySpec

(* Aggregating again takes nothing out of an aggregate: retention deletes  *)
(* no sample of an hour that is queued, or that a sample still accepted    *)
(* would queue (retention_task, ingest_telemetry_batch).                   *)
THEOREM AggregatesOnlyGrow == TelemetrySpec => AggregatesKeepSamples
PROOF
<1>1. TelemetryInv /\ [TelemetryNext]_telemetryVars => TelemetryInv'
  BY TelemetryStep
<1>2. TelemetryInv /\ [TelemetryNext]_telemetryVars =>
        [\A h \in Hours : integrated[h] \subseteq integrated'[h]]_telemetryVars
  BY TelemetryStep
<1>3. QED
  BY TelemetryInitInv, <1>1, <1>2, PTL DEF TelemetrySpec, AggregatesKeepSamples

(***************************************************************************)
(* MarketPrices                                                            *)
(*                                                                         *)
(* The invariant names the newest import that succeeded by the order of    *)
(* the revisions, and bounds what the lock guards: imports are recorded    *)
(* one after another, so what a synthetic import is checked against is     *)
(* what it follows.                                                        *)
(***************************************************************************)
RunTimes == Int
ImportStatus == {"succeeded", "unchanged", "failed", "unpublished"}
RunRow ==
  [status : ImportStatus,
   file : Files \cup {Malformed, Synthetic, Unfetched}, synthetic : BOOLEAN,
   by : {"none", "poll", "administrator"}, at : RunTimes, archived : BOOLEAN]

NewestSucceeded == {r \in SucceededRuns : \A s \in SucceededRuns : s <= r}

MarketShape ==
  /\ runs \in Seq(RunRow)
  /\ slot \in Nat
  /\ fetching \in {"none", "poll", "administrator"}

MarketInv ==
  /\ MarketShape
  /\ current = NewestSucceeded
  /\ \A r \in current : ~runs[r].archived
  /\ \A r, s \in SucceededRuns : r < s /\ runs[s].synthetic => runs[r].synthetic

LEMMA MarketInitInv == MarketInit => MarketInv
PROOF
<1> SUFFICES ASSUME MarketInit PROVE MarketInv
  OBVIOUS
<1>1. runs = <<>> /\ runs \in Seq(RunRow) /\ DOMAIN runs = {}
  BY DEF MarketInit
<1>2. SucceededRuns = {}
  BY <1>1 DEF SucceededRuns
<1>3. QED
  BY <1>1, <1>2 DEF MarketInit, MarketInv, MarketShape, NewestSucceeded

LEMMA MarketSound == MarketInv => CurrentPricesAreSound
PROOF
<1> SUFFICES ASSUME MarketInv PROVE CurrentPricesAreSound
  OBVIOUS
<1>1. current = IF SucceededRuns = {} THEN {} ELSE {Max(SucceededRuns)}
  <2>1. CASE SucceededRuns = {}
    BY <2>1 DEF MarketInv, NewestSucceeded
  <2>2. CASE SucceededRuns # {}
    <3>1. Len(runs) \in Nat /\ SucceededRuns \subseteq 0 .. Len(runs)
      BY DEF MarketInv, MarketShape, SucceededRuns
    <3>2. PICK x \in SucceededRuns : \A y \in SucceededRuns : y <= x
      BY <2>2, <3>1, LastExists
    <3>3. \A y \in SucceededRuns : x >= y
      BY <3>1, <3>2
    <3>4. Max(SucceededRuns) \in SucceededRuns
          /\ \A y \in SucceededRuns : Max(SucceededRuns) >= y
      BY <3>3 DEF Max
    <3>5. PICK m : m = Max(SucceededRuns)
      OBVIOUS
    <3>6. m \in SucceededRuns /\ \A y \in SucceededRuns : y <= m
      BY <3>1, <3>4, <3>5
    <3>7. \A y \in SucceededRuns : y \in Int /\ (m <= y => y = m)
      BY <3>1, <3>6
    <3>8. NewestSucceeded = {m}
      BY <3>6, <3>7 DEF NewestSucceeded
    <3>9. QED
      BY <2>2, <3>5, <3>8 DEF MarketInv
  <2>3. QED
    BY <2>1, <2>2
<1>2. QED
  BY <1>1 DEF MarketInv, CurrentPricesAreSound

(* A row is recorded: real prices already there forbid synthetic ones.     *)
LEMMA RunRecorded ==
  ASSUME MarketInv, NEW run \in RunRow, Record(run), ~run.archived,
         slot' = slot, fetching' \in {"none", "poll", "administrator"},
         run.status = "succeeded" /\ run.synthetic => ~RealImported
  PROVE  MarketInv'
PROOF
<1> DEFINE n == Len(runs)
<1>1. runs \in Seq(RunRow) /\ n \in Nat /\ runs' = Append(runs, run)
  BY DEF Record, MarketInv, MarketShape
<1>2. /\ runs' \in Seq(RunRow) /\ DOMAIN runs = 1 .. n /\ DOMAIN runs' = 1 .. n + 1
      /\ runs'[n + 1] = run /\ \A r \in 1 .. n : runs'[r] = runs[r]
  BY <1>1
<1>3. current' = IF run.status = "succeeded" THEN {n + 1} ELSE current
  BY DEF Record, MakeCurrent
<1> HIDE DEF n
<1>4. MarketShape'
  BY <1>2 DEF MarketInv, MarketShape
<1>5. SucceededRuns \subseteq 1 .. n /\ \A r \in SucceededRuns : runs'[r] = runs[r]
  BY <1>2 DEF SucceededRuns
<1>6. SucceededRuns' = SucceededRuns \cup (IF run.status = "succeeded" THEN {n + 1} ELSE {})
  <2>1. \A r : r \in 1 .. n + 1 <=> r \in 1 .. n \/ r = n + 1
    BY <1>1 DEF n
  <2>2. ~(n + 1 \in 1 .. n)
    BY <1>1 DEF n
  <2>3. QED
    BY <1>2, <2>1, <2>2 DEF SucceededRuns
<1>7. CASE run.status = "succeeded"
  <2>1. SucceededRuns' = SucceededRuns \cup {n + 1} /\ current' = {n + 1}
    BY <1>3, <1>6, <1>7
  <2>2. \A r \in SucceededRuns : r \in Int /\ r < n + 1 /\ ~(n + 1 <= r)
    BY <1>1, <1>5 DEF n
  <2>3. n + 1 \in Int /\ n + 1 <= n + 1
    BY <1>1 DEF n
  <2>4. NewestSucceeded' = {n + 1}
    BY <2>1, <2>2, <2>3 DEF NewestSucceeded
  <2>5. \A r, s \in SucceededRuns' : r < s /\ runs'[s].synthetic => runs'[r].synthetic
    <3> SUFFICES ASSUME NEW r \in SucceededRuns', NEW s \in SucceededRuns',
                        r < s, runs'[s].synthetic
                 PROVE  runs'[r].synthetic
      OBVIOUS
    <3>1. r \in SucceededRuns
      BY <2>1, <2>2, <2>3
    <3>2. CASE s = n + 1
      <4>1. ~RealImported
        BY <3>2, <1>2, <1>7
      <4>2. QED
        BY <3>1, <4>1, <1>5 DEF RealImported
    <3>3. CASE s # n + 1
      BY <2>1, <3>1, <3>3, <1>5 DEF MarketInv
    <3>4. QED
      BY <3>2, <3>3
  <2>6. QED
    BY <1>2, <1>4, <2>1, <2>4, <2>5 DEF MarketInv
<1>8. CASE run.status # "succeeded"
  <2>1. SucceededRuns' = SucceededRuns /\ current' = current
    BY <1>3, <1>6, <1>8
  <2>2. current \subseteq SucceededRuns
    BY DEF MarketInv, NewestSucceeded
  <2>3. QED
    BY <1>4, <1>5, <2>1, <2>2 DEF MarketInv, NewestSucceeded
<1>9. QED
  BY <1>7, <1>8

LEMMA FilesDiffer == Malformed # Synthetic /\ Synthetic \notin Files
PROOF
<1>1. ASSUME Malformed = Synthetic PROVE FALSE
  <2>1. {Malformed, Synthetic, Unfetched} = {Unfetched} \cup {Synthetic}
    BY <1>1
  <2>2. IsFiniteSet({Unfetched}) /\ Cardinality({Unfetched}) = 1
    BY FS_Singleton
  <2>3. Cardinality({Unfetched} \cup {Synthetic}) <= 2
    BY <2>2, FS_AddElement
  <2>4. QED
    BY <2>1, <2>3, MarketAssumption
<1>2. Synthetic \notin Files
  BY MarketAssumption
<1>3. QED
  BY <1>1, <1>2

LEMMA RunFacts ==
  \A status \in ImportStatus,
     file \in Files \cup {Malformed, Synthetic, Unfetched},
     by \in {"none", "poll", "administrator"}, at \in RunTimes :
    \A row : row = Run(status, file, by, at) =>
      /\ row \in RunRow /\ ~row.archived /\ row.status = status
      /\ (row.synthetic = TRUE) <=> (file = Synthetic)
PROOF
<1> TAKE status \in ImportStatus,
         file \in Files \cup {Malformed, Synthetic, Unfetched},
         by \in {"none", "poll", "administrator"}, at \in RunTimes
<1> TAKE row
<1> HAVE row = Run(status, file, by, at)
<1>1. PICK b \in BOOLEAN : b = (file = Synthetic)
  OBVIOUS
<1>2. row = [status |-> status, file |-> file, synthetic |-> b, by |-> by, at |-> at,
             archived |-> FALSE]
  BY <1>1, Zenon DEF Run
<1>3. row \in RunRow /\ ~row.archived /\ row.status = status /\ row.synthetic = b
  BY <1>2 DEF RunRow
<1>4. QED
  BY <1>1, <1>3, Zenon

LEMMA ImportFinished ==
  ASSUME MarketInv, NEW answer \in Files \cup {Malformed, Unfetched}, FinishImport(answer)
  PROVE  MarketInv'
PROOF
<1>1. PICK file : file = FileOf(answer)
  OBVIOUS
<1>2. PICK status : status = StatusOf(file)
  OBVIOUS
<1>3. PICK run : run = Run(status, file, fetching, slot)
  OBVIOUS
<1>4. /\ file \in Files \cup {Malformed, Synthetic, Unfetched}
      /\ status \in ImportStatus
      /\ fetching \in {"none", "poll", "administrator"} /\ slot \in RunTimes
  BY <1>1, <1>2 DEF FileOf, StatusOf, MarketInv, MarketShape, RunTimes, ImportStatus
<1>5. run \in RunRow /\ ~run.archived /\ run.status = status /\ (run.synthetic = TRUE <=> file = Synthetic)
  BY <1>3, <1>4, RunFacts
<1>6. Record(run) /\ slot' = slot /\ fetching' = "none"
  BY <1>1, <1>2, <1>3 DEF FinishImport
<1>7. status = "succeeded" /\ file = Synthetic => ~RealImported
  BY <1>2 DEF StatusOf, KeepsReal
<1>8. QED
  BY <1>5, <1>6, <1>7, RunRecorded

LEMMA FileImported ==
  ASSUME MarketInv,
         ImportUnpublished \/ \E file \in Files \cup {Malformed} : ImportFile(file)
  PROVE  MarketInv'
PROOF
<1>1. PICK status \in ImportStatus,
           file \in Files \cup {Malformed, Synthetic, Unfetched}, at \in RunTimes :
        /\ Record(Run(status, file, "administrator", at))
        /\ slot' = slot /\ fetching' = fetching
        /\ status = "succeeded" => file # Synthetic
  <2>1. CASE ImportUnpublished
    BY <2>1 DEF ImportUnpublished, NotFetched, RunTimes, ImportStatus
  <2>2. ASSUME NEW file \in Files \cup {Malformed}, ImportFile(file)
        PROVE  \E status \in ImportStatus :
                 Record(Run(status, file, "administrator", slot))
    BY <2>2 DEF ImportFile, ImportStatus
  <2>3. slot \in RunTimes
    BY DEF MarketInv, MarketShape, RunTimes
  <2>4. \A file \in Files \cup {Malformed} : file # Synthetic
    BY FilesDiffer
  <2>5. \A file : ImportFile(file) => slot' = slot /\ fetching' = fetching
    BY DEF ImportFile
  <2>6. QED
    BY <2>1, <2>2, <2>3, <2>4, <2>5
<1>2. PICK run : run = Run(status, file, "administrator", at)
  OBVIOUS
<1>3. run \in RunRow /\ ~run.archived /\ run.status = status /\ (run.synthetic = TRUE <=> file = Synthetic)
  BY <1>2, RunFacts
<1>4. fetching' \in {"none", "poll", "administrator"}
  BY <1>1 DEF MarketInv, MarketShape
<1>5. QED
  BY <1>1, <1>2, <1>3, <1>4, RunRecorded

LEMMA RunsArchived ==
  ASSUME MarketInv, NEW dry \in BOOLEAN, FinishRetention(dry)
  PROVE  MarketInv'
PROOF
<1>1. PICK old : old = BeyondLimit(retention.revisions, retention.limit) \ current
  OBVIOUS
<1>2. /\ runs' = [r \in DOMAIN runs |->
           IF r \in old /\ ~dry THEN [runs[r] EXCEPT !.archived = TRUE] ELSE runs[r]]
      /\ UNCHANGED <<current, slot, fetching>>
  BY <1>1 DEF FinishRetention
<1>3. runs \in Seq(RunRow) /\ \A r \in DOMAIN runs : runs[r] \in RunRow
  BY DEF MarketInv, MarketShape
<1>4. ASSUME NEW r \in DOMAIN runs
      PROVE  /\ runs'[r] \in RunRow /\ runs'[r].status = runs[r].status
             /\ runs'[r].synthetic = runs[r].synthetic
             /\ r \in current => runs'[r] = runs[r]
  BY <1>1, <1>2, <1>3 DEF RunRow
<1>5. runs' \in Seq(RunRow) /\ DOMAIN runs' = DOMAIN runs
  <2>1. DOMAIN runs' = DOMAIN runs /\ DOMAIN runs = 1 .. Len(runs) /\ Len(runs) \in Nat
    BY <1>2, <1>3
  <2>2. runs' = [r \in 1 .. Len(runs) |-> runs'[r]]
    BY <1>2, <2>1
  <2>3. runs' \in [1 .. Len(runs) -> RunRow]
    BY <1>4, <2>1, <2>2
  <2>4. QED
    BY <2>1, <2>3, SeqDef
<1>6. SucceededRuns' = SucceededRuns
  BY <1>4, <1>5 DEF SucceededRuns
<1>7. SucceededRuns \subseteq DOMAIN runs /\ current \subseteq SucceededRuns
  BY DEF SucceededRuns, MarketInv, NewestSucceeded
<1>8. QED
  BY <1>2, <1>4, <1>5, <1>6, <1>7 DEF MarketInv, MarketShape, NewestSucceeded

(* However the poll, an administrator's imports and the archive of old     *)
(* revisions follow each other, the prices in use are those of the newest  *)
(* import that succeeded, never archived, and synthetic prices never come  *)
(* after real ones (import_opcom_day, enforce_revision_retention).         *)
THEOREM PricesStaySound == MarketSpec => []CurrentPricesAreSound
PROOF
<1>1. MarketInv /\ [MarketNext]_marketVars => MarketInv'
  <2> SUFFICES ASSUME MarketInv, [MarketNext]_marketVars PROVE MarketInv'
    OBVIOUS
  <2>1. ASSUME UNCHANGED <<runs, current>>, slot' \in Nat,
               fetching' \in {"none", "poll", "administrator"}
        PROVE  MarketInv'
    BY <2>1 DEF MarketInv, MarketShape, NewestSucceeded, SucceededRuns
  <2>2. slot \in Nat /\ slot + 1 \in Nat /\ fetching \in {"none", "poll", "administrator"}
    BY DEF MarketInv, MarketShape
  <2>3. CASE \/ StartPoll \/ LockPoll \/ StartImport \/ ImportDies
             \/ (\E limit \in Limits : StartRetention(limit)) \/ SlotPasses
             \/ UNCHANGED marketVars
    <3>1. /\ UNCHANGED <<runs, current>> /\ slot' \in Nat
          /\ fetching' \in {"none", "poll", "administrator"}
      BY <2>2, <2>3
         DEF StartPoll, LockPoll, StartImport, ImportDies, StartRetention, SlotPasses, marketVars
    <3>2. QED
      BY <2>1, <3>1
  <2>4. QED
    BY <2>3, ImportFinished, FileImported, RunsArchived DEF MarketNext
<1>2. QED
  BY MarketInitInv, MarketSound, <1>1, PTL DEF MarketSpec

(***************************************************************************)
(* SolarInputs                                                             *)
(*                                                                         *)
(* No stored sample is newer than the inverter's watermark: a snapshot     *)
(* that has read the watermark first can have read nothing newer, and what *)
(* it reads last is compared with the watermark it has.                    *)
(***************************************************************************)
SolarShape ==
  /\ watermark \in Nat
  /\ readings \in [Inputs -> [Moments -> {"none", "null", "known"}]]

WatermarkHolds == \A i \in Inputs : \A t \in MomentsOf(i) : t <= watermark

ViewHolds ==
  view.step \in {"inverter", "trackers"} =>
    view.newest \in Nat /\ view.watermark \in Nat /\ view.newest <= view.watermark

SolarInv ==
  /\ SolarShape
  /\ WatermarkHolds
  /\ ViewHolds
  /\ TotalsLeaveNothingBehind

LEMMA NewestMomentFacts ==
  ASSUME NEW S, S \subseteq Moments
  PROVE  /\ NewestOf(S) \in Nat
         /\ NewestOf(S) \in S \/ NewestOf(S) = 0
PROOF
<1>1. LastMoment + Ahead \in Nat /\ Moments \subseteq Nat /\ \A t \in Moments : t <= LastMoment + Ahead
  BY SolarAssumption DEF Moments
<1>2. PICK N : N = LastMoment + Ahead
  OBVIOUS
<1>3. PICK T : T = S \cup {0}
  OBVIOUS
<1>4. N \in Nat /\ T \subseteq 0 .. N /\ T # {}
  BY <1>1, <1>2, <1>3
<1>5. PICK x \in T : \A y \in T : y <= x
  BY <1>4, LastExists
<1>6. \A y \in T : x >= y
  BY <1>4, <1>5
<1>7. Max(T) \in T
  BY <1>6 DEF Max
<1>8. NewestOf(S) = Max(T)
  BY <1>3 DEF NewestOf
<1>9. PICK m : m = Max(T)
  OBVIOUS
<1>10. m \in T
  BY <1>7, <1>9
<1>11. m \in 0 .. N /\ 0 .. N \subseteq Nat
  BY <1>4, <1>10
<1>12. m \in S \/ m = 0
  BY <1>3, <1>10
<1>13. NewestOf(S) = m
  BY <1>8, <1>9
<1>14. QED
  BY <1>11, <1>12, <1>13

LEMMA SolarInitInv == SolarInit => SolarInv
PROOF
<1> SUFFICES ASSUME SolarInit PROVE SolarInv
  OBVIOUS
<1>1. SolarShape
  BY DEF SolarInit, SolarShape
<1>2. WatermarkHolds
  BY DEF SolarInit, WatermarkHolds, MomentsOf
<1>3. ViewHolds
  BY DEF SolarInit, ViewHolds, Idle
<1>4. DOMAIN displayed.total = {} /\ DOMAIN displayed.compared = {}
  BY DEF SolarInit
<1>5. QED
  BY <1>1, <1>2, <1>3, <1>4 DEF SolarInv, TotalsLeaveNothingBehind

(* Reports: the watermark is moved to the report's moment or is beyond it. *)
LEMMA SolarReported ==
  ASSUME SolarInv, NEW at \in Moments, NEW items, Report(at, items),
         \A i \in DOMAIN items : items[i] \in {"known", "null"}
  PROVE  SolarInv'
PROOF
<1>1. UNCHANGED <<view, displayed>> /\ watermark' = NewWatermark(at)
  BY DEF Report
<1>2. at \in Nat /\ watermark \in Nat
  BY SolarAssumption DEF Moments, SolarInv, SolarShape
<1>3. watermark' \in Nat /\ at <= watermark' /\ watermark <= watermark'
  BY <1>1, <1>2 DEF NewWatermark
<1>4. \A i \in Inputs : readings[i] \in [Moments -> {"none", "null", "known"}]
  BY DEF SolarInv, SolarShape
<1>5. ASSUME NEW i \in Inputs
      PROVE  /\ readings'[i] \in [Moments -> {"none", "null", "known"}]
             /\ \A t \in Moments : readings'[i][t] # "none" => t = at \/ readings[i][t] # "none"
  <2>1. readings'[i] = IF i \in DOMAIN items /\ readings[i][at] = "none"
                       THEN [readings[i] EXCEPT ![at] = items[i]] ELSE readings[i]
    BY DEF Report
  <2>2. CASE i \in DOMAIN items /\ readings[i][at] = "none"
    <3>1. items[i] \in {"none", "null", "known"}
      BY <2>2
    <3>2. readings'[i] = [readings[i] EXCEPT ![at] = items[i]]
      BY <2>1, <2>2
    <3>3. QED
      BY <3>1, <3>2, <1>4
  <2>3. CASE ~(i \in DOMAIN items /\ readings[i][at] = "none")
    BY <2>1, <2>3, <1>4
  <2>4. QED
    BY <2>2, <2>3
<1>6. readings' \in [Inputs -> [Moments -> {"none", "null", "known"}]]
  <2>1. readings' = [i \in Inputs |-> readings'[i]]
    BY DEF Report
  <2>2. QED
    BY <1>5, <2>1
<1>7. SolarShape'
  BY <1>3, <1>6 DEF SolarShape
<1>8. ASSUME NEW i \in Inputs, NEW t \in Moments, readings'[i][t] # "none" PROVE t <= watermark'
  <2>1. t \in Nat
    BY SolarAssumption DEF Moments
  <2>2. t = at \/ t <= watermark
    BY <1>5, <1>8 DEF SolarInv, WatermarkHolds, MomentsOf
  <2>3. QED
    BY <1>2, <1>3, <2>1, <2>2
<1>9. WatermarkHolds'
  BY <1>8 DEF WatermarkHolds, MomentsOf
<1>10. QED
  BY <1>1, <1>7, <1>9 DEF SolarInv, ViewHolds, TotalsLeaveNothingBehind

LEMMA SnapshotBegins ==
  ASSUME SolarInv, ReadInverter
  PROVE  SolarInv'
PROOF
<1> DEFINE all == UNION {MomentsOf(i) : i \in Inputs}
<1>1. /\ UNCHANGED <<watermark, readings, displayed>>
      /\ view' = [step |-> "inverter", now |-> moment, watermark |-> watermark,
                  newest |-> NewestOf(all)]
  BY DEF ReadInverter
<1>2. all \subseteq Moments /\ \A t \in all : t <= watermark
  BY DEF MomentsOf, SolarInv, WatermarkHolds
<1>3. watermark \in Nat
  BY DEF SolarInv, SolarShape
<1> HIDE DEF all
<1>4. NewestOf(all) \in Nat /\ NewestOf(all) <= watermark
  BY <1>2, <1>3, NewestMomentFacts
<1>5. ViewHolds'
  BY <1>1, <1>3, <1>4 DEF ViewHolds
<1>6. QED
  BY <1>1, <1>5 DEF SolarInv, SolarShape, WatermarkHolds, MomentsOf, TotalsLeaveNothingBehind

(* What is read together is fresh for the watermark that the view has.     *)
LEMMA TogetherFacts ==
  ASSUME SolarInv, view.watermark \in Nat, NEW S
  PROVE  \A i \in DOMAIN Together(S) : /\ Together(S)[i] \in Nat
                                       /\ Together(S)[i] >= view.watermark
PROOF
<1> DEFINE at == [i \in S |-> NewestOf(MomentsOf(i))]
<1>1. \A i \in S : at[i] \in Nat
  <2>1. \A i : MomentsOf(i) \subseteq Moments
    BY DEF MomentsOf
  <2>2. QED
    BY <2>1, NewestMomentFacts
<1>2. Together(S) = IF \A i \in S : ~Stale(at[i]) /\ readings[i][at[i]] = "known"
                    THEN at ELSE <<>>
  BY DEF Together
<1>3. DOMAIN at = S
  OBVIOUS
<1> HIDE DEF at
<1>4. CASE \A i \in S : ~Stale(at[i])
  <2>1. \A i \in S : at[i] >= view.watermark
    BY <1>1, <1>4 DEF Stale
  <2>2. Together(S) = at \/ Together(S) = <<>>
    BY <1>2
  <2>3. QED
    BY <1>1, <1>3, <2>1, <2>2
<1>5. CASE ~(\A i \in S : ~Stale(at[i]))
  <2>1. Together(S) = <<>>
    BY <1>2, <1>5
  <2>2. QED
    BY <2>1
<1>6. QED
  BY <1>4, <1>5

LEMMA SnapshotEnds ==
  ASSUME SolarInv, ReadSamples
  PROVE  SolarInv'
PROOF
<1>1. /\ UNCHANGED <<watermark, readings>> /\ view' = Idle /\ view.step = "trackers"
      /\ displayed' = [newest |-> view.newest, total |-> Together(view.inputs),
                       compared |-> IF Cardinality(view.grouped) >= 2
                                    THEN Together(view.grouped) ELSE <<>>]
  BY DEF ReadSamples
<1>2. view.newest \in Nat /\ view.watermark \in Nat /\ view.newest <= view.watermark
  BY <1>1 DEF SolarInv, ViewHolds
<1>3. \A S : \A i \in DOMAIN Together(S) : Together(S)[i] >= view.newest
  <2> TAKE S
  <2> TAKE i \in DOMAIN Together(S)
  <2>1. Together(S)[i] \in Nat /\ Together(S)[i] >= view.watermark
    BY <1>2, TogetherFacts
  <2>2. QED
    BY <1>2, <2>1
<1>4. PICK total : total = Together(view.inputs)
  OBVIOUS
<1>5. PICK compared : compared = IF Cardinality(view.grouped) >= 2
                                 THEN Together(view.grouped) ELSE <<>>
  OBVIOUS
<1>6. /\ \A i \in DOMAIN total : total[i] >= view.newest
      /\ \A i \in DOMAIN compared : compared[i] >= view.newest
  BY <1>3, <1>4, <1>5
<1>7. displayed'.newest = view.newest /\ displayed'.total = total /\ displayed'.compared = compared
  BY <1>1, <1>4, <1>5
<1>8. TotalsLeaveNothingBehind'
  BY <1>6, <1>7 DEF TotalsLeaveNothingBehind
<1>9. ViewHolds'
  BY <1>1 DEF ViewHolds, Idle
<1>10. QED
  BY <1>1, <1>8, <1>9 DEF SolarInv, SolarShape, WatermarkHolds, MomentsOf

(* However late, repeated or partial the reports are and however the three *)
(* queries of a snapshot fall between them, no input in a displayed total  *)
(* or comparison was left behind by a report stored before the snapshot    *)
(* began (ingest, snapshot).                                               *)
THEOREM NothingIsLeftBehind == SolarSpec => []TotalsLeaveNothingBehind
PROOF
<1>1. SolarInv => TotalsLeaveNothingBehind
  BY DEF SolarInv
<1>2. SolarInv /\ [SolarNext]_solarVars => SolarInv'
  <2> SUFFICES ASSUME SolarInv, [SolarNext]_solarVars PROVE SolarInv'
    OBVIOUS
  <2>1. ASSUME NEW at \in Moments, NEW covered, NEW items \in Items(covered), Report(at, items)
        PROVE  SolarInv'
    <3>1. \A i \in DOMAIN items : items[i] \in {"known", "null"}
      BY DEF Items
    <3>2. QED
      BY <2>1, <3>1, SolarReported
  <2>2. CASE ReadTrackers
    <3>1. /\ UNCHANGED <<watermark, readings, displayed>> /\ view.step = "inverter"
          /\ view'.newest = view.newest /\ view'.watermark = view.watermark
      BY <2>2 DEF ReadTrackers
    <3>2. QED
      BY <3>1 DEF SolarInv, SolarShape, WatermarkHolds, MomentsOf, ViewHolds,
                  TotalsLeaveNothingBehind
  <2>3. CASE SolarTimePasses \/ (\E i \in Inputs : ConfigureInput(i)) \/ UNCHANGED solarVars
    <3>1. UNCHANGED <<watermark, readings, view, displayed>>
      BY <2>3 DEF SolarTimePasses, ConfigureInput, solarVars
    <3>2. QED
      BY <3>1 DEF SolarInv, SolarShape, WatermarkHolds, MomentsOf, ViewHolds,
                  TotalsLeaveNothingBehind
  <2>4. QED
    BY <2>1, <2>2, <2>3, SnapshotBegins, SnapshotEnds DEF SolarNext
<1>3. QED
  BY SolarInitInv, <1>1, <1>2, PTL DEF SolarSpec

(***************************************************************************)
(* StationSetup                                                            *)
(*                                                                         *)
(* The versions of a tariff form a chain: the last one alone is open, each *)
(* ends where a later one starts or before, and no moment after the first  *)
(* start is left out.  A configuration that was checked follows a version  *)
(* that exists, so it is the next one unless it is taken.                  *)
(***************************************************************************)
TariffVersions == [from : Dates, to : Dates \cup {Unending}, guided : BOOLEAN]

Chain(rows) ==
  /\ rows \in Seq(TariffVersions)
  /\ \A n \in 1 .. Len(rows) :
       rows[n].from < rows[n].to /\ (rows[n].to = Unending <=> n = Len(rows))
  /\ \A m, n \in 1 .. Len(rows) : m < n => rows[m].to <= rows[n].from
  /\ \A n \in 1 .. Len(rows) : \A at \in Dates :
       rows[n].from <= at => \E k \in 1 .. Len(rows) : rows[k].from <= at /\ at < rows[k].to

Numbered(rows) == rows \in Seq(Nat) /\ \A n \in 1 .. Len(rows) : rows[n] = n

FormHolds(form) ==
  /\ form.op \in {"config", "preferences", "preset"} => form.seen \in Nat
  /\ form.op = "checked" => form.version \in 1 .. Len(configs) + 1
  /\ form.op = "advanced" => form.from \in Dates

SetupInv ==
  /\ Numbered(configs) /\ Numbered(prefs)
  /\ tariffs \in [Directions -> [kind : Kinds \cup {"none"}, versions : Seq(TariffVersions)]]
  /\ \A d \in Directions : Chain(tariffs[d].versions)
  /\ date \in Dates
  /\ DOMAIN forms = Editors
  /\ \A e \in Editors : FormHolds(forms[e])

(* The newest version has the largest number, which is also how many there *)
(* are, and a row with the next number keeps the rows numbered.            *)
LEMMA CurrentIsLength ==
  ASSUME NEW rows, Numbered(rows)
  PROVE  /\ Current(rows) = Len(rows) /\ Len(rows) \in Nat
         /\ Numbered(Append(rows, Len(rows) + 1))
         /\ Len(Append(rows, Len(rows) + 1)) = Len(rows) + 1
PROOF
<1>1. rows \in Seq(Nat) /\ Len(rows) \in Nat /\ DOMAIN rows = 1 .. Len(rows)
  BY LenProperties DEF Numbered
<1>2. Current(rows) = Len(rows)
  <2>1. CASE rows = <<>>
    BY <2>1 DEF Current
  <2>2. CASE rows # <<>>
    <3>1. Len(rows) \in 1 .. Len(rows)
      BY <1>1, <2>2, EmptySeq
    <3>2. QED
      BY <3>1, <2>2 DEF Current, Numbered
  <2>3. QED
    BY <2>1, <2>2
<1>3. PICK n \in Nat : n = Len(rows) + 1
  BY <1>1
<1>4. PICK more : more = Append(rows, n)
  OBVIOUS
<1>5. /\ more \in Seq(Nat) /\ Len(more) = n
      /\ \A i \in 1 .. Len(rows) : more[i] = rows[i]
      /\ more[n] = n
  BY <1>1, <1>3, <1>4, AppendProperties
<1>6. \A i \in 1 .. n : i \in 1 .. Len(rows) \/ i = n
  BY <1>1, <1>3
<1>7. Numbered(more)
  BY <1>5, <1>6 DEF Numbered
<1>8. QED
  BY <1>1, <1>2, <1>3, <1>4, <1>5, <1>7

(* Only the last version of a chain is open.                               *)
LEMMA LatestIsLast ==
  ASSUME NEW d \in Directions, Chain(tariffs[d].versions)
  PROVE  LET rows == tariffs[d].versions
         IN /\ Len(rows) \in Nat /\ DOMAIN rows = 1 .. Len(rows)
            /\ Latest(d) = Len(rows)
            /\ OpenVersions(d) = {n \in 1 .. Len(rows) : n = Len(rows)}
PROOF
<1>1. PICK rows : rows = tariffs[d].versions
  OBVIOUS
<1>2. rows \in Seq(TariffVersions) /\ Len(rows) \in Nat /\ DOMAIN rows = 1 .. Len(rows)
  BY <1>1, LenProperties DEF Chain
<1>3. \A n \in 1 .. Len(rows) : rows[n].to = Unending <=> n = Len(rows)
  BY <1>1 DEF Chain
<1>4. OpenVersions(d) = {n \in 1 .. Len(rows) : n = Len(rows)}
  BY <1>1, <1>2, <1>3 DEF OpenVersions
<1>5. CASE Len(rows) = 0
  <2>1. OpenVersions(d) = {}
    BY <1>4, <1>5
  <2>2. QED
    BY <2>1, <1>1, <1>2, <1>4, <1>5 DEF Latest
<1>6. CASE Len(rows) # 0
  <2>1. OpenVersions(d) = {Len(rows)}
    BY <1>2, <1>4, <1>6
  <2>2. rows[Len(rows)] \in TariffVersions
    BY <1>2, <1>6, ElementOfSeq
  <2>3. rows[Len(rows)].from <= rows[Len(rows)].from
    BY <2>2, SetupAssumption DEF TariffVersions, Dates
  <2>4. Latest(d) = Len(rows)
    BY <2>1, <2>3, <1>1 DEF Latest
  <2>5. QED
    BY <2>4, <1>1, <1>2, <1>4
<1>7. QED
  BY <1>5, <1>6

(* A version that starts after the open one, which then ends, keeps the    *)
(* chain.                                                                  *)
LEMMA ChainExtends ==
  ASSUME NEW rows, Chain(rows), NEW from \in Dates, NEW guided \in BOOLEAN,
         NEW ended, DOMAIN ended = 1 .. Len(rows),
         \A n \in 1 .. Len(rows) :
           ended[n] = IF n = Len(rows) THEN [rows[n] EXCEPT !.to = from] ELSE rows[n],
         ended \in Seq(TariffVersions), Len(ended) = Len(rows),
         \A n \in 1 .. Len(rows) : n = Len(rows) => rows[n].from < from
  PROVE  Chain(Append(ended, [from |-> from, to |-> Unending, guided |-> guided]))
PROOF
<1> DEFINE L == Len(rows)
           next == [from |-> from, to |-> Unending, guided |-> guided]
<1>1. L \in Nat /\ Dates \subseteq Nat /\ Unending \in Nat /\ \A t \in Dates : t < Unending
  BY LenProperties, SetupAssumption DEF Chain, Dates, Unending
<1>2. \A n \in 1 .. L : rows[n] \in TariffVersions
  BY ElementOfSeq DEF Chain
<1>3. \A n \in 1 .. L : rows[n].from \in Dates /\ rows[n].to \in Dates \cup {Unending}
  BY <1>2 DEF TariffVersions
<1>4. next \in TariffVersions /\ next.from = from /\ next.to = Unending
  BY DEF TariffVersions
<1>5. PICK more : more = Append(ended, next)
  OBVIOUS
<1>6. /\ more \in Seq(TariffVersions) /\ Len(more) = L + 1
      /\ \A n \in 1 .. L : more[n] = ended[n]
      /\ more[L + 1] = next
  BY <1>4, <1>5, AppendProperties
<1>7. \A n \in 1 .. L :
        /\ more[n].from = rows[n].from
        /\ n # L => more[n].to = rows[n].to
        /\ n = L => more[n].to = from
  <2> SUFFICES ASSUME NEW n \in 1 .. L
               PROVE  /\ more[n].from = rows[n].from
                      /\ n # L => more[n].to = rows[n].to
                      /\ n = L => more[n].to = from
    OBVIOUS
  <2>1. CASE n = L
    <3>1. PICK row : row = rows[n]
      OBVIOUS
    <3>2. row \in TariffVersions /\ more[n] = [row EXCEPT !.to = from]
      BY <1>2, <1>6, <2>1, <3>1
    <3>3. [row EXCEPT !.to = from].from = row.from /\ [row EXCEPT !.to = from].to = from
      BY <3>2 DEF TariffVersions
    <3>4. QED
      BY <3>1, <3>2, <3>3, <2>1
  <2>2. CASE n # L
    BY <1>6, <2>2
  <2>3. QED
    BY <2>1, <2>2
<1>8. more[L + 1].from = from /\ more[L + 1].to = Unending
  BY <1>4, <1>6
<1>9. \A n \in 1 .. L + 1 : n \in 1 .. L \/ n = L + 1
  BY <1>1
<1>10. \A n \in 1 .. L : rows[n].from < rows[n].to /\ (rows[n].to = Unending <=> n = L)
  BY DEF Chain
<1>11. \A m, n \in 1 .. L : m < n => rows[m].to <= rows[n].from
  BY DEF Chain
<1>12. \A n \in 1 .. L + 1 :
         more[n].from < more[n].to /\ (more[n].to = Unending <=> n = L + 1)
  <2> SUFFICES ASSUME NEW n \in 1 .. L + 1
               PROVE  more[n].from < more[n].to /\ (more[n].to = Unending <=> n = L + 1)
    OBVIOUS
  <2>1. CASE n = L + 1
    BY <2>1, <1>1, <1>8
  <2>2. CASE n \in 1 .. L /\ n = L
    <3>1. more[n].from = rows[n].from /\ more[n].to = from
      BY <2>2, <1>7
    <3>2. n = Len(rows) /\ n \in 1 .. Len(rows)
      BY <2>2
    <3>3. rows[n].from < from
      BY <3>2
    <3>4. n # L + 1
      <4>1. PICK l \in Nat : l = L
        BY <1>1
      <4>2. n = l
        BY <4>1, <2>2
      <4>3. l # l + 1
        OBVIOUS
      <4>4. QED
        BY <4>1, <4>2, <4>3
    <3>5. from # Unending
      BY <1>1
    <3>6. QED
      BY <3>1, <3>3, <3>4, <3>5
  <2>3. CASE n \in 1 .. L /\ n # L
    BY <2>3, <1>1, <1>7, <1>10
  <2>4. QED
    BY <1>9, <2>1, <2>2, <2>3
<1>13. \A m, n \in 1 .. L + 1 : m < n => more[m].to <= more[n].from
  <2> SUFFICES ASSUME NEW m \in 1 .. L + 1, NEW n \in 1 .. L + 1, m < n
               PROVE  more[m].to <= more[n].from
    OBVIOUS
  <2>1. m \in 1 .. L
    BY <1>1, <1>9
  <2>2. CASE n \in 1 .. L
    <3>1. m # L
      BY <2>1, <2>2, <1>1
    <3>2. QED
      BY <2>1, <2>2, <3>1, <1>7, <1>11
  <2>3. CASE n = L + 1 /\ m = L
    BY <2>1, <2>3, <1>1, <1>7, <1>8
  <2>4. CASE n = L + 1 /\ m # L
    <3>1. L \in 1 .. L /\ m < L
      BY <2>1, <2>4, <1>1
    <3>2. rows[m].to <= rows[L].from /\ rows[L].from < from
      BY <3>1, <2>1, <1>11
    <3>3. more[m].to = rows[m].to /\ rows[m].to \in Nat /\ rows[L].from \in Nat /\ from \in Nat
      BY <3>1, <2>1, <2>4, <1>1, <1>3, <1>7
    <3>4. rows[m].to <= from
      BY <3>2, <3>3
    <3>5. QED
      BY <3>3, <3>4, <2>4, <1>8
  <2>5. QED
    BY <1>9, <2>2, <2>3, <2>4
<1>14. \A n \in 1 .. L + 1 : \A at \in Dates :
         more[n].from <= at => \E k \in 1 .. L + 1 : more[k].from <= at /\ at < more[k].to
  <2> SUFFICES ASSUME NEW n \in 1 .. L + 1, NEW at \in Dates, more[n].from <= at
               PROVE  \E k \in 1 .. L + 1 : more[k].from <= at /\ at < more[k].to
    OBVIOUS
  <2>1. L + 1 \in 1 .. L + 1 /\ at < Unending /\ at \in Nat /\ from \in Nat
    BY <1>1
  <2>2. CASE from <= at
    BY <2>1, <2>2, <1>8
  <2>3. CASE ~(from <= at)
    <3>1. n \in 1 .. L
      BY <1>8, <1>9, <2>3
    <3>2. rows[n].from <= at
      BY <3>1, <1>7
    <3>3. PICK k \in 1 .. L : rows[k].from <= at /\ at < rows[k].to
      BY <3>1, <3>2 DEF Chain
    <3>4. k \in 1 .. L + 1 /\ more[k].from <= at
      BY <3>3, <1>1, <1>7
    <3>5. at < more[k].to
      <4>1. CASE k = L
        BY <4>1, <1>7, <2>1, <2>3
      <4>2. CASE k # L
        BY <4>2, <3>3, <1>7
      <4>3. QED
        BY <4>1, <4>2
    <3>6. QED
      BY <3>4, <3>5
  <2>4. QED
    BY <2>2, <2>3
<1>15. Chain(more)
  BY <1>6, <1>12, <1>13, <1>14 DEF Chain
<1>16. QED
  BY <1>5, <1>15

(* What both forms of the tariffs write: one more version, from a moment   *)
(* after the start of the open one.                                        *)
LEMMA ExtendedHolds ==
  ASSUME SetupInv, NEW d \in Directions, NEW kind \in Kinds, NEW from \in Dates,
         NEW guided \in BOOLEAN, StartsAfterOpen(d, from)
  PROVE  /\ Extended(d, kind, from, guided)
              \in [kind : Kinds \cup {"none"}, versions : Seq(TariffVersions)]
         /\ Chain(Extended(d, kind, from, guided).versions)
         /\ Len(Extended(d, kind, from, guided).versions) = Len(tariffs[d].versions) + 1
PROOF
<1>1. PICK rows : rows = tariffs[d].versions
  OBVIOUS
<1>2. Chain(rows)
  BY <1>1 DEF SetupInv
<1>3. /\ Len(rows) \in Nat /\ DOMAIN rows = 1 .. Len(rows)
      /\ Latest(d) = Len(rows)
      /\ OpenVersions(d) = {n \in 1 .. Len(rows) : n = Len(rows)}
  BY <1>1, <1>2, LatestIsLast
<1> DEFINE end(n) == IF n = Len(rows) THEN [rows[n] EXCEPT !.to = from] ELSE rows[n]
<1>4. PICK ended : ended = [n \in 1 .. Len(rows) |-> end(n)]
  OBVIOUS
<1>5. \A n \in 1 .. Len(rows) : end(n) \in TariffVersions
  <2> SUFFICES ASSUME NEW n \in 1 .. Len(rows) PROVE end(n) \in TariffVersions
    OBVIOUS
  <2>1. PICK row : row = rows[n]
    OBVIOUS
  <2>2. row \in TariffVersions
    BY <1>2, <2>1, ElementOfSeq DEF Chain
  <2>3. [row EXCEPT !.to = from] \in TariffVersions
    BY <2>2 DEF TariffVersions
  <2>4. QED
    BY <2>1, <2>2, <2>3
<1> HIDE DEF end
<1>6. ended \in [1 .. Len(rows) -> TariffVersions]
  BY <1>4, <1>5
<1>7. ended \in Seq(TariffVersions) /\ DOMAIN ended = 1 .. Len(rows)
  BY <1>3, <1>6, SeqDef
<1>8. Len(ended) = Len(rows)
  BY <1>3, <1>7, LenProperties
<1>9. \A n \in 1 .. Len(rows) : n = Len(rows) => rows[n].from < from
  BY <1>1, <1>3 DEF StartsAfterOpen
<1>10. \A n \in 1 .. Len(rows) :
         ended[n] = IF n = Len(rows) THEN [rows[n] EXCEPT !.to = from] ELSE rows[n]
  BY <1>4 DEF end
<1>11. PICK last : last = [from |-> from, to |-> Unending, guided |-> guided]
  OBVIOUS
<1>12. last \in TariffVersions
  BY <1>11 DEF TariffVersions
<1>13. Chain(Append(ended, last))
  BY <1>2, <1>7, <1>8, <1>9, <1>10, <1>11, ChainExtends
<1>14. ended = [n \in DOMAIN rows |-> IF n = Latest(d) THEN [rows[n] EXCEPT !.to = from]
                                      ELSE rows[n]]
  BY <1>3, <1>4 DEF end
<1>15. Extended(d, kind, from, guided) = [kind |-> kind, versions |-> Append(ended, last)]
  BY <1>1, <1>11, <1>14 DEF Extended
<1>16. Append(ended, last) \in Seq(TariffVersions) /\ Len(Append(ended, last)) = Len(rows) + 1
  BY <1>7, <1>8, <1>12, AppendProperties
<1>17. QED
  BY <1>1, <1>13, <1>15, <1>16

LEMMA SetupInitInv == SetupInit => SetupInv
PROOF
<1> SUFFICES ASSUME SetupInit PROVE SetupInv
  OBVIOUS
<1>1. Numbered(configs) /\ Numbered(prefs)
  BY EmptySeq DEF SetupInit, Numbered
<1>2. <<>> \in Seq(TariffVersions) /\ Len(<<>>) = 0
  BY EmptySeq
<1>3. Chain(<<>>)
  BY <1>2 DEF Chain
<1>4. tariffs \in [Directions -> [kind : Kinds \cup {"none"}, versions : Seq(TariffVersions)]]
  BY <1>2 DEF SetupInit
<1>5. \A d \in Directions : Chain(tariffs[d].versions)
  BY <1>3 DEF SetupInit
<1>6. date \in Dates
  BY SetupAssumption DEF SetupInit, Dates
<1>7. DOMAIN forms = Editors /\ \A e \in Editors : FormHolds(forms[e])
  BY DEF SetupInit, NoForm, FormHolds
<1>8. QED
  BY <1>1, <1>4, <1>5, <1>6, <1>7 DEF SetupInv

(* A step that leaves the rows alone, or only adds to the configurations,  *)
(* keeps what is known of the forms if it is known of the one it writes.   *)
LEMMA FormWritten ==
  ASSUME SetupInv, NEW e \in Editors, NEW form,
         forms' = [forms EXCEPT ![e] = form],
         Len(configs) <= Len(configs'), Len(configs') \in Nat,
         /\ form.op \in {"config", "preferences", "preset"} => form.seen \in Nat
         /\ form.op = "checked" => form.version \in 1 .. Len(configs') + 1
         /\ form.op = "advanced" => form.from \in Dates
  PROVE  DOMAIN forms' = Editors /\ \A f \in Editors : FormHolds(forms[f])'
PROOF
<1>1. DOMAIN forms = Editors /\ Len(configs) \in Nat
  BY LenProperties DEF SetupInv, Numbered
<1>2. DOMAIN forms' = Editors
  BY <1>1
<1>3. \A f \in Editors : forms'[f] = IF f = e THEN form ELSE forms[f]
  BY <1>1
<1>4. ASSUME NEW f \in Editors PROVE FormHolds(forms[f])'
  <2>1. CASE f = e
    BY <2>1, <1>3 DEF FormHolds
  <2>2. CASE f # e
    <3>1. forms'[f] = forms[f] /\ FormHolds(forms[f])
      BY <2>2, <1>3 DEF SetupInv
    <3>2. 1 .. Len(configs) + 1 \subseteq 1 .. Len(configs') + 1
      BY <1>1
    <3>3. QED
      BY <3>1, <3>2 DEF FormHolds
  <2>3. QED
    BY <2>1, <2>2
<1>5. QED
  BY <1>2, <1>4

(* The form that is opened or left open shows numbers; none shows nothing. *)
LEMMA FormClosed ==
  ASSUME SetupInv, NEW e \in Editors, Closes(e),
         Len(configs) <= Len(configs'), Len(configs') \in Nat
  PROVE  DOMAIN forms' = Editors /\ \A f \in Editors : FormHolds(forms[f])'
PROOF
<1>1. PICK form : form = NoForm
  OBVIOUS
<1>2. form.op = "none" /\ forms' = [forms EXCEPT ![e] = form]
  BY <1>1 DEF NoForm, Closes
<1>3. QED
  BY <1>2, FormWritten

LEMMA StationCreated == SetupInv /\ CreateStation => SetupInv'
PROOF
<1> SUFFICES ASSUME SetupInv, CreateStation PROVE SetupInv'
  OBVIOUS
<1>1. Numbered(<<1>>) /\ Len(<<1>>) = 1
  BY DEF Numbered
<1>2. Len(configs) = 0
  BY EmptySeq DEF CreateStation
<1>3. Numbered(configs)' /\ Numbered(prefs)'
  BY <1>1 DEF CreateStation, Numbered
<1>4. \A f \in Editors : FormHolds(forms[f])'
  <2> SUFFICES ASSUME NEW f \in Editors PROVE FormHolds(forms[f])'
    OBVIOUS
  <2>1. FormHolds(forms[f]) /\ forms' = forms /\ Len(configs') = 1
    BY <1>1 DEF SetupInv, CreateStation
  <2>2. QED
    BY <2>1, <1>2 DEF FormHolds
<1>5. QED
  BY <1>3, <1>4 DEF SetupInv, CreateStation

(* Forms are opened and closed over rows that stay.                        *)
LEMMA FormMoves ==
  ASSUME SetupInv, NEW e \in Editors,
         \/ OpenConfig(e) \/ CheckConfig(e) \/ OpenPreferences(e) \/ RecommendPreset(e)
         \/ OpenPair(e) \/ SubmitTariff(e) \/ LoadSetup(e) \/ ActivateSetup(e) \/ Abandon(e)
  PROVE  SetupInv'
PROOF
<1>1. UNCHANGED <<configs, prefs, tariffs, date>>
  BY DEF OpenConfig, CheckConfig, OpenPreferences, RecommendPreset, OpenPair, SubmitTariff,
         LoadSetup, ActivateSetup, Abandon
<1>2. /\ Current(configs) = Len(configs) /\ Len(configs) \in Nat
      /\ Current(prefs) = Len(prefs) /\ Len(prefs) \in Nat
  BY CurrentIsLength DEF SetupInv
<1>3. Len(configs) <= Len(configs') /\ Len(configs') \in Nat
  BY <1>1, <1>2
<1>4. DOMAIN forms' = Editors /\ \A f \in Editors : FormHolds(forms[f])'
  <2>1. CASE OpenConfig(e)
    <3>1. PICK form : form = [op |-> "config", seen |-> Current(configs)]
      OBVIOUS
    <3>2. forms' = [forms EXCEPT ![e] = form] /\ form.op = "config" /\ form.seen \in Nat
      BY <2>1, <3>1, <1>2 DEF OpenConfig, Opens
    <3>3. QED
      BY <3>2, <1>3, FormWritten
  <2>2. CASE CheckConfig(e)
    <3>1. PICK old : old = forms[e]
      OBVIOUS
    <3>2. old.op = "config" /\ old.seen \in Nat
      BY <2>2, <3>1 DEF CheckConfig, SetupInv, FormHolds
    <3>3. PICK form : form = IF old.seen = Current(configs)
                             THEN [op |-> "checked", version |-> old.seen + 1] ELSE NoForm
      OBVIOUS
    <3>4. forms' = [forms EXCEPT ![e] = form]
      BY <2>2, <3>1, <3>3 DEF CheckConfig
    <3>5. \/ form.op = "checked" /\ form.version = Len(configs) + 1
          \/ form.op = "none"
      BY <3>2, <3>3, <1>2 DEF NoForm
    <3>6. Len(configs) + 1 \in 1 .. Len(configs') + 1
      BY <1>1, <1>2
    <3>7. QED
      BY <3>4, <3>5, <3>6, <1>3, FormWritten
  <2>3. CASE OpenPreferences(e)
    <3>1. PICK form : form = [op |-> "preferences", seen |-> Current(prefs)]
      OBVIOUS
    <3>2. forms' = [forms EXCEPT ![e] = form] /\ form.op = "preferences" /\ form.seen \in Nat
      BY <2>3, <3>1, <1>2 DEF OpenPreferences, Opens
    <3>3. QED
      BY <3>2, <1>3, FormWritten
  <2>4. CASE RecommendPreset(e)
    <3>1. PICK form : form = [op |-> "preset", seen |-> Current(prefs),
                              config |-> Current(configs)]
      OBVIOUS
    <3>2. forms' = [forms EXCEPT ![e] = form] /\ form.op = "preset" /\ form.seen \in Nat
      BY <2>4, <3>1, <1>2 DEF RecommendPreset, Opens
    <3>3. QED
      BY <3>2, <1>3, FormWritten
  <2>5. CASE OpenPair(e)
    <3>1. PICK form : form = [op |-> "pair", revision |-> Revision]
      OBVIOUS
    <3>2. forms' = [forms EXCEPT ![e] = form] /\ form.op = "pair"
      BY <2>5, <3>1 DEF OpenPair, Opens
    <3>3. QED
      BY <3>2, <1>3, FormWritten
  <2>6. CASE SubmitTariff(e)
    <3>1. PICK form : form = [op |-> "advanced", from |-> date]
      OBVIOUS
    <3>2. forms' = [forms EXCEPT ![e] = form] /\ form.op = "advanced" /\ form.from \in Dates
      BY <2>6, <3>1 DEF SubmitTariff, Opens, SetupInv
    <3>3. QED
      BY <3>2, <1>3, FormWritten
  <2>7. CASE LoadSetup(e)
    <3>1. PICK form : form = [op |-> "setup"]
      OBVIOUS
    <3>2. forms' = [forms EXCEPT ![e] = form] /\ form.op = "setup"
      BY <2>7, <3>1 DEF LoadSetup, Opens
    <3>3. QED
      BY <3>2, <1>3, FormWritten
  <2>8. CASE ActivateSetup(e) \/ Abandon(e)
    BY <2>8, <1>3, FormClosed DEF ActivateSetup, Abandon
  <2>9. QED
    BY <2>1, <2>2, <2>3, <2>4, <2>5, <2>6, <2>7, <2>8
<1>5. QED
  BY <1>1, <1>4 DEF SetupInv

LEMMA ConfigInserted == ASSUME SetupInv, NEW e \in Editors, InsertConfig(e) PROVE SetupInv'
PROOF
<1>1. PICK version : version = forms[e].version
  OBVIOUS
<1>2. version \in 1 .. Len(configs) + 1
  BY <1>1 DEF InsertConfig, SetupInv, FormHolds
<1>3. /\ Len(configs) \in Nat /\ Numbered(configs)
      /\ Numbered(Append(configs, Len(configs) + 1))
      /\ Len(Append(configs, Len(configs) + 1)) = Len(configs) + 1
  BY CurrentIsLength DEF SetupInv
<1>4. Numbered(configs') /\ Len(configs) <= Len(configs') /\ Len(configs') \in Nat
  <2>1. CASE Taken(configs, version)
    BY <2>1, <1>1, <1>3 DEF InsertConfig
  <2>2. CASE ~Taken(configs, version)
    <3>1. DOMAIN configs = 1 .. Len(configs) /\ \A n \in 1 .. Len(configs) : configs[n] = n
      BY <1>3, LenProperties DEF Numbered
    <3>2. ~(version \in 1 .. Len(configs))
      BY <2>2, <3>1 DEF Taken
    <3>3. version = Len(configs) + 1
      BY <1>2, <1>3, <3>2
    <3>4. configs' = Append(configs, Len(configs) + 1)
      BY <2>2, <3>3, <1>1 DEF InsertConfig
    <3>5. QED
      BY <3>4, <1>3
  <2>3. QED
    BY <2>1, <2>2
<1>5. DOMAIN forms' = Editors /\ \A f \in Editors : FormHolds(forms[f])'
  BY <1>4, FormClosed DEF InsertConfig
<1>6. Numbered(configs)'
  BY <1>4 DEF Numbered
<1>7. QED
  BY <1>5, <1>6 DEF SetupInv, InsertConfig

LEMMA PreferencesSaved ==
  ASSUME SetupInv, NEW e \in Editors, SavePreferences(e) \/ ApplyPreset(e)
  PROVE  SetupInv'
PROOF
<1>1. UNCHANGED <<configs, tariffs, date>> /\ Closes(e)
  BY DEF SavePreferences, ApplyPreset
<1>2. /\ Len(prefs) \in Nat /\ Numbered(prefs) /\ Current(prefs) = Len(prefs)
      /\ Numbered(Append(prefs, Len(prefs) + 1))
  BY CurrentIsLength DEF SetupInv
<1>3. prefs' = prefs \/ prefs' = Append(prefs, Len(prefs) + 1)
  BY <1>2 DEF SavePreferences, ApplyPreset
<1>4. Numbered(prefs)'
  BY <1>2, <1>3 DEF Numbered
<1>5. Len(configs) <= Len(configs') /\ Len(configs') \in Nat
  BY <1>1, CurrentIsLength DEF SetupInv
<1>6. DOMAIN forms' = Editors /\ \A f \in Editors : FormHolds(forms[f])'
  BY <1>1, <1>5, FormClosed
<1>7. QED
  BY <1>1, <1>4, <1>6 DEF SetupInv

LEMMA TariffsWritten ==
  ASSUME SetupInv, NEW e \in Editors, Closes(e), UNCHANGED <<configs, prefs, date>>,
         NEW changed \in SUBSET Directions, NEW kind \in Kinds, NEW from \in Dates,
         NEW guided \in BOOLEAN, \A d \in changed : StartsAfterOpen(d, from),
         tariffs' = [d \in Directions |-> IF d \in changed THEN Extended(d, kind, from, guided)
                                          ELSE tariffs[d]]
  PROVE  SetupInv'
PROOF
<1> DEFINE Types == [kind : Kinds \cup {"none"}, versions : Seq(TariffVersions)]
<1>1. \A d \in changed : /\ Extended(d, kind, from, guided) \in Types
                         /\ Chain(Extended(d, kind, from, guided).versions)
  BY ExtendedHolds
<1>2. \A d \in Directions : tariffs[d] \in Types /\ Chain(tariffs[d].versions)
  BY DEF SetupInv
<1> HIDE DEF Types
<1>3. \A d \in Directions : tariffs'[d] \in Types /\ Chain(tariffs'[d].versions)
  <2> SUFFICES ASSUME NEW d \in Directions
               PROVE  tariffs'[d] \in Types /\ Chain(tariffs'[d].versions)
    OBVIOUS
  <2>1. CASE d \in changed
    <3>1. tariffs'[d] = Extended(d, kind, from, guided)
      BY <2>1
    <3>2. QED
      BY <3>1, <2>1, <1>1
  <2>2. CASE d \notin changed
    <3>1. tariffs'[d] = tariffs[d]
      BY <2>2
    <3>2. QED
      BY <3>1, <1>2
  <2>3. QED
    BY <2>1, <2>2
<1>4. tariffs' \in [Directions -> Types]
  BY <1>3
<1>5. (\A d \in Directions : Chain(tariffs[d].versions))'
  BY <1>3 DEF Chain, TariffVersions, Dates, Unending
<1>6. Len(configs) <= Len(configs') /\ Len(configs') \in Nat
  BY CurrentIsLength DEF SetupInv
<1>7. DOMAIN forms' = Editors /\ \A f \in Editors : FormHolds(forms[f])'
  BY <1>6, FormClosed
<1>8. QED
  BY <1>4, <1>5, <1>7 DEF SetupInv, Types

LEMMA PairSaved ==
  ASSUME SetupInv, NEW e \in Editors, NEW from \in Dates, SavePair(e, from)
  PROVE  SetupInv'
PROOF
<1>1. Closes(e) /\ UNCHANGED <<configs, prefs, date>>
  BY DEF SavePair
<1>2. "fixed" \in Kinds /\ TRUE \in BOOLEAN
  BY DEF Kinds
<1>3. CASE tariffs' = tariffs
  <2>1. PICK changed \in SUBSET Directions : changed = {}
    OBVIOUS
  <2>2. tariffs' = [d \in Directions |-> IF d \in changed THEN Extended(d, "fixed", from, TRUE)
                                         ELSE tariffs[d]]
    BY <1>3, <2>1 DEF SetupInv
  <2>3. \A d \in changed : StartsAfterOpen(d, from)
    BY <2>1
  <2>4. QED
    BY <1>1, <1>2, <2>2, <2>3, TariffsWritten
<1>4. CASE tariffs' # tariffs
  <2>1. /\ \A d \in Directions : StartsAfterOpen(d, from)
        /\ tariffs' = [d \in Directions |-> Extended(d, "fixed", from, TRUE)]
    BY <1>4 DEF SavePair
  <2>2. tariffs' = [d \in Directions |-> IF d \in Directions
                                         THEN Extended(d, "fixed", from, TRUE)
                                         ELSE tariffs[d]]
    BY <2>1
  <2>3. QED
    BY <1>1, <1>2, <2>1, <2>2, TariffsWritten
<1>5. QED
  BY <1>3, <1>4

LEMMA TariffAdded ==
  ASSUME SetupInv, NEW e \in Editors, NEW d \in Directions, NEW kind \in Kinds,
         AddTariff(e, d, kind)
  PROVE  SetupInv'
PROOF
<1>1. Closes(e) /\ UNCHANGED <<configs, prefs, date>>
  BY DEF AddTariff
<1>2. PICK from : from = forms[e].from
  OBVIOUS
<1>3. from \in Dates
  BY <1>2 DEF AddTariff, SetupInv, FormHolds
<1>4. FALSE \in BOOLEAN
  OBVIOUS
<1>5. CASE tariffs' = tariffs
  <2>1. PICK changed \in SUBSET Directions : changed = {}
    OBVIOUS
  <2>2. tariffs' = [f \in Directions |-> IF f \in changed THEN Extended(f, kind, from, FALSE)
                                         ELSE tariffs[f]]
    BY <1>5, <2>1 DEF SetupInv
  <2>3. \A f \in changed : StartsAfterOpen(f, from)
    BY <2>1
  <2>4. QED
    BY <1>1, <1>3, <1>4, <2>2, <2>3, TariffsWritten
<1>6. CASE tariffs' # tariffs
  <2>1. /\ StartsAfterOpen(d, from)
        /\ tariffs' = [tariffs EXCEPT ![d] = Extended(d, kind, from, FALSE)]
    BY <1>2, <1>6 DEF AddTariff
  <2>2. PICK changed \in SUBSET Directions : changed = {d}
    OBVIOUS
  <2>3. tariffs' = [f \in Directions |-> IF f \in changed THEN Extended(f, kind, from, FALSE)
                                         ELSE tariffs[f]]
    BY <2>1, <2>2 DEF SetupInv
  <2>4. \A f \in changed : StartsAfterOpen(f, from)
    BY <2>1, <2>2
  <2>5. QED
    BY <1>1, <1>3, <1>4, <2>3, <2>4, TariffsWritten
<1>7. QED
  BY <1>5, <1>6

LEMMA SetupStep == SetupInv /\ [SetupNext]_setupVars => SetupInv'
PROOF
<1> SUFFICES ASSUME SetupInv, [SetupNext]_setupVars PROVE SetupInv'
  OBVIOUS
<1>1. CASE CreateStation
  BY <1>1, StationCreated
<1>2. CASE DatePasses \/ UNCHANGED setupVars
  <2>1. UNCHANGED <<configs, prefs, tariffs, forms>> /\ date' \in Dates
    BY <1>2, SetupAssumption DEF DatePasses, setupVars, SetupInv, Dates
  <2>2. QED
    BY <2>1 DEF SetupInv, FormHolds
<1>3. ASSUME NEW e \in Editors,
             \/ OpenConfig(e) \/ CheckConfig(e) \/ OpenPreferences(e) \/ RecommendPreset(e)
             \/ OpenPair(e) \/ SubmitTariff(e) \/ LoadSetup(e) \/ ActivateSetup(e) \/ Abandon(e)
      PROVE  SetupInv'
  BY <1>3, FormMoves
<1>4. ASSUME NEW e \in Editors, InsertConfig(e) PROVE SetupInv'
  BY <1>4, ConfigInserted
<1>5. ASSUME NEW e \in Editors, SavePreferences(e) \/ ApplyPreset(e) PROVE SetupInv'
  BY <1>5, PreferencesSaved
<1>6. ASSUME NEW e \in Editors, NEW from \in Dates, SavePair(e, from) PROVE SetupInv'
  BY <1>6, PairSaved
<1>7. ASSUME NEW e \in Editors, NEW d \in Directions, NEW kind \in Kinds, AddTariff(e, d, kind)
      PROVE  SetupInv'
  BY <1>7, TariffAdded
<1>8. QED
  BY <1>1, <1>2, <1>3, <1>4, <1>5, <1>6, <1>7 DEF SetupNext

(* At a moment that two versions apply to, the earlier of them would have  *)
(* ended before the later one started.                                     *)
LEMMA SetupLinear == SetupInv => HistoryIsLinear
PROOF
<1> SUFFICES ASSUME SetupInv PROVE HistoryIsLinear
  OBVIOUS
<1>1. /\ \A n \in DOMAIN configs : configs[n] = n
      /\ \A n \in DOMAIN prefs : prefs[n] = n
  BY LenProperties DEF SetupInv, Numbered
<1>2. ASSUME NEW d \in Directions, NEW n \in DOMAIN tariffs[d].versions
      PROVE  /\ n \in InForce(d, tariffs[d].versions[n].from)
             /\ \A at \in tariffs[d].versions[n].from .. MaxDate :
                  Cardinality(InForce(d, at)) = 1
  <2>1. PICK rows : rows = tariffs[d].versions
    OBVIOUS
  <2>2. Chain(rows)
    BY <2>1 DEF SetupInv
  <2>3. /\ rows \in Seq(TariffVersions) /\ Len(rows) \in Nat
        /\ DOMAIN rows = 1 .. Len(rows) /\ n \in 1 .. Len(rows)
    BY <2>1, <2>2, LenProperties DEF Chain
  <2>4. ASSUME NEW k \in 1 .. Len(rows)
        PROVE  rows[k].from \in Nat /\ rows[k].to \in Nat
    <3>1. rows[k] \in TariffVersions
      BY <2>3, ElementOfSeq
    <3>2. QED
      BY <3>1, SetupAssumption DEF TariffVersions, Dates, Unending
  <2>5. rows[n].from < rows[n].to /\ rows[n].from <= rows[n].from
    <3>1. rows[n].from < rows[n].to
      BY <2>2, <2>3 DEF Chain
    <3>2. PICK start \in Nat : start = rows[n].from
      BY <2>3, <2>4
    <3>3. start <= start
      OBVIOUS
    <3>4. QED
      BY <3>1, <3>2, <3>3
  <2>6. n \in InForce(d, rows[n].from)
    BY <2>1, <2>3, <2>5 DEF InForce
  <2>7. ASSUME NEW at \in rows[n].from .. MaxDate PROVE Cardinality(InForce(d, at)) = 1
    <3>1. at \in Nat /\ rows[n].from <= at /\ at \in Dates
      BY <2>3, <2>4, SetupAssumption DEF Dates
    <3>2. PICK k \in 1 .. Len(rows) : rows[k].from <= at /\ at < rows[k].to
      BY <2>2, <2>3, <3>1 DEF Chain
    <3>3. \A j, l \in 1 .. Len(rows) : j < l => rows[j].to <= rows[l].from
      BY <2>2 DEF Chain
    <3>4. ASSUME NEW j \in 1 .. Len(rows), rows[j].from <= at, at < rows[j].to, j # k
          PROVE  FALSE
      <4>1. CASE j < k
        <5>1. rows[j].to <= rows[k].from
          BY <4>1, <3>3
        <5>2. QED
          BY <5>1, <3>1, <3>2, <3>4, <2>4
      <4>2. CASE k < j
        <5>1. rows[k].to <= rows[j].from
          BY <4>2, <3>3
        <5>2. QED
          BY <5>1, <3>1, <3>2, <3>4, <2>4
      <4>3. j < k \/ k < j
        BY <2>3, <3>4
      <4>4. QED
        BY <4>1, <4>2, <4>3
    <3>5. InForce(d, at) = {k}
      BY <2>1, <2>3, <3>2, <3>4 DEF InForce
    <3>6. QED
      BY <3>5, FS_Singleton
  <2>8. QED
    BY <2>1, <2>6, <2>7
<1>3. QED
  BY <1>1, <1>2 DEF HistoryIsLinear

(* No edit is made over a version that its editor did not see, and from    *)
(* the first version of a tariff on exactly one applies at any moment, for *)
(* any number of editors, of versions and of dates.                        *)
THEOREM SetupHistoryIsLinear == SetupSpec => []HistoryIsLinear
PROOF
<1>1. SetupSpec => []SetupInv
  BY SetupInitInv, SetupStep, PTL DEF SetupSpec
<1>2. QED
  BY <1>1, SetupLinear, PTL

(***************************************************************************)
(* The sums of the optimizer                                               *)
(***************************************************************************)
LEMMA TotalIsSum == ASSUME NEW f, NEW S PROVE Total(f, S) = SumOver(f, S)
PROOF BY DEF Total, FoldSet, MapThenFoldSet, SumOver, SumsOf, SummedOver, First

LEMMA TotalStep ==
  ASSUME NEW f, NEW S, IsFiniteSet(S)
  PROVE  /\ S = {} => Total(f, S) = 0
         /\ S # {} => Total(f, S) = f[First(S)] + Total(f, S \ {First(S)})
PROOF BY TotalIsSum, SumStep

LEMMA TotalIsNatural ==
  ASSUME NEW f, NEW S, IsFiniteSet(S), \A x \in S : f[x] \in Nat
  PROVE  Total(f, S) \in Nat
PROOF BY TotalIsSum, SumIsNatural

LEMMA TotalCompares ==
  ASSUME NEW f, NEW g, NEW S, IsFiniteSet(S),
         \A x \in S : f[x] \in Nat /\ g[x] \in Nat /\ f[x] <= g[x]
  PROVE  Total(f, S) <= Total(g, S)
PROOF
<1>1. \A x \in S : f[x] \in Int /\ g[x] \in Int /\ f[x] <= g[x]
  OBVIOUS
<1>2. QED
  BY <1>1, TotalIsSum, SumCompares

LEMMA TotalOfUnion ==
  ASSUME NEW f, NEW A, NEW B, IsFiniteSet(A), IsFiniteSet(B), A \cap B = {},
         \A x \in A \cup B : f[x] \in Nat
  PROVE  Total(f, A \cup B) = Total(f, A) + Total(f, B)
PROOF
<1>1. \A x \in A \cup B : f[x] \in Int
  OBVIOUS
<1>2. SumOver(f, A \cup B) = SumOver(f, A) + SumOver(f, B)
  BY <1>1, SumOfUnion
<1>3. QED
  BY <1>2, TotalIsSum

LEMMA TotalGrows ==
  ASSUME NEW f, NEW B, IsFiniteSet(B), NEW A, A \subseteq B, \A x \in B : f[x] \in Nat
  PROVE  Total(f, A) <= Total(f, B)
PROOF BY TotalIsSum, SumGrows

LEMMA TotalIsBounded ==
  ASSUME NEW f, NEW S, IsFiniteSet(S), NEW M \in Nat,
         \A x \in S : f[x] \in Nat /\ f[x] <= M
  PROVE  Total(f, S) <= Cardinality(S) * M
PROOF
<1>1. M \in Int /\ \A x \in S : f[x] \in Int /\ f[x] <= M
  OBVIOUS
<1>2. SumOver(f, S) <= Cardinality(S) * M
  BY <1>1, SumIsBounded
<1>3. QED
  BY <1>2, TotalIsSum

(***************************************************************************)
(* Optimizer                                                               *)
(*                                                                         *)
(* What the battery has discharged and what the newest plan still lets it  *)
(* discharge is kept within the budgets together.  A new plan replaces     *)
(* only what is to come, and sees all that was discharged except in the    *)
(* interval under way and in those the aggregates miss.                    *)
(***************************************************************************)
Span == 0 .. LastInterval + Horizon
Unseen == (MaxLag + 1) * MaxDischarge

Committed ==
  [t \in Span |-> IF t < running THEN discharged[t]
                  ELSE IF t \in DOMAIN target THEN Most(-target[t], 0) ELSE 0]

OfDay(d) == {t \in Span : Day(t) = d}
OfMonth(m) == {t \in Span : Month(t) = m}

Kept(spending) ==
  /\ \A d \in {Day(t) : t \in Span} : Total(spending, OfDay(d)) <= DayBudget + Unseen
  /\ \A m \in {Month(t) : t \in Span} : Total(spending, OfMonth(m)) <= MonthBudget + Unseen

OptimizerShape ==
  /\ running \in 0 .. LastInterval /\ aggregated \in 0 .. running
  /\ running - aggregated <= MaxLag
  /\ battery \in Int
  /\ discharged \in [0 .. (running - 1) -> 0 .. MaxDischarge]
  /\ DOMAIN target \subseteq 0 .. running + Horizon
  /\ \A t \in DOMAIN target : target[t] \in Int /\ -target[t] <= MaxDischarge

OptimizerInv == OptimizerShape /\ Kept(Committed)

LEMMA OptimizerFacts ==
  /\ Horizon \in Nat /\ Horizon >= 1 /\ LastInterval \in Nat /\ MaxLag \in Nat
  /\ MaxDischarge \in Nat /\ DayBudget \in Nat /\ MonthBudget \in Nat /\ DayOffset \in Nat
  /\ DayLength \in Nat /\ DayLength >= 1 /\ MonthLength \in Nat /\ MonthLength >= 1
  /\ DischargeCost \in Nat /\ DischargeCost >= 1 /\ ChargeGain \in Nat /\ Capacity \in Nat
  /\ Unseen \in Nat /\ IsFiniteSet(Span) /\ Span \subseteq Nat
PROOF
<1>1. /\ Horizon \in Nat /\ Horizon >= 1 /\ LastInterval \in Nat /\ MaxLag \in Nat
      /\ MaxDischarge \in Nat /\ DayBudget \in Nat /\ MonthBudget \in Nat /\ DayOffset \in Nat
      /\ DayLength \in Nat /\ DayLength >= 1 /\ MonthLength \in Nat /\ MonthLength >= 1
      /\ DischargeCost \in Nat /\ DischargeCost >= 1 /\ ChargeGain \in Nat /\ Capacity \in Nat
  BY OptimizerAssumption
<1>2. Unseen \in Nat
  BY <1>1, ProductFacts DEF Unseen
<1>3. IsFiniteSet(Span) /\ Span \subseteq Nat
  BY <1>1, FS_Interval DEF Span
<1>4. QED
  BY <1>1, <1>2, <1>3

LEMMA QuotientFacts ==
  ASSUME NEW a \in Nat, NEW b \in Nat, a <= b, NEW n \in Nat, n >= 1
  PROVE  a \div n \in Nat /\ b \div n \in Nat /\ a \div n <= b \div n
PROOF
<1>1. PICK p, q : p = a \div n /\ q = b \div n
  OBVIOUS
<1>2. p \in Int /\ n * p <= a /\ a < n * p + n
  BY <1>1
<1>3. q \in Int /\ n * q <= b /\ b < n * q + n
  BY <1>1
<1>4. p >= 0 /\ q >= 0
  BY <1>2, <1>3
<1>5. p <= q
  <2> SUFFICES ASSUME q + 1 <= p PROVE FALSE
    BY <1>2, <1>3
  <2>1. n * (q + 1) <= n * p
    BY <1>2, <1>3
  <2>2. n * (q + 1) = n * q + n
    BY <1>3
  <2>3. QED
    BY <1>2, <1>3, <2>1, <2>2
<1>6. QED
  BY <1>1, <1>2, <1>3, <1>4, <1>5

LEMMA MonthsFollow ==
  ASSUME NEW s \in Nat, NEW t \in Nat, s <= t
  PROVE  Month(s) \in Nat /\ Month(t) \in Nat /\ Month(s) <= Month(t)
PROOF
<1>1. s + DayOffset \in Nat /\ t + DayOffset \in Nat /\ s + DayOffset <= t + DayOffset
  BY OptimizerFacts
<1>2. Day(s) \in Nat /\ Day(t) \in Nat /\ Day(s) <= Day(t)
  BY <1>1, OptimizerFacts, QuotientFacts DEF Day
<1>3. QED
  BY <1>2, OptimizerFacts, QuotientFacts DEF Month

LEMMA CommittedFacts ==
  ASSUME OptimizerShape
  PROVE  /\ Committed \in [Span -> 0 .. MaxDischarge]
         /\ \A t \in Span : t < running => Committed[t] = discharged[t]
PROOF
<1>1. /\ running \in Nat /\ discharged \in [0 .. (running - 1) -> 0 .. MaxDischarge]
      /\ \A t \in DOMAIN target : target[t] \in Int /\ -target[t] <= MaxDischarge
  BY OptimizerFacts DEF OptimizerShape
<1>2. ASSUME NEW t \in Span
      PROVE  /\ Committed[t] \in 0 .. MaxDischarge
             /\ t < running => Committed[t] = discharged[t]
  <2>1. Committed[t] = IF t < running THEN discharged[t]
                       ELSE IF t \in DOMAIN target THEN Most(-target[t], 0) ELSE 0
    BY DEF Committed
  <2>2. t \in Nat /\ MaxDischarge \in Nat
    BY OptimizerFacts
  <2>3. CASE t < running
    <3>1. t \in 0 .. (running - 1)
      BY <1>1, <2>2, <2>3
    <3>2. QED
      BY <2>1, <2>3, <3>1, <1>1
  <2>4. CASE ~(t < running) /\ t \in DOMAIN target
    BY <2>1, <2>2, <2>4, <1>1 DEF Most
  <2>5. CASE ~(t < running) /\ t \notin DOMAIN target
    BY <2>1, <2>2, <2>5
  <2>6. QED
    BY <2>3, <2>4, <2>5
<1>3. DOMAIN Committed = Span /\ Committed = [t \in Span |-> Committed[t]]
  BY DEF Committed
<1>4. Committed \in [Span -> 0 .. MaxDischarge]
  BY <1>2, <1>3
<1>5. QED
  BY <1>2, <1>4

(* Spending less keeps the budgets.                                        *)
LEMMA LessIsKept ==
  ASSUME NEW f, NEW g, Kept(f),
         \A t \in Span : f[t] \in Nat /\ g[t] \in Nat /\ g[t] <= f[t]
  PROVE  Kept(g)
PROOF
<1>1. ASSUME NEW S, S \subseteq Span
      PROVE  Total(f, S) \in Nat /\ Total(g, S) \in Nat /\ Total(g, S) <= Total(f, S)
  <2>1. IsFiniteSet(S)
    BY <1>1, OptimizerFacts, FS_Subset
  <2>2. \A t \in S : f[t] \in Nat /\ g[t] \in Nat /\ g[t] <= f[t]
    BY <1>1
  <2>3. Total(f, S) \in Nat /\ Total(g, S) \in Nat
    BY <2>1, <2>2, TotalIsNatural
  <2>4. Total(g, S) <= Total(f, S)
    BY <2>1, <2>2, TotalCompares
  <2>5. QED
    BY <2>3, <2>4
<1>2. DayBudget + Unseen \in Nat /\ MonthBudget + Unseen \in Nat
  BY OptimizerFacts
<1>3. ASSUME NEW d \in {Day(t) : t \in Span} PROVE Total(g, OfDay(d)) <= DayBudget + Unseen
  <2>1. OfDay(d) \subseteq Span /\ Total(f, OfDay(d)) <= DayBudget + Unseen
    BY DEF Kept, OfDay
  <2>2. QED
    BY <1>1, <1>2, <2>1
<1>4. ASSUME NEW m \in {Month(t) : t \in Span} PROVE Total(g, OfMonth(m)) <= MonthBudget + Unseen
  <2>1. OfMonth(m) \subseteq Span /\ Total(f, OfMonth(m)) <= MonthBudget + Unseen
    BY DEF Kept, OfMonth
  <2>2. QED
    BY <1>1, <1>2, <2>1
<1>5. QED
  BY <1>3, <1>4 DEF Kept

(* What was spent up to now is what the aggregates tell, and no more than  *)
(* the rate of the battery in each of the intervals they miss.             *)
LEMMA MostIsSeen ==
  ASSUME OptimizerShape, NEW S, S \subseteq Span
  PROVE  LET past == Total(Committed, {t \in S : t <= running})
             seen == Total(discharged, {t \in S : t < aggregated})
         IN past \in Nat /\ seen \in Nat /\ past <= seen + Unseen
PROOF
<1>1. PICK old, missed : /\ old = {t \in S : t < aggregated}
                         /\ missed = {t \in S : aggregated <= t /\ t <= running}
  OBVIOUS
<1>2. PICK spent : spent = Committed
  OBVIOUS
<1>3. /\ \A t \in Span : spent[t] \in Nat /\ spent[t] <= MaxDischarge
      /\ \A t \in Span : t < running => spent[t] = discharged[t]
  BY <1>2, CommittedFacts, OptimizerFacts
<1>4. /\ running \in Nat /\ aggregated \in Nat /\ aggregated <= running
      /\ running - aggregated <= MaxLag /\ MaxLag \in Nat /\ MaxDischarge \in Nat
  BY OptimizerFacts DEF OptimizerShape
<1>5. S \subseteq Nat
  BY OptimizerFacts
<1>6. /\ {t \in S : t <= running} = old \cup missed /\ old \cap missed = {}
      /\ old \subseteq Span /\ missed \subseteq Span
  <2>1. \A t \in S : t \in Nat /\ (t < aggregated \/ aggregated <= t)
                      /\ ~(t < aggregated /\ aggregated <= t) /\ (t < aggregated => t <= running)
    BY <1>4, <1>5
  <2>2. QED
    BY <1>1, <2>1
<1>7. IsFiniteSet(old) /\ IsFiniteSet(missed)
  BY <1>6, OptimizerFacts, FS_Subset
<1>8. (\A t \in old \cup missed : spent[t] \in Nat) /\ (\A t \in old : spent[t] \in Nat)
      /\ (\A t \in missed : spent[t] \in Nat /\ spent[t] <= MaxDischarge)
  BY <1>3, <1>6
<1>9. Total(spent, old \cup missed) = Total(spent, old) + Total(spent, missed)
  BY <1>6, <1>7, <1>8, TotalOfUnion
<1>10. Total(spent, old) \in Nat /\ Total(spent, missed) \in Nat
  BY <1>7, <1>8, TotalIsNatural
<1>11. Total(spent, missed) <= Cardinality(missed) * MaxDischarge
  BY <1>4, <1>7, <1>8, TotalIsBounded
<1>12. Cardinality(missed) \in Nat /\ Cardinality(missed) <= MaxLag + 1
  <2>1. missed \in SUBSET (aggregated .. running)
    <3>1. \A t \in missed : t \in Nat /\ aggregated <= t /\ t <= running
      BY <1>1, <1>5
    <3>2. \A t \in missed : t \in aggregated .. running
      BY <3>1, <1>4
    <3>3. QED
      BY <3>2
  <2>2. /\ IsFiniteSet(aggregated .. running)
        /\ Cardinality(aggregated .. running) = running - aggregated + 1
    BY <1>4, FS_Interval
  <2>3. Cardinality(missed) <= running - aggregated + 1
    BY <2>1, <2>2, FS_Subset
  <2>4. Cardinality(missed) \in Nat
    BY <1>7, FS_CardinalityType
  <2>5. QED
    BY <2>3, <2>4, <1>4
<1>13. Cardinality(missed) * MaxDischarge <= Unseen
  <2>1. MaxLag + 1 \in Nat
    BY <1>4
  <2>2. QED
    BY <2>1, <1>4, <1>12, ProductFacts DEF Unseen
<1>14. Cardinality(missed) * MaxDischarge \in Nat /\ Unseen \in Nat
  BY <1>4, <1>12, ProductFacts, OptimizerFacts
<1>15. \A t \in old : /\ spent[t] \in Nat /\ discharged[t] \in Nat
                      /\ spent[t] <= discharged[t]
  <2> SUFFICES ASSUME NEW t \in old
               PROVE  spent[t] \in Nat /\ discharged[t] \in Nat /\ spent[t] <= discharged[t]
    OBVIOUS
  <2>1. t \in Span /\ t < running
    BY <1>1, <1>4, <1>5, <1>6
  <2>2. spent[t] = discharged[t] /\ spent[t] \in Nat
    BY <1>3, <2>1
  <2>3. spent[t] <= spent[t]
    BY <2>2
  <2>4. QED
    BY <2>2, <2>3
<1>16. Total(spent, old) <= Total(discharged, old)
  BY <1>7, <1>15, TotalCompares
<1>17. Total(discharged, old) \in Nat
  BY <1>7, <1>15, TotalIsNatural
<1>18. Total(spent, old) + Total(spent, missed) <= Total(discharged, old) + Unseen
  BY <1>10, <1>11, <1>13, <1>14, <1>16, <1>17
<1>19. Total(spent, old) + Total(spent, missed) \in Nat
  BY <1>10
<1>20. QED
  BY <1>1, <1>2, <1>6, <1>9, <1>17, <1>18, <1>19

(* A plan leaves what is over, and the interval under way, as they are,    *)
(* and replaces everything after them.                                     *)
LEMMA ReplanFacts ==
  ASSUME OptimizerShape, NEW power, \A t \in Planned : power[t] \in Int /\ -power[t] <= MaxDischarge,
         Replan(power)
  PROVE  /\ OptimizerShape'
         /\ Committed' \in [Span -> 0 .. MaxDischarge]
         /\ \A t \in Span :
              /\ t <= running => Committed'[t] = Committed[t]
              /\ t \in Planned => Committed'[t] = Most(-power[t], 0)
              /\ t > running /\ t \notin Planned => Committed'[t] = 0
PROOF
<1>1. /\ running' = running /\ aggregated' = aggregated /\ battery' = battery
      /\ discharged' = discharged
      /\ target' = [t \in Planned \cup (DOMAIN target \cap {running}) |->
                      IF t = running THEN target[t] ELSE power[t]]
  BY DEF Replan
<1>2. /\ running \in Nat /\ Horizon \in Nat /\ MaxDischarge \in Nat
      /\ running \in 0 .. LastInterval
      /\ DOMAIN target \subseteq 0 .. running + Horizon
      /\ \A t \in DOMAIN target : target[t] \in Int /\ -target[t] <= MaxDischarge
  BY OptimizerFacts DEF OptimizerShape
<1>3. Planned \subseteq Nat /\ \A t \in Planned : t > running /\ t <= running + Horizon
  BY <1>2 DEF Planned
<1>4. \A t \in DOMAIN target' : target'[t] \in Int /\ -target'[t] <= MaxDischarge
  BY <1>1, <1>2, <1>3
<1>5. DOMAIN target' \subseteq 0 .. running' + Horizon
  <2>1. \A t \in Planned : t \in 0 .. running + Horizon
    BY <1>2, <1>3
  <2>2. DOMAIN target' = Planned \cup (DOMAIN target \cap {running})
    BY <1>1
  <2>3. QED
    BY <2>1, <2>2, <1>1, <1>2
<1>6. OptimizerShape'
  BY <1>1, <1>4, <1>5 DEF OptimizerShape
<1>7. Committed' \in [Span -> 0 .. MaxDischarge]
  <2>1. Committed' = [t \in Span |-> IF t < running' THEN discharged'[t]
                        ELSE IF t \in DOMAIN target' THEN Most(-target'[t], 0) ELSE 0]
    BY DEF Committed, Span, Most
  <2>2. ASSUME NEW t \in Span PROVE Committed'[t] \in 0 .. MaxDischarge
    <3>1. t \in Nat
      BY OptimizerFacts
    <3>2. CASE t < running
      <4>1. Committed[t] \in 0 .. MaxDischarge /\ Committed[t] = discharged[t]
        BY <3>2, CommittedFacts
      <4>2. QED
        BY <2>1, <3>2, <4>1, <1>1
    <3>3. CASE ~(t < running) /\ t \in DOMAIN target'
      <4>1. PICK m : m = -target'[t]
        OBVIOUS
      <4>2. m \in Int /\ m <= MaxDischarge
        BY <3>3, <4>1, <1>4
      <4>3. Most(m, 0) \in 0 .. MaxDischarge
        BY <4>2, <1>2 DEF Most
      <4>4. Committed'[t] = Most(m, 0)
        BY <2>1, <3>3, <4>1, <1>1
      <4>5. QED
        BY <4>3, <4>4
    <3>4. CASE ~(t < running) /\ t \notin DOMAIN target'
      BY <2>1, <3>4, <1>1, <1>2
    <3>5. QED
      BY <3>2, <3>3, <3>4
  <2>3. QED
    BY <2>1, <2>2
<1>8. ASSUME NEW t \in Span
      PROVE  /\ t <= running => Committed'[t] = Committed[t]
             /\ t \in Planned => Committed'[t] = Most(-power[t], 0)
             /\ t > running /\ t \notin Planned => Committed'[t] = 0
  <2>1. t \in Nat
    BY OptimizerFacts
  <2>2. Committed'[t] = IF t < running THEN discharged[t]
                        ELSE IF t \in DOMAIN target' THEN Most(-target'[t], 0) ELSE 0
    BY <1>1 DEF Committed, Span, Most
  <2>3. Committed[t] = IF t < running THEN discharged[t]
                       ELSE IF t \in DOMAIN target THEN Most(-target[t], 0) ELSE 0
    BY DEF Committed
  <2>4. CASE t < running
    BY <2>1, <2>2, <2>3, <2>4, <1>2, <1>3
  <2>5. CASE t = running
    <3>1. t \notin Planned /\ ~(t < running) /\ ~(t > running)
      BY <2>5, <1>2, <1>3
    <3>2. t \in DOMAIN target' <=> t \in DOMAIN target
      BY <2>5, <3>1, <1>1
    <3>3. t \in DOMAIN target' => target'[t] = target[t]
      BY <2>5, <1>1
    <3>4. QED
      BY <2>2, <2>3, <3>1, <3>2, <3>3
  <2>6. CASE t > running
    <3>1. ~(t <= running) /\ ~(t < running) /\ t # running
      BY <2>1, <2>6, <1>2
    <3>2. t \in DOMAIN target' <=> t \in Planned
      BY <3>1, <1>1
    <3>3. t \in Planned => target'[t] = power[t]
      BY <3>1, <1>1
    <3>4. QED
      BY <2>2, <3>1, <3>2, <3>3
  <2>7. QED
    BY <2>1, <2>4, <2>5, <2>6, <1>2
<1>9. QED
  BY <1>6, <1>7, <1>8

LEMMA PlanFits ==
  ASSUME OptimizerShape, NEW new, NEW plan, NEW G, G \subseteq Span, NEW budget \in Nat,
         \A t \in Span : new[t] \in Nat,
         \A t \in Span : t <= running => new[t] = Committed[t],
         \A t \in Span : t \in Planned => new[t] = plan[t],
         \A t \in Span : t > running /\ t \notin Planned => new[t] = 0,
         Total(Committed, G) <= budget + Unseen,
         \/ {t \in G : t \in Planned} = {}
         \/ Total(plan, {t \in G : t \in Planned})
              <= Most(budget - Total(discharged, {t \in G : t < aggregated}), 0)
  PROVE  Total(new, G) <= budget + Unseen
PROOF
<1>1. PICK past, later, beyond : /\ past = {t \in G : t <= running}
                                 /\ later = {t \in G : t \in Planned}
                                 /\ beyond = {t \in G : t > running /\ t \notin Planned}
  OBVIOUS
<1>2. PICK spent, b, seen : /\ spent = Committed /\ b = Total(plan, later)
                            /\ seen = Total(discharged, {t \in G : t < aggregated})
  OBVIOUS
<1>3. running \in Nat /\ Span \subseteq Nat /\ Horizon \in Nat /\ Unseen \in Nat
  BY OptimizerFacts DEF OptimizerShape
<1>4. \A t \in Planned : t \in Nat /\ t > running
  BY <1>3 DEF Planned
<1>5. /\ G = past \cup (later \cup beyond) /\ past \cap (later \cup beyond) = {}
      /\ later \cap beyond = {}
      /\ past \subseteq Span /\ later \subseteq Span /\ beyond \subseteq Span
  <2>1. \A t \in G : /\ t \in Span /\ t \in Nat
                     /\ t <= running \/ t > running
                     /\ ~(t <= running /\ t > running)
                     /\ t \in Planned => t > running
    BY <1>3, <1>4
  <2>2. QED
    BY <1>1, <2>1
<1>6. IsFiniteSet(past) /\ IsFiniteSet(later) /\ IsFiniteSet(beyond)
      /\ IsFiniteSet(later \cup beyond) /\ IsFiniteSet(G)
  BY <1>5, OptimizerFacts, FS_Subset
<1>7. /\ \A t \in past \cup (later \cup beyond) : new[t] \in Nat
      /\ \A t \in later \cup beyond : new[t] \in Nat
      /\ \A t \in past : new[t] \in Nat
      /\ \A t \in later : new[t] \in Nat
      /\ \A t \in beyond : new[t] \in Nat
  BY <1>5
<1>8. Total(new, past \cup (later \cup beyond)) = Total(new, past) + Total(new, later \cup beyond)
  BY <1>5, <1>6, <1>7, TotalOfUnion
<1>9. Total(new, later \cup beyond) = Total(new, later) + Total(new, beyond)
  BY <1>5, <1>6, <1>7, TotalOfUnion
<1>10. Total(new, past) \in Nat /\ Total(new, later) \in Nat /\ Total(new, beyond) \in Nat
  BY <1>6, <1>7, TotalIsNatural
<1>11. Total(new, beyond) = 0
  <2>1. \A t \in beyond : new[t] \in Nat /\ new[t] <= 0
    BY <1>1, <1>5, <1>7
  <2>2. Total(new, beyond) <= Cardinality(beyond) * 0
    BY <2>1, <1>6, TotalIsBounded
  <2>3. Cardinality(beyond) \in Nat
    BY <1>6, FS_CardinalityType
  <2>4. QED
    BY <2>2, <2>3, <1>10
<1>12. \A t \in Span : spent[t] \in Nat
  BY <1>2, CommittedFacts, OptimizerFacts
<1>13. Total(new, past) <= Total(spent, past)
  <2>1. \A t \in past : new[t] \in Nat /\ spent[t] \in Nat /\ new[t] <= spent[t]
    <3> SUFFICES ASSUME NEW t \in past
                 PROVE  new[t] \in Nat /\ spent[t] \in Nat /\ new[t] <= spent[t]
      OBVIOUS
    <3>1. t \in Span /\ t <= running
      BY <1>1, <1>5
    <3>2. new[t] = spent[t] /\ spent[t] \in Nat
      BY <3>1, <1>2, <1>12
    <3>3. spent[t] <= spent[t]
      BY <3>2
    <3>4. QED
      BY <3>2, <3>3
  <2>2. QED
    BY <2>1, <1>6, TotalCompares
<1>14. Total(spent, past) <= Total(spent, G) /\ Total(spent, G) <= budget + Unseen
  <2>1. (\A t \in G : spent[t] \in Nat) /\ past \subseteq G
    BY <1>5, <1>12
  <2>2. Total(spent, past) <= Total(spent, G)
    BY <2>1, <1>6, TotalGrows
  <2>3. QED
    BY <2>2, <1>2
<1>15. Total(spent, past) \in Nat /\ Total(spent, G) \in Nat
  BY <1>5, <1>6, <1>12, TotalIsNatural
<1>16. seen \in Nat /\ Total(spent, past) <= seen + Unseen
  BY <1>1, <1>2, MostIsSeen
<1>17. Total(new, later) <= b
  <2>1. \A t \in later : new[t] \in Nat /\ plan[t] \in Nat /\ new[t] <= plan[t]
    <3> SUFFICES ASSUME NEW t \in later
                 PROVE  new[t] \in Nat /\ plan[t] \in Nat /\ new[t] <= plan[t]
      OBVIOUS
    <3>1. new[t] = plan[t] /\ new[t] \in Nat
      BY <1>1, <1>5, <1>7
    <3>2. new[t] <= new[t]
      BY <3>1
    <3>3. QED
      BY <3>1, <3>2
  <2>2. QED
    BY <2>1, <1>2, <1>6, TotalCompares
<1>18. CASE later = {}
  <2>1. Total(new, later) = 0
    BY <1>18, <1>6, TotalStep
  <2>2. QED
    BY <2>1, <1>3, <1>5, <1>8, <1>9, <1>10, <1>11, <1>13, <1>14, <1>15
<1>19. CASE b <= Most(budget - seen, 0)
  <2>1. b \in Nat
    <3>1. \A t \in later : plan[t] \in Nat
      BY <1>1, <1>5
    <3>2. QED
      BY <3>1, <1>2, <1>6, TotalIsNatural
  <2>2. PICK a, n, c : a = Total(new, past) /\ n = Total(new, later) /\ c = Total(spent, past)
    OBVIOUS
  <2>3. /\ a \in Nat /\ n \in Nat /\ c \in Nat /\ a <= c /\ c <= budget + Unseen
        /\ c <= seen + Unseen /\ n <= b
    BY <2>2, <1>3, <1>10, <1>13, <1>14, <1>15, <1>16, <1>17
  <2>4. a + n <= budget + Unseen
    <3>1. CASE budget > seen
      BY <2>1, <2>3, <3>1, <1>3, <1>16, <1>19 DEF Most
    <3>2. CASE ~(budget > seen)
      BY <2>1, <2>3, <3>2, <1>3, <1>16, <1>19 DEF Most
    <3>3. QED
      BY <3>1, <3>2
  <2>5. Total(new, G) = a + n
    BY <2>2, <1>5, <1>8, <1>9, <1>10, <1>11
  <2>6. QED
    BY <2>4, <2>5
<1>20. QED
  BY <1>1, <1>2, <1>18, <1>19

(* What the aggregates tell of a day or month.                             *)
LEMMA UsedIsSeen ==
  ASSUME OptimizerShape, NEW t
  PROVE  /\ Used("day", t) = Total(discharged, {s \in OfDay(Day(t)) : s < aggregated})
         /\ Used("month", t) = Total(discharged, {s \in OfMonth(Month(t)) : s < aggregated})
         /\ Used("month", t) \in Nat
PROOF
<1>1. /\ running \in Nat /\ aggregated \in Nat /\ aggregated <= running
      /\ running <= LastInterval /\ LastInterval \in Nat /\ Horizon \in Nat /\ MaxDischarge \in Nat
      /\ discharged \in [0 .. (running - 1) -> 0 .. MaxDischarge]
  BY OptimizerFacts DEF OptimizerShape
<1>2. ASSUME NEW s PROVE s \in DOMAIN discharged /\ s < aggregated <=> s \in Span /\ s < aggregated
  BY <1>1 DEF Span
<1>3. {s \in DOMAIN discharged : s < aggregated /\ Day(s) = Day(t)}
        = {s \in OfDay(Day(t)) : s < aggregated}
  BY <1>2 DEF OfDay
<1>4. {s \in DOMAIN discharged : s < aggregated /\ Month(s) = Month(t)}
        = {s \in OfMonth(Month(t)) : s < aggregated}
  BY <1>2 DEF OfMonth
<1>5. Used("day", t) = Total(discharged, {s \in DOMAIN discharged : s < aggregated /\ Day(s) = Day(t)})
  BY DEF Used
<1>6. Used("month", t) = Total(discharged, {s \in DOMAIN discharged : s < aggregated /\ Month(s) = Month(t)})
  BY DEF Used
<1>7. Used("month", t) \in Nat
  <2>1. PICK S : S = {s \in OfMonth(Month(t)) : s < aggregated}
    OBVIOUS
  <2>2. S \subseteq Span /\ S \subseteq DOMAIN discharged
    BY <2>1, <1>2 DEF OfMonth
  <2>3. IsFiniteSet(S)
    BY <2>2, OptimizerFacts, FS_Subset
  <2>4. \A s \in S : discharged[s] \in Nat
    BY <2>2, <1>1
  <2>5. Total(discharged, S) \in Nat
    BY <2>3, <2>4, TotalIsNatural
  <2>6. QED
    BY <2>1, <2>5, <1>4, <1>6
<1>8. QED
  BY <1>3, <1>4, <1>5, <1>6, <1>7

LEMMA PlannedFacts ==
  ASSUME OptimizerShape
  PROVE  /\ Planned \subseteq Span /\ IsFiniteSet(Planned)
         /\ \A t \in Planned : t > running /\ t >= running + 1
         /\ running + 1 \in Nat
PROOF
<1>1. running \in Nat /\ Horizon \in Nat /\ LastInterval \in Nat /\ running <= LastInterval
  BY OptimizerFacts DEF OptimizerShape
<1>2. Planned \subseteq Span /\ \A t \in Planned : t > running /\ t >= running + 1
  BY <1>1 DEF Planned, Span
<1>3. IsFiniteSet(Planned)
  BY <1>2, OptimizerFacts, FS_Subset
<1>4. running + 1 \in Nat
  BY <1>1
<1>5. QED
  BY <1>2, <1>3, <1>4

LEMMA OptimizeKeeps ==
  ASSUME OptimizerInv, Optimize
  PROVE  OptimizerInv'
PROOF
<1> USE DEF OptimizerInv
<1>1. PICK power \in Solutions : Replan(power)
  BY DEF Optimize
<1>2. /\ power \in [Planned -> Powers] /\ WithinBudgets(power)
      /\ MaxCharge \in Nat /\ MaxDischarge \in Nat /\ MonthBudget \in Nat /\ DayBudget \in Nat
  BY OptimizerAssumption DEF Solutions
<1>3. \A t \in Planned : power[t] \in Int /\ -power[t] <= MaxDischarge
  <2>1. \A p \in Powers : p \in Int /\ -p <= MaxDischarge
    BY <1>2 DEF Powers
  <2>2. QED
    BY <2>1, <1>2
<1>4. PICK new : new = Committed'
  OBVIOUS
<1>5. /\ OptimizerShape'
      /\ new \in [Span -> 0 .. MaxDischarge]
      /\ \A t \in Span :
           /\ t <= running => new[t] = Committed[t]
           /\ t \in Planned => new[t] = Most(-power[t], 0)
           /\ t > running /\ t \notin Planned => new[t] = 0
  BY <1>1, <1>3, <1>4, ReplanFacts
<1>6. PICK plan : plan = [t \in Planned |-> Most(-power[t], 0)]
  OBVIOUS
<1>7. /\ \A d \in {Day(t) : t \in Planned} :
           Total(plan, {t \in Planned : Day(t) = d})
             <= Most(DayBudget - Used("day", Min({t \in Planned : Day(t) = d})), 0)
      /\ Total(plan, Planned) <= Most(MonthBudget - Used("month", running + 1), 0)
  BY <1>2, <1>6 DEF WithinBudgets
<1>8. /\ \A t \in Span : new[t] \in Nat
      /\ \A t \in Span : t \in Planned => new[t] = plan[t]
      /\ \A t \in Planned : plan[t] \in Nat
  BY <1>2, <1>3, <1>5, <1>6, PlannedFacts
<1>9. Planned \subseteq Span /\ IsFiniteSet(Planned) /\ Span \subseteq Nat
  BY PlannedFacts, OptimizerFacts
<1>10. ASSUME NEW d \in {Day(t) : t \in Span}
       PROVE  Total(new, OfDay(d)) <= DayBudget + Unseen
  <2>1. PICK G : G = OfDay(d)
    OBVIOUS
  <2>2. PICK group : group = {t \in Planned : Day(t) = d}
    OBVIOUS
  <2>3. G \subseteq Span /\ Total(Committed, G) <= DayBudget + Unseen
    BY <2>1 DEF OfDay, Kept
  <2>4. {t \in G : t \in Planned} = group
    BY <2>1, <2>2, <1>9 DEF OfDay
  <2>5. CASE group = {}
    <3>1. {t \in G : t \in Planned} = {}
      BY <2>4, <2>5
    <3>2. Total(new, G) <= DayBudget + Unseen
      BY <3>1, <2>3, <1>2, <1>5, <1>8, PlanFits
    <3>3. QED
      BY <3>2, <2>1
  <2>6. CASE group # {}
    <3>1. PICK first : first = Min(group)
      OBVIOUS
    <3>2. first \in group
      <4>1. group \subseteq Nat
        BY <2>2, <1>9
      <4>2. \E x \in group : \A y \in group : x <= y
        BY <4>1, <2>6, FirstExists
      <4>3. QED
        BY <3>1, <4>2 DEF Min
    <3>3. Day(first) = d /\ d \in {Day(t) : t \in Planned}
      BY <3>2, <2>2
    <3>4. Total(plan, group) <= Most(DayBudget - Used("day", first), 0)
      BY <1>7, <2>2, <3>1, <3>3
    <3>5. Used("day", first) = Total(discharged, {s \in G : s < aggregated})
      BY <2>1, <3>3, UsedIsSeen
    <3>6. Total(plan, {t \in G : t \in Planned})
            <= Most(DayBudget - Total(discharged, {t \in G : t < aggregated}), 0)
      BY <2>4, <3>4, <3>5
    <3>7. Total(new, G) <= DayBudget + Unseen
      BY <3>6, <2>3, <1>2, <1>5, <1>8, PlanFits
    <3>8. QED
      BY <3>7, <2>1
  <2>7. QED
    BY <2>5, <2>6
<1>11. ASSUME NEW m \in {Month(t) : t \in Span}
       PROVE  Total(new, OfMonth(m)) <= MonthBudget + Unseen
  <2>1. PICK G, later : G = OfMonth(m) /\ later = {t \in G : t \in Planned}
    OBVIOUS
  <2>2. G \subseteq Span /\ Total(Committed, G) <= MonthBudget + Unseen /\ later \subseteq Planned
    BY <2>1 DEF OfMonth, Kept
  <2>3. PICK b, all, used : /\ b = Total(plan, later) /\ all = Total(plan, Planned)
                            /\ used = Used("month", running + 1)
    OBVIOUS
  <2>4. b <= all /\ all <= Most(MonthBudget - used, 0)
    BY <1>7, <1>8, <1>9, <2>2, <2>3, TotalGrows
  <2>5. b \in Nat /\ all \in Nat /\ used \in Nat
    <3>1. IsFiniteSet(later) /\ \A t \in later : plan[t] \in Nat
      BY <2>2, <1>8, <1>9, FS_Subset
    <3>2. b \in Nat
      BY <3>1, <2>3, TotalIsNatural
    <3>3. all \in Nat
      BY <2>3, <1>8, <1>9, TotalIsNatural
    <3>4. QED
      BY <3>2, <3>3, <2>3, UsedIsSeen
  <2>6. later = {} \/ b <= Most(MonthBudget - Total(discharged, {t \in G : t < aggregated}), 0)
    <3>1. CASE m = Month(running + 1)
      <4>1. used = Total(discharged, {t \in G : t < aggregated})
        BY <3>1, <2>1, <2>3, UsedIsSeen
      <4>2. b <= Most(MonthBudget - used, 0)
        BY <2>4, <2>5, <1>2 DEF Most
      <4>3. QED
        BY <4>1, <4>2
    <3>2. CASE m # Month(running + 1) /\ later # {}
      <4>1. PICK n \in later : TRUE
        BY <3>2
      <4>2. n \in Nat /\ n >= running + 1 /\ running + 1 \in Nat /\ Month(n) = m
        BY <4>1, <2>1, <2>2, <1>9, PlannedFacts DEF OfMonth
      <4>3. Month(running + 1) \in Nat /\ m \in Nat /\ Month(running + 1) < m
        BY <4>2, <3>2, MonthsFollow
      <4>4. ASSUME NEW t \in G, t < aggregated PROVE FALSE
        <5>1. t \in Nat /\ Month(t) = m
          BY <2>1, <2>2, <1>9 DEF OfMonth
        <5>2. t <= running + 1
          <6>1. running \in Nat /\ aggregated \in Nat /\ aggregated <= running
            BY OptimizerFacts DEF OptimizerShape
          <6>2. QED
            BY <4>4, <5>1, <6>1
        <5>3. Month(t) <= Month(running + 1)
          BY <4>2, <5>1, <5>2, MonthsFollow
        <5>4. QED
          BY <4>3, <5>1, <5>3
      <4>5. {t \in G : t < aggregated} = {}
        BY <4>4
      <4>6. Total(discharged, {}) = 0
        BY FS_EmptySet, TotalStep
      <4>7. b <= Most(MonthBudget - 0, 0)
        BY <2>4, <2>5, <1>2 DEF Most
      <4>8. QED
        BY <4>5, <4>6, <4>7
    <3>3. QED
      BY <3>1, <3>2
  <2>7. Total(new, G) <= MonthBudget + Unseen
    BY <2>1, <2>2, <2>3, <2>6, <1>2, <1>5, <1>8, PlanFits
  <2>8. QED
    BY <2>7, <2>1
<1>12. Kept(new)
  BY <1>10, <1>11 DEF Kept
<1>13. QED
  BY <1>4, <1>5, <1>12 DEF Kept, OfDay, OfMonth, Day, Month, Span, Unseen

LEMMA FallBackKeeps ==
  ASSUME OptimizerInv, FallBack
  PROVE  OptimizerInv'
PROOF
<1>1. PICK rest : rest = [t \in Planned |-> 0]
  OBVIOUS
<1>2. OptimizerShape /\ Kept(Committed) /\ Replan(rest)
  BY <1>1 DEF OptimizerInv, FallBack
<1>3. \A t \in Planned : rest[t] \in Int /\ -rest[t] <= MaxDischarge /\ Most(-rest[t], 0) = 0
  BY <1>1, OptimizerFacts DEF Most
<1>4. PICK old, new : old = Committed /\ new = Committed'
  OBVIOUS
<1>5. /\ OptimizerShape'
      /\ new \in [Span -> 0 .. MaxDischarge]
      /\ \A t \in Span :
           /\ t <= running => new[t] = old[t]
           /\ t \in Planned => new[t] = Most(-rest[t], 0)
           /\ t > running /\ t \notin Planned => new[t] = 0
  BY <1>2, <1>3, <1>4, ReplanFacts
<1>6. old \in [Span -> 0 .. MaxDischarge] /\ Kept(old)
  BY <1>2, <1>4, CommittedFacts
<1>7. running \in Nat /\ Span \subseteq Nat /\ MaxDischarge \in Nat
  BY <1>2, OptimizerFacts DEF OptimizerShape
<1>8. ASSUME NEW t \in Span PROVE old[t] \in Nat /\ new[t] \in Nat /\ new[t] <= old[t]
  <2>1. old[t] \in Nat /\ new[t] \in Nat
    BY <1>5, <1>6, <1>7
  <2>2. t <= running \/ t > running
    BY <1>7
  <2>3. new[t] = old[t] \/ new[t] = 0
    BY <1>3, <1>5, <2>2
  <2>4. QED
    BY <2>1, <2>3
<1>9. Kept(new)
  BY <1>6, <1>8, LessIsKept
<1>10. QED
  BY <1>4, <1>5, <1>9 DEF OptimizerInv, Kept, OfDay, OfMonth, Day, Month, Span, Unseen

(* The battery gives what the plan says, or less.                          *)
LEMMA DeliveredFacts ==
  ASSUME OptimizerShape
  PROVE  /\ Delivered(running) \in Int
         /\ Most(-Delivered(running), 0) \in 0 .. MaxDischarge
         /\ running \in Span
         /\ Most(-Delivered(running), 0) <= Committed[running]
PROOF
<1>1. PICK power : power = IF running \in DOMAIN target THEN target[running] ELSE 0
  OBVIOUS
<1>2. PICK can : can = battery \div DischargeCost
  OBVIOUS
<1>3. /\ battery \in Int /\ DischargeCost \in Nat /\ DischargeCost >= 1 /\ MaxDischarge \in Nat
      /\ \A t \in DOMAIN target : target[t] \in Int /\ -target[t] <= MaxDischarge
      /\ running \in Nat /\ running <= LastInterval /\ LastInterval \in Nat /\ Horizon \in Nat
  BY OptimizerFacts DEF OptimizerShape
<1>4. power \in Int /\ -power <= MaxDischarge
  BY <1>1, <1>3
<1>5. can \in Int
  BY <1>2, <1>3
<1>6. Delivered(running) = IF power < 0 THEN -Min({-power, can}) ELSE power
  BY <1>1, <1>2 DEF Delivered
<1>7. PICK low : low = Min({-power, can})
  OBVIOUS
<1>8. low \in Int /\ low <= -power
  <2>1. \E x \in {-power, can} : \A y \in {-power, can} : x <= y
    <3>1. -power <= can \/ can <= -power
      BY <1>4, <1>5
    <3>2. -power <= -power /\ can <= can
      BY <1>4, <1>5
    <3>3. QED
      BY <3>1, <3>2
  <2>2. low \in {-power, can} /\ \A y \in {-power, can} : low <= y
    BY <1>7, <2>1 DEF Min
  <2>3. QED
    BY <1>4, <1>5, <2>2
<1>9. PICK gives : gives = Delivered(running)
  OBVIOUS
<1>10. gives = IF power < 0 THEN -low ELSE power
  BY <1>6, <1>7, <1>9
<1>11. gives \in Int /\ -gives <= MaxDischarge /\ Most(-gives, 0) <= Most(-power, 0)
  BY <1>4, <1>8, <1>10, <1>3 DEF Most
<1>12. Most(-gives, 0) \in 0 .. MaxDischarge
  BY <1>3, <1>11 DEF Most
<1>13. running \in Span
  BY <1>3 DEF Span
<1>14. Committed[running] = Most(-power, 0)
  <2>1. ~(running < running) /\ Most(-0, 0) = 0
    BY <1>3 DEF Most
  <2>2. Committed[running] = IF running \in DOMAIN target THEN Most(-target[running], 0) ELSE 0
    BY <1>13, <2>1 DEF Committed
  <2>3. QED
    BY <1>1, <2>1, <2>2
<1>15. QED
  BY <1>9, <1>11, <1>12, <1>13, <1>14

LEMMA IntervalEndsKeeps ==
  ASSUME OptimizerInv, IntervalEnds
  PROVE  OptimizerInv'
PROOF
<1>1. OptimizerShape /\ Kept(Committed)
  BY DEF OptimizerInv
<1>2. PICK gives, spends, gets : /\ gives = Delivered(running) /\ spends = Most(-gives, 0)
                                 /\ gets = Stored(gives)
  OBVIOUS
<1>3. /\ running < LastInterval /\ running + 1 - aggregated <= MaxLag
      /\ running' = running + 1
      /\ battery' = Min({Capacity, battery + gets})
      /\ discharged' = [t \in DOMAIN discharged \cup {running} |->
                          IF t = running THEN spends ELSE discharged[t]]
      /\ aggregated' = aggregated /\ target' = target
  BY <1>2 DEF IntervalEnds
<1>4. /\ running \in Nat /\ aggregated \in Nat /\ aggregated <= running
      /\ battery \in Int /\ LastInterval \in Nat /\ Horizon \in Nat /\ MaxLag \in Nat
      /\ discharged \in [0 .. (running - 1) -> 0 .. MaxDischarge]
      /\ DOMAIN target \subseteq 0 .. running + Horizon
      /\ \A t \in DOMAIN target : target[t] \in Int /\ -target[t] <= MaxDischarge
      /\ MaxDischarge \in Nat /\ Capacity \in Nat /\ ChargeGain \in Nat /\ DischargeCost \in Nat
      /\ Span \subseteq Nat
  BY <1>1, OptimizerFacts DEF OptimizerShape
<1>5. /\ gives \in Int /\ spends \in 0 .. MaxDischarge /\ running \in Span
      /\ spends <= Committed[running]
  BY <1>1, <1>2, DeliveredFacts
<1>6. discharged' \in [0 .. (running' - 1) -> 0 .. MaxDischarge]
  <2>1. 0 .. (running' - 1) = DOMAIN discharged \cup {running}
    <3>1. DOMAIN discharged = 0 .. (running - 1)
      BY <1>4
    <3>2. \A t : t \in 0 .. (running' - 1) <=> t \in 0 .. (running - 1) \/ t = running
      BY <1>3, <1>4
    <3>3. QED
      BY <3>1, <3>2
  <2>2. \A t \in DOMAIN discharged : discharged[t] \in 0 .. MaxDischarge
    BY <1>4
  <2>3. QED
    BY <1>3, <1>5, <2>1, <2>2
<1>7. battery' \in Int
  <2>1. gets \in Int
    <3>1. PICK up, down : up = Most(gives, 0) /\ down = Most(-gives, 0)
      OBVIOUS
    <3>2. up \in Nat /\ down \in Nat
      BY <1>5, <3>1 DEF Most
    <3>3. ChargeGain * up \in Nat /\ DischargeCost * down \in Nat
      BY <1>4, <3>2
    <3>4. gets = ChargeGain * up - DischargeCost * down
      BY <1>2, <3>1 DEF Stored
    <3>5. QED
      BY <3>3, <3>4
  <2>2. PICK sum : sum = battery + gets
    OBVIOUS
  <2>3. sum \in Int
    BY <1>4, <2>1, <2>2
  <2>4. Capacity <= sum \/ sum <= Capacity
    BY <1>4, <2>3
  <2>5. Capacity <= Capacity /\ sum <= sum
    BY <1>4, <2>3
  <2>6. \E x \in {Capacity, sum} : \A y \in {Capacity, sum} : x <= y
    BY <2>4, <2>5
  <2>7. Min({Capacity, sum}) \in {Capacity, sum}
    BY <2>6 DEF Min
  <2>8. QED
    BY <1>3, <1>4, <2>2, <2>3, <2>7
<1>8. OptimizerShape'
  <2>1. running' \in 0 .. LastInterval /\ aggregated' \in 0 .. running'
        /\ running' - aggregated' <= MaxLag
    BY <1>3, <1>4
  <2>2. DOMAIN target' \subseteq 0 .. running' + Horizon
    <3>1. \A t \in 0 .. running + Horizon : t \in 0 .. running' + Horizon
      BY <1>3, <1>4
    <3>2. QED
      BY <1>3, <1>4, <3>1
  <2>3. \A t \in DOMAIN target' : target'[t] \in Int /\ -target'[t] <= MaxDischarge
    BY <1>3, <1>4
  <2>4. QED
    BY <1>6, <1>7, <2>1, <2>2, <2>3 DEF OptimizerShape
<1>9. PICK old, new : old = Committed /\ new = Committed'
  OBVIOUS
<1>10. old \in [Span -> 0 .. MaxDischarge] /\ Kept(old)
       /\ \A t \in Span : t < running => old[t] = discharged[t]
  BY <1>1, <1>9, CommittedFacts
<1>11. ASSUME NEW t \in Span PROVE old[t] \in Nat /\ new[t] \in Nat /\ new[t] <= old[t]
  <2>1. old[t] \in Nat
    BY <1>4, <1>10
  <2>2. new[t] = IF t < running' THEN discharged'[t]
                 ELSE IF t \in DOMAIN target' THEN Most(-target'[t], 0) ELSE 0
    BY <1>9 DEF Committed, Span, Most
  <2>3. old[t] = IF t < running THEN discharged[t]
                 ELSE IF t \in DOMAIN target THEN Most(-target[t], 0) ELSE 0
    BY <1>9 DEF Committed
  <2>4. t \in Nat
    BY <1>4
  <2>5. CASE t < running
    <3>1. t < running' /\ t # running /\ t \in DOMAIN discharged
      BY <1>3, <1>4, <2>4, <2>5
    <3>2. new[t] = discharged[t]
      BY <1>3, <2>2, <3>1
    <3>3. new[t] = old[t]
      BY <2>5, <1>10, <3>2
    <3>4. QED
      BY <2>1, <3>3
  <2>6. CASE t = running
    <3>1. t < running'
      BY <1>3, <1>4, <2>6
    <3>2. new[t] = spends
      BY <1>3, <2>2, <2>6, <3>1
    <3>3. spends <= old[t] /\ spends \in Nat
      BY <1>4, <1>5, <1>9, <2>6
    <3>4. QED
      BY <2>1, <3>2, <3>3
  <2>7. CASE t > running
    <3>1. ~(t < running') /\ ~(t < running)
      BY <1>3, <1>4, <2>4, <2>7
    <3>2. new[t] = old[t]
      BY <1>3, <2>2, <2>3, <3>1
    <3>3. QED
      BY <2>1, <3>2
  <2>8. QED
    BY <1>4, <2>4, <2>5, <2>6, <2>7
<1>12. Kept(new)
  BY <1>10, <1>11, LessIsKept
<1>13. QED
  BY <1>8, <1>9, <1>12 DEF OptimizerInv, Kept, OfDay, OfMonth, Day, Month, Span, Unseen

LEMMA AggregateKeeps ==
  ASSUME OptimizerInv, Aggregate
  PROVE  OptimizerInv'
PROOF
<1>1. OptimizerShape /\ Kept(Committed)
  BY DEF OptimizerInv
<1>2. /\ aggregated' = running /\ running' = running /\ battery' = battery
      /\ discharged' = discharged /\ target' = target
  BY DEF Aggregate
<1>3. running \in Nat /\ MaxLag \in Nat
  BY <1>1, OptimizerFacts DEF OptimizerShape
<1>4. aggregated' \in 0 .. running' /\ running' - aggregated' <= MaxLag
  BY <1>2, <1>3
<1>5. OptimizerShape'
  BY <1>1, <1>2, <1>4 DEF OptimizerShape
<1>6. PICK spent : spent = Committed
  OBVIOUS
<1>7. Committed' = spent
  BY <1>2, <1>6 DEF Committed, Span, Most
<1>8. Kept(spent)
  BY <1>1, <1>6
<1>9. QED
  BY <1>5, <1>7, <1>8 DEF OptimizerInv, Kept, OfDay, OfMonth, Day, Month, Span, Unseen

LEMMA OptimizerStarts ==
  ASSUME OptimizerInit
  PROVE  OptimizerInv
PROOF
<1>1. /\ running = 0 /\ battery \in 0 .. Capacity /\ aggregated = 0
      /\ DOMAIN discharged = {} /\ DOMAIN target = {}
      /\ discharged = [t \in {} |-> 0]
  BY DEF OptimizerInit
<1>2. /\ LastInterval \in Nat /\ Horizon \in Nat /\ MaxLag \in Nat /\ Capacity \in Nat
      /\ DayBudget \in Nat /\ MonthBudget \in Nat /\ Unseen \in Nat
      /\ Span \subseteq Nat /\ MaxDischarge \in Nat
  BY OptimizerFacts
<1>3. OptimizerShape
  <2>1. 0 .. (running - 1) = {}
    BY <1>1
  <2>2. discharged \in [0 .. (running - 1) -> 0 .. MaxDischarge]
    BY <1>1, <2>1
  <2>3. running \in 0 .. LastInterval /\ aggregated \in 0 .. running
        /\ running - aggregated <= MaxLag /\ battery \in Int
    BY <1>1, <1>2
  <2>4. QED
    BY <1>1, <2>2, <2>3 DEF OptimizerShape
<1>4. PICK spent : spent = Committed
  OBVIOUS
<1>5. ASSUME NEW t \in Span PROVE spent[t] \in Nat /\ spent[t] <= 0
  <2>1. t \in Nat /\ ~(t < running) /\ t \notin DOMAIN target
    BY <1>1, <1>2
  <2>2. spent[t] = 0
    BY <1>4, <2>1 DEF Committed
  <2>3. QED
    BY <2>2
<1>6. ASSUME NEW S, S \subseteq Span PROVE Total(spent, S) = 0
  <2>1. IsFiniteSet(S) /\ Cardinality(S) \in Nat
    BY <1>6, OptimizerFacts, FS_Subset, FS_CardinalityType
  <2>2. \A t \in S : spent[t] \in Nat /\ spent[t] <= 0
    BY <1>5, <1>6
  <2>3. Total(spent, S) \in Nat
    BY <2>1, <2>2, TotalIsNatural
  <2>4. Total(spent, S) <= Cardinality(S) * 0
    BY <2>1, <2>2, TotalIsBounded
  <2>5. QED
    BY <2>1, <2>3, <2>4
<1>7. ASSUME NEW d \in {Day(t) : t \in Span} PROVE Total(spent, OfDay(d)) <= DayBudget + Unseen
  <2>1. Total(spent, OfDay(d)) = 0
    BY <1>6 DEF OfDay
  <2>2. QED
    BY <1>2, <2>1
<1>8. ASSUME NEW m \in {Month(t) : t \in Span} PROVE Total(spent, OfMonth(m)) <= MonthBudget + Unseen
  <2>1. Total(spent, OfMonth(m)) = 0
    BY <1>6 DEF OfMonth
  <2>2. QED
    BY <1>2, <2>1
<1>9. QED
  BY <1>3, <1>4, <1>7, <1>8 DEF OptimizerInv, Kept

(* What has been discharged of a day or month is part of what is kept      *)
(* within its budget.                                                      *)
LEMMA SpentIsKept ==
  ASSUME OptimizerInv
  PROVE  BudgetsHold
PROOF
<1>1. OptimizerShape /\ Kept(Committed)
  BY DEF OptimizerInv
<1>2. /\ running \in Nat /\ running <= LastInterval /\ LastInterval \in Nat /\ Horizon \in Nat
      /\ discharged \in [0 .. (running - 1) -> 0 .. MaxDischarge] /\ MaxDischarge \in Nat
      /\ DayBudget \in Nat /\ MonthBudget \in Nat /\ Unseen \in Nat
  BY <1>1, OptimizerFacts DEF OptimizerShape
<1>3. \A t \in DOMAIN discharged : t \in Span /\ t < running
  BY <1>2 DEF Span
<1>4. PICK spent : spent = Committed
  OBVIOUS
<1>5. /\ \A t \in Span : spent[t] \in Nat
      /\ \A t \in DOMAIN discharged : spent[t] = discharged[t] /\ discharged[t] \in Nat
  <2>1. spent \in [Span -> 0 .. MaxDischarge]
    BY <1>1, <1>4, CommittedFacts
  <2>2. \A t \in Span : t < running => spent[t] = discharged[t]
    BY <1>1, <1>4, CommittedFacts
  <2>3. \A t \in Span : spent[t] \in Nat
    BY <1>2, <2>1
  <2>4. \A t \in DOMAIN discharged : spent[t] = discharged[t]
    BY <1>3, <2>2
  <2>5. QED
    BY <1>3, <2>3, <2>4
<1>6. ASSUME NEW part, NEW whole, part \subseteq DOMAIN discharged, part \subseteq whole,
             whole \subseteq Span, NEW bound \in Nat, Total(spent, whole) <= bound
      PROVE  Total(discharged, part) <= bound
  <2>1. IsFiniteSet(whole) /\ IsFiniteSet(part)
    BY <1>6, OptimizerFacts, FS_Subset
  <2>2. \A t \in part : /\ discharged[t] \in Nat /\ spent[t] \in Nat
                        /\ discharged[t] <= spent[t]
    <3> SUFFICES ASSUME NEW t \in part
                 PROVE  /\ discharged[t] \in Nat /\ spent[t] \in Nat
                        /\ discharged[t] <= spent[t]
      OBVIOUS
    <3>1. spent[t] = discharged[t] /\ discharged[t] \in Nat
      BY <1>5, <1>6
    <3>2. discharged[t] <= discharged[t]
      BY <3>1
    <3>3. QED
      BY <3>1, <3>2
  <2>3. \A t \in whole : spent[t] \in Nat
    BY <1>5, <1>6
  <2>4. Total(discharged, part) <= Total(spent, part)
    BY <2>1, <2>2, TotalCompares
  <2>5. Total(spent, part) <= Total(spent, whole)
    BY <1>6, <2>1, <2>3, TotalGrows
  <2>6. /\ Total(discharged, part) \in Nat /\ Total(spent, part) \in Nat
        /\ Total(spent, whole) \in Nat
    BY <2>1, <2>2, <2>3, TotalIsNatural
  <2>7. QED
    BY <1>6, <2>4, <2>5, <2>6
<1>7. ASSUME NEW d \in {Day(t) : t \in DOMAIN discharged}
      PROVE  Total(discharged, {t \in DOMAIN discharged : Day(t) = d}) <= DayBudget + Unseen
  <2>1. PICK part, whole : part = {t \in DOMAIN discharged : Day(t) = d} /\ whole = OfDay(d)
    OBVIOUS
  <2>2. d \in {Day(t) : t \in Span}
    BY <1>3
  <2>3. Total(spent, whole) <= DayBudget + Unseen
    BY <1>1, <1>4, <2>1, <2>2 DEF Kept
  <2>4. part \subseteq DOMAIN discharged /\ part \subseteq whole /\ whole \subseteq Span
    BY <1>3, <2>1 DEF OfDay
  <2>5. DayBudget + Unseen \in Nat
    BY <1>2
  <2>6. Total(discharged, part) <= DayBudget + Unseen
    BY <1>6, <2>3, <2>4, <2>5
  <2>7. QED
    BY <2>1, <2>6
<1>8. ASSUME NEW m \in {Month(t) : t \in DOMAIN discharged}
      PROVE  Total(discharged, {t \in DOMAIN discharged : Month(t) = m}) <= MonthBudget + Unseen
  <2>1. PICK part, whole : part = {t \in DOMAIN discharged : Month(t) = m} /\ whole = OfMonth(m)
    OBVIOUS
  <2>2. m \in {Month(t) : t \in Span}
    BY <1>3
  <2>3. Total(spent, whole) <= MonthBudget + Unseen
    BY <1>1, <1>4, <2>1, <2>2 DEF Kept
  <2>4. part \subseteq DOMAIN discharged /\ part \subseteq whole /\ whole \subseteq Span
    BY <1>3, <2>1 DEF OfMonth
  <2>5. MonthBudget + Unseen \in Nat
    BY <1>2
  <2>6. Total(discharged, part) <= MonthBudget + Unseen
    BY <1>6, <2>3, <2>4, <2>5
  <2>7. QED
    BY <2>1, <2>6
<1>9. QED
  BY <1>7, <1>8 DEF BudgetsHold, Unseen

LEMMA OptimizerStep == OptimizerInv /\ [OptimizerNext]_optimizerVars => OptimizerInv'
PROOF
<1> SUFFICES ASSUME OptimizerInv, [OptimizerNext]_optimizerVars PROVE OptimizerInv'
  OBVIOUS
<1>1. CASE Optimize
  BY <1>1, OptimizeKeeps
<1>2. CASE FallBack
  BY <1>2, FallBackKeeps
<1>3. CASE IntervalEnds
  BY <1>3, IntervalEndsKeeps
<1>4. CASE Aggregate
  BY <1>4, AggregateKeeps
<1>5. CASE UNCHANGED optimizerVars
  <2>1. PICK spent : spent = Committed
    OBVIOUS
  <2>2. /\ running' = running /\ aggregated' = aggregated /\ battery' = battery
        /\ discharged' = discharged /\ target' = target
    BY <1>5 DEF optimizerVars
  <2>3. Committed' = spent
    BY <2>1, <2>2 DEF Committed, Span, Most
  <2>4. OptimizerShape /\ Kept(spent)
    BY <2>1 DEF OptimizerInv
  <2>5. OptimizerShape'
    BY <2>2, <2>4 DEF OptimizerShape
  <2>6. QED
    BY <2>3, <2>4, <2>5 DEF OptimizerInv, Kept, OfDay, OfMonth, Day, Month, Span, Unseen
<1>6. QED
  BY <1>1, <1>2, <1>3, <1>4, <1>5 DEF OptimizerNext

(* Whatever the solver chooses among the solutions and however far the     *)
(* aggregates are behind within MaxLag, the plans published one after      *)
(* another discharge no more in a local day or month than its budget and   *)
(* what the planner could not see: the limits of the model that            *)
(* optimization.py solves hold for the battery and not only for each plan. *)
THEOREM BudgetsAreKept == OptimizerSpec => []BudgetsHold
PROOF
<1>1. OptimizerInit => OptimizerInv
  BY OptimizerStarts
<1>2. OptimizerInv => BudgetsHold
  BY SpentIsKept
<1>3. QED
  BY <1>1, OptimizerStep, <1>2, PTL DEF OptimizerSpec
=============================================================================
