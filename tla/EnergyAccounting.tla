-------------------------- MODULE EnergyAccounting --------------------------
(***************************************************************************)
(* How energy and money are computed from samples: the integrals of the    *)
(* aggregation and of the inverter's inputs, counters, the energy and the  *)
(* cost of a charging session, and the price of a tariff.  Pure functions: *)
(* MC_Services compares them with reference definitions over bounded       *)
(* inputs.                                                                 *)
(*                                                                         *)
(* Time is a number of units, energy is power times units, and a division  *)
(* is written where the inputs that are checked make it exact.  What may   *)
(* be missing is a set of at most one value.                               *)
(***************************************************************************)
EXTENDS Integers, Sequences, FiniteSets, FiniteSetsExt

CONSTANT HoldFor   \* MAX_GAP_SECONDS: how long a sample stands for what follows

ASSUME EnergyAssumption == HoldFor \in Nat \ {0}

The(option) == CHOOSE x \in option : TRUE
Sum(f) == MapThenSumSet(LAMBDA x : f[x], DOMAIN f)
TotalOf(options) ==   (* the sum of what is known, if anything is *)
  LET known == {i \in DOMAIN options : options[i] # {}}
  IN IF known = {} THEN {} ELSE {Sum([i \in known |-> The(options[i])])}

(***************************************************************************)
(* Integrals of power: power is a function on the instants of the samples  *)
(* that have a value                                                       *)
(***************************************************************************)
(* _segments: a sample stands until the next one, for HoldFor at most.     *)
Segments(power, start, end) ==
  LET reach(t) == Min({t + HoldFor} \cup {u \in DOMAIN power : u > t})
      segment(t) == [from |-> Max({t, start}), to |-> Min({reach(t), end}), value |-> power[t]]
  IN {s \in {segment(t) : t \in DOMAIN power} : s.to > s.from}

Length(s) == s.to - s.from
Covered(segments) == MapThenSumSet(Length, segments)
Weighted(segments) == MapThenSumSet(LAMBDA s : s.value * Length(s), segments)

(* _integrate                                                              *)
Integral(power, start, end) ==
  LET s == Segments(power, start, end)
  IN [energy |-> IF s = {} THEN {} ELSE {Weighted(s)}, covered |-> Covered(s)]

(* _integrate_signed_split: what comes in and what goes out                *)
SignedSplit(power, start, end) ==
  LET s == Segments(power, start, end)
      gained == {x \in s : x.value >= 0}
  IN [in |-> IF s = {} THEN {} ELSE {Weighted(gained)},
      out |-> IF s = {} THEN {} ELSE {-Weighted(s \ gained)}, covered |-> Covered(s)]

(* _time_weighted_average, as a numerator: over covered, not over the time *)
Average(power, start, end) ==
  LET s == Segments(power, start, end)
  IN [weighted |-> IF s = {} THEN {} ELSE {Weighted(s)}, covered |-> Covered(s)]

(* aggregate_interval_15m: no row without a sample of the interval itself. *)
QuarterRow(power, start, end) ==
  LET rows == {t \in DOMAIN power : t >= start - HoldFor /\ t < end}
  IN IF \A t \in rows : t < start THEN {}
     ELSE {Integral([t \in rows |-> power[t]], start, end)}

(* _rollup of the rows that exist, by the starts of their intervals        *)
Rollup(rows) ==
  LET some == {i \in DOMAIN rows : rows[i] # {}}
  IN IF some = {} THEN {}
     ELSE {[energy |-> TotalOf([i \in some |-> The(rows[i]).energy]),
            covered |-> Sum([i \in some |-> The(rows[i]).covered])]}

(* get_energy_kwh_for_interval: the quarters inside, none is divided.      *)
EnergyBetween(rows, width, start, end) ==
  LET inside == {i \in DOMAIN rows : rows[i] # {} /\ i >= start /\ i + width <= end}
  IN [energy |-> TotalOf([i \in inside |-> The(rows[i]).energy]),
      covered |-> Sum([i \in inside |-> The(rows[i]).covered]),
      found |-> Cardinality(inside),
      expected |-> IF end > start THEN (end - (start - (start % width))) \div width ELSE 0]

(* solar_service.integrate: a sample without a value interrupts.           *)
InputIntegral(samples, start, end) ==
  LET reach(t) == Min({t + HoldFor, end} \cup {u \in DOMAIN samples : u > t})
      segment(t) == [from |-> Max({t, start}), to |-> reach(t), value |-> The(samples[t])]
      known == {t \in DOMAIN samples : samples[t] # {}}
      s == {x \in {segment(t) : t \in known} : x.to > x.from}
  IN [energy |-> IF s = {} THEN {} ELSE {Weighted(s)}, covered |-> Covered(s)]

(* counter_delta, between readings of one counter                          *)
CounterDelta(before, after) ==
  IF \/ after.device # before.device \/ after.at <= before.at
     \/ after.reset # before.reset \/ ~(before.trusted /\ after.trusted)
  THEN {}
  ELSE IF after.value >= before.value THEN {after.value - before.value}
  ELSE IF after.rollover # {} /\ after.rollover = before.rollover
  THEN {after.value - before.value + The(after.rollover)} ELSE {}

(***************************************************************************)
(* The price of a tariff version, in hundredths so that VAT is exact       *)
(***************************************************************************)
(* compute_effective_price_lei_per_kwh                                     *)
EffectivePrice(version, market) ==
  LET energy == IF version.fixed # {} THEN version.fixed
                ELSE {m + x : m \in version.margin, x \in market}
      network == IF version.direction = "export" THEN 0 ELSE version.regulated
      rate == IF version.vat = {} THEN 100 ELSE 100 + The(version.vat)
  IN IF version.disabled \/ ~version.supported THEN {}
     ELSE {(e + version.variable + network) * rate : e \in energy}

(* build_invoice_preview: VAT is also on the monthly fee.                  *)
InvoicePreview(version, market, consumption) ==
  LET rate == IF version.vat = {} THEN 100 ELSE 100 + The(version.vat)
  IN {consumption * price + version.fee * rate : price \in EffectivePrice(version, market)}

(***************************************************************************)
(* A charging session: observations in the order of their times            *)
(***************************************************************************)
Worst(qualities) ==
  CASE "simulated" \in qualities -> "simulated"
    [] "simulated" \notin qualities /\ "stale" \in qualities -> "stale"
    [] qualities \cap {"simulated", "stale"} = {} /\ "estimated" \in qualities -> "estimated"
    [] OTHER -> "measured"

(* The difference of two meter readings, or else the power that was held;  *)
(* a meter that was reset leaves the energy unknown, whatever the power.   *)
EnergyOf(b, a) ==
  CASE b.meter # {} /\ a.meter # {} ->
         IF a.epoch = b.epoch /\ The(a.meter) >= The(b.meter)
         THEN {The(a.meter) - The(b.meter)} ELSE {}
    [] (b.meter = {} \/ a.meter = {}) /\ a.at - b.at <= HoldFor ->
         {power * (a.at - b.at) : power \in b.power}
    [] OTHER -> {}

(* energy_segments: a held power is never better than an estimate.         *)
SessionSegments(obs) ==
  LET byPower(i) == {} \in {obs[i].meter, obs[i + 1].meter} /\ EnergyOf(obs[i], obs[i + 1]) # {}
      later == {i \in 1..(Len(obs) - 1) : obs[i + 1].at > obs[i].at}
  IN {[start |-> obs[i].at, end |-> obs[i + 1].at, energy |-> EnergyOf(obs[i], obs[i + 1]),
       quality |-> Worst({obs[i].quality, obs[i + 1].quality}
                         \cup (IF byPower(i) THEN {"estimated"} ELSE {}))] : i \in later}

EnergyIn(segments) == MapThenSumSet(LAMBDA s : The(s.energy), {s \in segments : s.energy # {}})

(* The total is known when every part of it is.                            *)
SessionTotal(obs) ==
  LET segments == SessionSegments(obs)
  IN IF Len(obs) >= 2 /\ \A s \in segments : s.energy # {} THEN {EnergyIn(segments)} ELSE {}

SessionQuality(obs) ==
  LET segments == SessionSegments(obs)
  IN IF segments = {} THEN "unknown" ELSE Worst({s.quality : s \in segments})

(* split_prices: edges are the instants at which a version or a market     *)
(* interval begins or ends, and price what price_at answers.               *)
PriceParts(edges, price, start, end) ==
  LET cuts == {start, end} \cup {t \in edges : start < t /\ t < end}
  IN {[from |-> t, to |-> Min({u \in cuts : u > t}), value |-> price[t]] : t \in cuts \ {end}}

(* cost_segments: the last part takes what the others leave; a part whose  *)
(* price is unknown costs nothing and is not counted as priced.            *)
Portion(segment, part, parts) ==
  LET share(p) == (The(segment.energy) * Length(p)) \div (segment.end - segment.start)
  IN IF part.to = segment.end
     THEN The(segment.energy) - MapThenSumSet(share, parts \ {part}) ELSE share(part)

CostOfOne(edges, price, segment) ==
  LET parts == PriceParts(edges, price, segment.start, segment.end)
      priced == {p \in parts : p.value # {}}
  IN [cost |-> MapThenSumSet(LAMBDA p : Portion(segment, p, parts) * The(p.value), priced),
      priced |-> MapThenSumSet(LAMBDA p : Portion(segment, p, parts), priced)]

CostOf(edges, price, segments) ==
  LET usable == {s \in segments : s.energy # {} /\ s.quality \in {"measured", "estimated"}}
  IN [cost |-> MapThenSumSet(LAMBDA s : CostOfOne(edges, price, s).cost, usable),
      priced |-> MapThenSumSet(LAMBDA s : CostOfOne(edges, price, s).priced, usable),
      known |-> EnergyIn(usable)]

(* session_summary: the cost, and what the same energy would have cost at  *)
(* full power from the start, are known when all of the energy is priced.  *)
CompleteEnergy(obs) == IF SessionQuality(obs) \in {"measured", "estimated"} THEN SessionTotal(obs) ELSE {}

SessionCost(edges, price, obs) ==
  LET c == CostOf(edges, price, SessionSegments(obs))
  IN {c.cost : total \in {e \in CompleteEnergy(obs) : c.priced = e}}

BaselineCost(edges, price, obs, started, maxPower) ==
  LET whole(e) == [start |-> started, end |-> started + e \div maxPower, energy |-> {e}]
      cost(e) == CostOfOne(edges, price, whole(e))
  IN IF maxPower <= 0 THEN {}
     ELSE {cost(e).cost : e \in {x \in CompleteEnergy(obs) : x \div maxPower > 0 /\ cost(x).priced = x}}

TimingSavings(edges, price, obs, started, maxPower) ==
  {b - c : b \in BaselineCost(edges, price, obs, started, maxPower),
           c \in SessionCost(edges, price, obs)}
=============================================================================
