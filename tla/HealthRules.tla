----------------------------- MODULE HealthRules -----------------------------
(***************************************************************************)
(* What the health rules find in one window: an operator for each rule,    *)
(* from the readings it looks at to the verdict that is stored, and the    *)
(* verdicts that a rule can reach over readings on both sides of its       *)
(* thresholds.  A reading that may be missing is a set of at most one      *)
(* value.  past is an evaluation of a window that is long over, which does *)
(* not know what only the current rows say.                                *)
(***************************************************************************)
EXTENDS Integers, Sequences, FiniteSets, TLC

Verdicts == {"bad", "unknown", "healthy", "recovering"}
Optional(S) == {{}} \cup {{x} : x \in S}

(* A Finding: recovered is true unless the rule says otherwise.            *)
Known(bad) == IF bad THEN "bad" ELSE "healthy"
KnownIf(known, bad) == IF known THEN Known(bad) ELSE "unknown"

(* _numeric: between the two thresholds an incident neither ends nor stays *)
(* confirmed.                                                              *)
Numeric(value, bad, recovered) ==
  IF value = {} THEN "unknown"
  ELSE IF bad THEN "bad" ELSE IF recovered THEN "healthy" ELSE "recovering"

(***************************************************************************)
(* The device and its newest sample; ages of samples are in minutes        *)
(***************************************************************************)
(* Inverters that Deye Cloud reports have no heartbeat and no such rule.   *)
DeviceOffline(past, active, age) ==
  KnownIf(~past, active /\ \A seconds \in age : seconds > 900)

Samples == [simulated : BOOLEAN, stale : BOOLEAN, derived : BOOLEAN, age : {10, 11},
            lacks : SUBSET {"power", "soc"}]

Quality(s) ==
  CASE s.simulated -> "simulated"
    [] ~s.simulated /\ (s.stale \/ s.age > 10) -> "stale"
    [] ~s.simulated /\ ~s.stale /\ s.age <= 10 /\ s.derived -> "derived"
    [] OTHER -> "measured"

TelemetryStale(row) == Known(\A s \in row : s.age > 10)

(* The charge of the battery is required where there is a battery.         *)
DataQuality(row, required) ==
  Known(\A s \in row : s.lacks \cap required # {} \/ Quality(s) # "measured")

(* What the other rules take from the sample counts if it was measured.    *)
FromSample(row, value) == IF \E s \in row : Quality(s) = "measured" THEN value ELSE {}

GridVoltageHigh(row, volts) ==
  LET v == FromSample(row, volts)
  IN Numeric(v, \E x \in v : x > 253, \E x \in v : x <= 248)

InverterFault(row, status) ==
  LET valid == {s \in FromSample(row, status) : s.quality \in {"reported", "measured"}}
  IN KnownIf(valid # {}, \E s \in valid : s.fault)

BatteryTemperature(row, celsius) ==
  LET t == FromSample(row, celsius)
  IN Numeric(t, \E x \in t : x > 50, \E x \in t : x <= 45)

(* An estimate of the battery's health says nothing.                       *)
BatterySoh(row, percent, kind) ==
  LET h == IF kind \in {"estimated", "unavailable"} THEN {} ELSE FromSample(row, percent)
  IN Numeric(h, \E x \in h : x < 70, \E x \in h : x >= 75)

(* The reserve and the normal maximum of the preferences bound the charge. *)
BatterySoc(row, percent, low, high) ==
  LET soc == FromSample(row, percent)
      floor == IF low + 2 < high THEN low + 2 ELSE high
      ceiling == IF high - 2 > low THEN high - 2 ELSE low
  IN Numeric(soc, \E x \in soc : x < low \/ x > high,
                  \E x \in soc : floor <= x /\ x <= ceiling)

(* power > 0 is import; a limit that is not configured says nothing.       *)
GridLimit(row, power, import, export) ==
  LET limit == UNION {IF p >= 0 THEN import ELSE export : p \in power}
      p == IF limit = {} THEN {} ELSE FromSample(row, power)
      size(x) == IF x >= 0 THEN x ELSE -x
  IN Numeric(p, \E x \in p, m \in limit : size(x) > m,
                \E x \in p, m \in limit : size(x) * 100 <= m * 95)

(***************************************************************************)
(* Production, consumption, weather and market                             *)
(***************************************************************************)
(* The last quarter of an hour, in hundredths of a kWh, if it was measured *)
(* over four fifths of its length, and its forecast, if it is no older     *)
(* than six hours and it and its weather are not synthetic.                *)
PvUnderForecast(actual, coverage, expected, synthetic) ==
  LET measured == IF coverage >= 80 THEN actual ELSE {}
      ratio == IF synthetic THEN {} ELSE
        {<<a, e>> : a \in measured, e \in {x \in expected : x >= 25}}
  IN Numeric(ratio, \E r \in ratio : r[1] * 2 < r[2], \E r \in ratio : r[1] * 100 >= r[2] * 65)

UpperMedian(loads) == SortSeq(loads, <)[Len(loads) \div 2 + 1]

(* The last hour of the night and the same hour of up to eight nights      *)
(* before, three at least.                                                 *)
NightLoad(localHour, lastHour, nights) ==
  LET known == localHour < 6 /\ Len(nights) >= 3 /\ UpperMedian(nights) > 0
      load == IF known THEN lastHour ELSE {}
  IN Numeric(load, \E x \in load : x * 2 > UpperMedian(nights) * 3,
                   \E x \in load : x * 4 <= UpperMedian(nights) * 5)

WeatherStale(age) == Known(\A hours \in age : hours > 6)
MarketStale(price) == Known(price \subseteq {"synthetic"})

(***************************************************************************)
(* Commands, optimisation, firmware                                        *)
(***************************************************************************)
CommandStates == {"created", "delivered", "accepted", "executed", "superseded", "rejected",
                  "failed", "expired"}

(* Only commands that became valid in the last day have a finding.  In the *)
(* past the status is that of the last event before the window's end.      *)
CommandFailed(status, late) ==
  KnownIf(status # {}, \E s \in status :
    s \in {"rejected", "failed", "expired"} \/ (late /\ s \notin {"executed", "superseded"}))

OptimizationFailed(past, run) ==
  LET seen == {r \in run : past => r.finished}
  IN KnownIf(seen # {}, \E r \in seen : r.fallback \/
       r.status \in {"failed", "infeasible", "solver_timeout", "fallback"})

OtaFailed(status) ==
  KnownIf(status # {}, status \cap {"failed", "timed_out", "rolled_back"} # {})

(***************************************************************************)
(* Charging of vehicles                                                    *)
(***************************************************************************)
Connectors == [online : BOOLEAN, paired : BOOLEAN, measured : BOOLEAN,
               state : {"charging", "paused", "available", "disconnected", "faulted"}]

(* The state is trusted while its measured observation is fresh.           *)
Trusted(past, c) == ~past /\ c.online /\ c.measured

EvOffline(past, c) == KnownIf(~past /\ c.paired, ~c.online)
EvFault(past, c) == KnownIf(Trusted(past, c), c.state = "faulted")

(* needed: the energy of the next requirement, if there is one; charged:   *)
(* that of a session which goes on.                                        *)
Remaining(needed, charged) ==
  {IF n > x THEN n - x ELSE 0 : n \in needed, x \in charged}

EvTargetImpossible(past, remaining, deliverable) ==
  KnownIf(~past /\ remaining # {} /\ deliverable # {},
          \E r \in remaining, d \in deliverable : r > d)

EvUnplugged(past, c, needed) ==
  KnownIf(Trusted(past, c) /\ needed # {},
          c.state \in {"disconnected", "available"} /\ \E n \in needed : n > 0)

EvInterrupted(past, c, remaining) ==
  KnownIf(Trusted(past, c) /\ remaining # {},
          c.state = "paused" /\ \E r \in remaining : r > 0)

EvCostLimit(past, cost, limit) ==
  KnownIf(~past /\ cost # {} /\ limit # {}, \E x \in cost, m \in limit : x > m)

(***************************************************************************)
(* The verdicts of a rule                                                  *)
(***************************************************************************)
NewestSample == Optional(Samples)
Deployments == {"offered", "succeeded", "failed", "timed_out", "rolled_back", "cancelled"}
Needed == Optional({0, 1})
Left == {Remaining(n, x) : n \in Needed, x \in Needed}

VerdictsOf(rule, past) ==
  CASE rule = "device_offline" ->
         {DeviceOffline(past, active, age) : active \in BOOLEAN, age \in Optional({900, 901})}
    [] rule = "telemetry_stale" -> {TelemetryStale(row) : row \in NewestSample}
    [] rule = "data_quality" ->
         {DataQuality(row, r) : row \in NewestSample, r \in {{"power"}, {"power", "soc"}}}
    [] rule = "grid_voltage_high" ->
         {GridVoltageHigh(row, v) : row \in NewestSample, v \in Optional({248, 249, 253, 254})}
    [] rule = "inverter_fault" ->
         {InverterFault(row, s) : row \in NewestSample,
            s \in Optional([quality : {"reported", "estimated"}, fault : BOOLEAN])}
    [] rule = "battery_temperature" ->
         {BatteryTemperature(row, t) : row \in NewestSample, t \in Optional({45, 46, 50, 51})}
    [] rule = "battery_soh" ->
         {BatterySoh(row, h, k) : row \in NewestSample, h \in Optional({69, 70, 74, 75}),
            k \in {"reported", "estimated"}}
    [] rule = "battery_soc" ->
         {BatterySoc(row, x, 20, 80) : row \in NewestSample,
            x \in Optional({19, 20, 21, 22, 78, 79, 80, 81})}
    [] rule = "grid_limit" ->
         {GridLimit(row, p, m, {}) : row \in NewestSample, p \in Optional({-1, 95, 96, 100, 101}),
            m \in Optional({100})}
    [] rule = "pv_under_forecast" ->
         {PvUnderForecast(a, c, e, s) : a \in Optional({49, 50, 64, 65}), c \in {79, 80},
            e \in Optional({24, 100}), s \in BOOLEAN}
    [] rule = "night_load" ->
         {NightLoad(h, x, n) : h \in {5, 6}, x \in Optional({5, 6, 7}),
            n \in {<<4, 4>>, <<4, 9, 1>>, <<0, 0, 4>>}}
    [] rule = "weather_stale" -> {WeatherStale(age) : age \in Optional({6, 7})}
    [] rule = "market_stale" -> {MarketStale(p) : p \in Optional({"published", "synthetic"})}
    [] rule = "command_failed" ->
         {CommandFailed(s, late) : late \in BOOLEAN,
            s \in IF past THEN Optional(CommandStates) ELSE Optional(CommandStates) \ {{}}}
    [] rule = "optimization_failed" ->
         {OptimizationFailed(past, run) : run \in
            Optional([status : {"succeeded", "failed"}, fallback : BOOLEAN, finished : BOOLEAN])}
    [] rule = "ota_failed" -> {OtaFailed(s) : s \in Optional(Deployments)}
    [] rule = "ev_offline" -> {EvOffline(past, c) : c \in Connectors}
    [] rule = "ev_fault" -> {EvFault(past, c) : c \in Connectors}
    [] rule = "ev_target_impossible" ->
         {EvTargetImpossible(past, r, p) : r \in Left, p \in Needed}
    [] rule = "ev_unplugged" -> {EvUnplugged(past, c, n) : c \in Connectors, n \in Needed}
    [] rule = "ev_interrupted" -> {EvInterrupted(past, c, r) : c \in Connectors, r \in Left}
    [] rule = "ev_cost_limit" -> {EvCostLimit(past, x, m) : x \in Needed, m \in Needed}

Rules ==
  {"device_offline", "telemetry_stale", "data_quality", "grid_voltage_high", "inverter_fault",
   "battery_temperature", "battery_soh", "battery_soc", "grid_limit", "pv_under_forecast",
   "night_load", "weather_stale", "market_stale", "command_failed", "optimization_failed",
   "ota_failed", "ev_offline", "ev_fault", "ev_target_impossible", "ev_unplugged",
   "ev_interrupted", "ev_cost_limit"}
=============================================================================
