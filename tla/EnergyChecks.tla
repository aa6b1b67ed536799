---------------------------- MODULE EnergyChecks ----------------------------
(***************************************************************************)
(* The functions of EnergyAccounting against reference definitions, over   *)
(* all samples, readings and prices within small bounds.  TLC evaluates    *)
(* the assumptions at the start of every run of MC_Services.               *)
(***************************************************************************)
EXTENDS EnergyAccounting

LOCAL SamplePowers == {-1, 0, 2}

(* Samples of one metric at some of the instants.                          *)
LOCAL Metrics(S) == UNION {[times -> SamplePowers] : times \in SUBSET S}

(* The power that stands in the unit that begins at t: that of the newest  *)
(* sample, if it is not too old.                                           *)
LOCAL HeldAt(power, t) ==
  LET past == {u \in DOMAIN power : u <= t}
  IN IF past # {} /\ t < Max(past) + HoldFor THEN {power[Max(past)]} ELSE {}

LOCAL HeldOver(power, start, end) ==
  {t \in start..(end - 1) : HeldAt(power, t) # {}}

(* The segments are apart and cover what is held: the integral is the sum  *)
(* over the units of time, the coverage the number of units with a value,  *)
(* and the energy is unknown just when nothing is covered (_integrate).    *)
ASSUME IntegralIsPointwise ==
  \A power \in Metrics(0..4), start \in {1, 2}, end \in {4, 6} :
    LET held == HeldOver(power, start, end)
        i == Integral(power, start, end)
    IN /\ i.covered = Cardinality(held)
       /\ i.energy = IF held = {} THEN {}
                     ELSE {MapThenSumSet(LAMBDA t : The(HeldAt(power, t)), held)}

(* What comes in less what goes out is the integral, and neither is        *)
(* negative (_integrate_signed_split, of the battery and the grid).        *)
ASSUME SplitIsConsistent ==
  \A power \in Metrics(0..4), end \in {3, 5} :
    LET split == SignedSplit(power, 1, end)
        whole == Integral(power, 1, end)
    IN /\ split.covered = whole.covered /\ (split.in = {}) = (whole.energy = {})
       /\ \A e \in whole.energy :
            The(split.in) >= 0 /\ The(split.out) >= 0 /\ The(split.in) - The(split.out) = e

(* The mean charge lies between the least and the greatest charge that was *)
(* measured and held, and is unknown, not zero, when none was: the time    *)
(* that nothing covers does not count (_time_weighted_average).            *)
ASSUME AverageIsBetween ==
  \A charge \in Metrics(0..4), end \in {3, 5} :
    LET mean == Average(charge, 1, end)
        values == UNION {HeldAt(charge, t) : t \in 1..(end - 1)}
    IN /\ (mean.weighted = {}) = (values = {})
       /\ \A w \in mean.weighted : mean.covered * Min(values) <= w /\ w <= mean.covered * Max(values)

(* An hour that is rolled up from its intervals is the integral of the     *)
(* hour, but for the tails that are held into an interval that has no      *)
(* sample of its own: those have no row, and are neither counted as energy *)
(* nor as covered time (aggregate_interval_15m, _rollup).                  *)
ASSUME RollupLosesOnlyTails ==
  \A power \in Metrics(0..5) :
    LET rows == [i \in {0, 3} |-> QuarterRow(power, i, i + 3)]
        counted == {t \in HeldOver(power, 0, 6) : rows[(t \div 3) * 3] # {}}
    IN IF DOMAIN power = {} THEN Rollup(rows) = {}
       ELSE /\ The(Rollup(rows)).covered = Cardinality(counted)
            /\ The(Rollup(rows)).energy =
                 {MapThenSumSet(LAMBDA t : The(HeldAt(power, t)), counted)}

(* A reader that asks for any range gets at most what was produced in it:  *)
(* no interval is divided, and what is found never exceeds what is         *)
(* expected (get_energy_kwh_for_interval).                                 *)
ASSUME ReadsStayInside ==
  \A power \in Metrics(0..3), start \in 0..6, end \in 0..6 :
    LET rows == [i \in {0, 2, 4} |-> QuarterRow(power, i, i + 2)]
        read == EnergyBetween(rows, 2, start, end)
    IN /\ read.found <= read.expected
       /\ read.covered <= Cardinality(HeldOver(power, start, end))

(* A sample of an input without a value ends what the sample before it     *)
(* said, and the hour is the sum of its quarters, gaps included: an input, *)
(* unlike a station, has a row for every interval (solar_service.integrate *)
(* and reaggregate).                                                       *)
ASSUME InputQuartersAddUp ==
  \A samples \in UNION {[times -> {{}, {1}, {2}}] : times \in SUBSET (0..5)} :
    LET quarters == [i \in {0, 2, 4} |-> InputIntegral(samples, i, i + 2)]
        hour == InputIntegral(samples, 0, 6)
        held == {t \in HeldOver(samples, 0, 6) : HeldAt(samples, t) # {{}}}
    IN /\ hour.covered = Cardinality(held)
       /\ hour.covered = Sum([i \in {0, 2, 4} |-> quarters[i].covered])
       /\ hour.energy = IF held = {} THEN {}
                        ELSE {MapThenSumSet(LAMBDA t : The(The(HeldAt(samples, t))), held)}
       /\ hour.energy = TotalOf([i \in {0, 2, 4} |-> quarters[i].energy])

(* Two readings of a counter that ran for less than one turn between them  *)
(* give back how far it ran, or nothing: nothing if it was started over    *)
(* (its value is then what it ran since), or if it passed the end of an    *)
(* undeclared turn (counter_delta).                                        *)
ASSUME CounterDeltaIsAdvance ==
  \A first \in 0..3, run \in 0..3, turn \in {{}, {4}}, reset \in {0, 1} :
    LET reading(at, total, r) == [at |-> at, value |-> total % 4, rollover |-> turn, reset |-> r,
                                  device |-> "d", trusted |-> TRUE]
        last == IF reset = 0 THEN first + run ELSE run
        delta == CounterDelta(reading(0, first, 0), reading(1, last, reset))
    IN /\ delta \subseteq {run}
       /\ reset = 0 /\ (turn # {} \/ first + run < 4) => delta # {}

(* A session whose observations all read the meter has the energy between  *)
(* its first and its last reading, if the meter never starts over; after a *)
(* reset or a reading that went back it is unknown (energy_segments).      *)
ASSUME MeterTelescopes ==
  \A m \in [1..3 -> {0, 2, 4}], epoch \in [1..3 -> {0, 1}], gap \in {1, 5} :
    LET obs == [i \in 1..3 |-> [at |-> i * gap, meter |-> {m[i]}, power |-> {1},
                                epoch |-> epoch[i], quality |-> "measured"]]
        steady == \A i \in 1..2 : epoch[i] = epoch[i + 1] /\ m[i] <= m[i + 1]
    IN SessionTotal(obs) = IF steady THEN {m[3] - m[1]} ELSE {}

(* What is called measured is a meter difference: power that was held, a   *)
(* simulated or a stale observation never leave a measured session.        *)
ASSUME MeasuredNeedsMeter ==
  \A meter \in [1..3 -> {{}, {0}, {1}}], quality \in [1..3 -> {"measured", "stale"}] :
    LET obs == [i \in 1..3 |-> [at |-> i, meter |-> meter[i], power |-> {1}, epoch |-> 0,
                                quality |-> quality[i]]]
    IN SessionTotal(obs) # {} /\ SessionQuality(obs) = "measured"
         => \A i \in 1..3 : meter[i] # {} /\ quality[i] = "measured"

(* Prices of the units of time, and the instants at which they change.     *)
LOCAL Prices == [0..5 -> {{}, {1}, {3}}]
LOCAL Edges(price) == {t \in 1..5 : price[t] # price[t - 1]}
LOCAL Metered(end, energy) ==
  [i \in 1..2 |-> [at |-> IF i = 1 THEN 1 ELSE end, meter |-> {(i - 1) * energy}, power |-> {},
                   epoch |-> 0, quality |-> "measured"]]

(* Energy that is spread evenly over its segment costs what it costs unit  *)
(* by unit, wherever the price changes inside; the cost of the session is  *)
(* known just when every unit has a price (split_prices, cost_segments).   *)
ASSUME CostIsPointwise ==
  \A price \in Prices, end \in {3, 5} :
    LET units == 1..(end - 1)
        c == CostOf(Edges(price), price, SessionSegments(Metered(end, 2 * (end - 1))))
        some == {t \in units : price[t] # {}}
    IN /\ c.cost = MapThenSumSet(LAMBDA t : 2 * The(price[t]), some)
       /\ c.priced = 2 * Cardinality(some)
       /\ SessionCost(Edges(price), price, Metered(end, 2 * (end - 1))) =
            IF some = units THEN {c.cost} ELSE {}

(* Rounding loses no energy: the parts of a segment add up to it, however  *)
(* uneven the parts (the last portion of cost_segments).                   *)
ASSUME PortionsAddUp ==
  \A edges \in SUBSET (1..5), energy \in 0..5, end \in {2, 4, 6} :
    LET price == [t \in 0..5 |-> {1}]
        c == CostOf(edges, price, SessionSegments(Metered(end, energy)))
    IN c.priced = energy /\ c.cost = energy

(* Where the price never changes, no timing of a session saves anything,   *)
(* and where it does a saving is claimed only if all of it is priced, the  *)
(* session and what it is compared with (session_summary).                 *)
ASSUME SavingsNeedPrices ==
  \A price \in Prices, power \in 0..2 :
    LET obs == Metered(5, 4)
        savings == TimingSavings(Edges(price), price, obs, 0, power)
        used == 1..4 \cup (IF power > 0 THEN 0..((4 \div power) - 1) ELSE {})
    IN /\ savings # {} <=> power > 0 /\ \A t \in used : price[t] # {}
       /\ Cardinality({price[t] : t \in used}) = 1 => savings \subseteq {0}

(* An hour without a market price has no indexed price, an hour with one   *)
(* follows it with VAT, and a fixed price ignores it; what a version       *)
(* charges for the network never reaches the price of exported energy, and *)
(* an invoice is never less than its energy (compute_effective_price and   *)
(* build_invoice_preview).                                                 *)
LOCAL PriceVersions ==
  [fixed : {{}, {2}}, margin : {{}, {1}}, variable : {1}, regulated : {0, 3}, fee : {0, 4},
   vat : {{}, {0}, {21}}, direction : {"import", "export"}, disabled : BOOLEAN, supported : BOOLEAN]
ASSUME PriceFollowsMarket ==
  \A v \in PriceVersions, market \in {{}, {0}, {2}} :
    LET p == EffectivePrice(v, market)
    IN /\ Cardinality(p) <= 1
       /\ p # {} => ~v.disabled /\ v.supported /\ (v.fixed # {} \/ (v.margin # {} /\ market # {}))
       /\ v.fixed # {} => p = EffectivePrice(v, {})
       /\ v.direction = "export" => p = EffectivePrice([v EXCEPT !.regulated = 0], market)
       /\ v.fixed = {} /\ market = {2} =>
            \A x \in p : {x - y : y \in EffectivePrice(v, {0})} = {2 * (100 + Sum([r \in v.vat |-> r]))}
       /\ \A x \in p, total \in InvoicePreview(v, market, 3) : total >= 3 * x
=============================================================================
