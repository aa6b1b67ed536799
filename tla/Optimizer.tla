------------------------------ MODULE Optimizer ------------------------------
(***************************************************************************)
(* The battery under plans that are replaced as the horizon recedes: what  *)
(* a solution of the optimization model may be, the limits and discharge   *)
(* budgets it keeps, and what the battery does under the newest plan.      *)
(* Power and energy are whole units per interval; the objective only       *)
(* chooses among the solutions, so any of them may be the optimum.         *)
(***************************************************************************)
EXTENDS Integers, FiniteSets, FiniteSetsExt

CONSTANTS
  Horizon,           (* intervals of a plan *)
  LastInterval,      (* bound on time *)
  DayLength,         (* intervals of a day of the station's calendar *)
  DayOffset,         (* intervals between local midnight and that of UTC *)
  MonthLength,       (* days of a month *)
  DayBudget,         (* max_efc_per_day times the reference capacity *)
  MonthBudget,       (* max_efc_per_month times the reference capacity *)
  Capacity, MaxCharge, MaxDischarge, ChargeGain, DischargeCost,
  InverterPower, ImportLimit, ExportLimit, EvPower,
  GridCharge, BatteryExport,  (* allow_grid_charge, allow_battery_export *)
  Forecasted,        (* forecast powers, of production and of consumption *)
  MaxLag             (* intervals by which aggregation may be behind *)

ASSUME OptimizerAssumption ==
  /\ {Horizon, DayLength, MonthLength, ChargeGain, DischargeCost} \subseteq Nat \ {0}
  /\ {LastInterval, DayOffset, DayBudget, MonthBudget, Capacity, MaxCharge, MaxDischarge,
      InverterPower, ImportLimit, ExportLimit, EvPower, MaxLag} \subseteq Nat
  /\ Forecasted \subseteq Nat /\ {GridCharge, BatteryExport} \subseteq BOOLEAN

VARIABLES
  running,      (* the interval under way *)
  battery,      (* energy in the battery *)
  discharged,   (* energy discharged in each interval that is over *)
  aggregated,   (* intervals before this one are in the hourly aggregates *)
  target        (* battery_power_target of the newest plan, by interval *)

optimizerVars == <<running, battery, discharged, aggregated, target>>

Day(t) == (t + DayOffset) \div DayLength
Month(t) == Day(t) \div MonthLength

Total(f, S) == FoldSet(LAMBDA t, sum : f[t] + sum, 0, S)

OptimizerInit ==
  /\ running = 0 /\ battery \in 0..Capacity
  /\ discharged = [t \in {} |-> 0] /\ aggregated = 0
  /\ target = [t \in {} |-> 0]

-----------------------------------------------------------------------------
(* The model that is solved *)

Planned == (running + 1)..(running + Horizon)

Most(a, b) == IF a > b THEN a ELSE b

(* Mutant: the budget of a day is the nominal one, whatever was used.      *)
UsedNothing(unit, t) == 0

(* get_efc_used: what the aggregates hold of the local day or month of t,  *)
(* up to the start of the horizon.                                         *)
Used(unit, t) ==
  LET Of(s) == IF unit = "day" THEN Day(s) ELSE Month(s)
  IN Total(discharged, {s \in DOMAIN discharged : s < aggregated /\ Of(s) = Of(t)})

WithinBudgets(power) ==
  LET discharge == [t \in Planned |-> Most(-power[t], 0)]
  IN /\ \A d \in {Day(t) : t \in Planned} :
          LET group == {t \in Planned : Day(t) = d}
          IN Total(discharge, group) <= Most(DayBudget - Used("day", Min(group)), 0)
     /\ Total(discharge, Planned) <= Most(MonthBudget - Used("month", running + 1), 0)

(* Battery and grid flow one way at a time; production may be curtailed    *)
(* and the car charged within their limits.                                *)
Balanced(power, pv, load) ==
  \E curtailed \in 0..pv, ev \in 0..EvPower :
    LET produced == pv - curtailed
        grid == load + ev + power - produced
    IN /\ -ExportLimit <= grid /\ grid <= ImportLimit
       /\ produced + Most(-power, 0) <= InverterPower
       /\ ~GridCharge => power <= produced
       /\ ~BatteryExport => -power <= load + ev

(* Battery powers that some forecast of an interval allows.                *)
Powers == {power \in (-MaxDischarge)..MaxCharge :
             \E pv, load \in Forecasted : Balanced(power, pv, load)}

Stored(power) == ChargeGain * Most(power, 0) - DischargeCost * Most(-power, 0)

WithinCapacity(power) ==
  \A t \in Planned :
    battery + Total([s \in Planned |-> Stored(power[s])], (running + 1)..t) \in 0..Capacity

Solutions == {power \in [Planned -> Powers] : WithinCapacity(power) /\ WithinBudgets(power)}

-----------------------------------------------------------------------------
(* Steps *)

(* _solve and _publish_plan: the newest plan replaces the one before it,   *)
(* except for the interval under way, whose command is with the device.    *)
Replan(power) ==
  /\ target' = [t \in Planned \cup (DOMAIN target \cap {running}) |->
                  IF t = running THEN target[t] ELSE power[t]]
  /\ UNCHANGED <<running, battery, discharged, aggregated>>

Optimize == \E power \in Solutions : Replan(power)

(* The battery rests when there is no solution or no input to solve with.  *)
FallBack == Replan([t \in Planned |-> 0])

(* External: the device does what the plan says as far as the battery can. *)
Delivered(t) ==
  LET power == IF t \in DOMAIN target THEN target[t] ELSE 0
  IN IF power < 0 THEN -Min({-power, battery \div DischargeCost}) ELSE power

IntervalEnds ==
  LET power == Delivered(running)
  IN /\ running < LastInterval /\ running + 1 - aggregated <= MaxLag
     /\ running' = running + 1
     /\ battery' = Min({Capacity, battery + Stored(power)})
     /\ discharged' = [t \in DOMAIN discharged \cup {running} |->
                         IF t = running THEN Most(-power, 0) ELSE discharged[t]]
     /\ UNCHANGED <<aggregated, target>>

Aggregate ==
  /\ aggregated < running /\ aggregated' = running
  /\ UNCHANGED <<running, battery, discharged, target>>

OptimizerNext == Optimize \/ FallBack \/ IntervalEnds \/ Aggregate

OptimizerSpec == OptimizerInit /\ [][OptimizerNext]_optimizerVars

-----------------------------------------------------------------------------
OptimizerTypeOK ==
  /\ running \in 0..LastInterval /\ aggregated \in 0..running
  /\ battery \in 0..Capacity
  /\ discharged \in [0..(running - 1) -> 0..MaxDischarge]
  /\ DOMAIN target \subseteq Nat
  /\ \A t \in DOMAIN target : target[t] \in (-MaxDischarge)..MaxCharge

(* Plans replace each other every few minutes, each made without knowing   *)
(* what the battery does in the interval under way and in those the        *)
(* aggregates miss: together they spend no more than that over the budget  *)
(* of a day and of a month of the station's own calendar.                  *)
BudgetsHold ==
  LET Slack == (MaxLag + 1) * MaxDischarge
      Spent(S) == Total(discharged, S)
  IN /\ \A d \in {Day(t) : t \in DOMAIN discharged} :
          Spent({t \in DOMAIN discharged : Day(t) = d}) <= DayBudget + Slack
     /\ \A m \in {Month(t) : t \in DOMAIN discharged} :
          Spent({t \in DOMAIN discharged : Month(t) = m}) <= MonthBudget + Slack
=============================================================================
