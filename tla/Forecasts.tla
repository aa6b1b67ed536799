------------------------------ MODULE Forecasts ------------------------------
(***************************************************************************)
(* What an optimization run plans with: weather fetched through a cache,   *)
(* the production forecast derived from it, the consumption forecast of    *)
(* the history, and what the run records of the quality of its inputs.     *)
(* Values are left out: an interval is known or not, and real, synthetic   *)
(* or estimated.  Prices, the history and the battery's last sample belong *)
(* to other components and are inputs here.                                *)
(***************************************************************************)
EXTENDS Naturals, FiniteSets, FiniteSetsExt

CONSTANTS
  Intervals,      (* intervals of a plan *)
  HourLen,        (* intervals of a row of the weather source *)
  LastPlanned,   (* bound on time *)
  MaxIssues       (* bound on forecasts issued *)

ASSUME ForecastsAssumption ==
  /\ Intervals \in Nat \ {0} /\ HourLen \in Nat \ {0}
  /\ {LastPlanned, MaxIssues} \subseteq Nat

VARIABLES
  interval,   (* the interval under way *)
  place,       (* the station: its mode, coordinates and configuration *)
  payload,    (* the cached answer of the weather source *)
  batches,    (* newest committed weather, production and consumption forecasts *)
  published,  (* the newest plan and what its run recorded *)
  issues      (* forecasts issued so far; orders issued_at *)

forecastVars == <<interval, place, payload, batches, published, issues>>

SourceHours == 0..((LastPlanned + Intervals) \div HourLen)
HourOf(t) == t \div HourLen

NotIssued == [issued |-> 0]
NoPlan == [status |-> "none"]
NoPayload == [usable |-> {}, synthetic |-> TRUE]

ForecastsInit ==
  /\ interval = 0
  /\ place \in [live : {FALSE}, located : BOOLEAN, configured : {"no"}]
  /\ payload = NoPayload
  /\ batches = [weather |-> NotIssued, pv |-> NotIssued, load |-> NotIssued]
  /\ published = NoPlan /\ issues = 0

-----------------------------------------------------------------------------
(* The forecasts *)

(* What one call of the source may give: hours with usable irradiance.     *)
Answers == {NoPayload, [usable |-> SourceHours, synthetic |-> TRUE]}
             \cup [usable : {SourceHours, {0}}, synthetic : {FALSE}]

(* The cache is asked first; the source may be down or over its limit.     *)
Fetched(answer) == IF payload = NoPayload THEN answer ELSE payload

(* refresh_weather: nothing is stored without coordinates or an answer.    *)
Weather(b, stamp, fetched) ==
  IF ~place.located \/ fetched = NoPayload THEN b
  ELSE [b EXCEPT !.weather = [issued |-> stamp, usable |-> fetched.usable,
                              synthetic |-> fetched.synthetic]]

(* generate_pv_forecast: from the newest weather; what is synthetic stays so. *)
Production(b, stamp) ==
  IF ~place.located \/ place.configured = "no" \/ b.weather = NotIssued \/ b.weather.usable = {}
  THEN b
  ELSE [b EXCEPT !.pv = [issued |-> stamp, usable |-> b.weather.usable,
                         synthetic |-> b.weather.synthetic]]

(* Qualities that the hours of a station's history may have; what is stale *)
(* or derived counts as what is simulated.                                 *)
Histories == SUBSET {"measured", "simulated"}

(* generate_consumption_forecast: a live station uses measured hours only. *)
Consumption(b, stamp, history, from, aligned) ==
  LET used == IF place.live THEN history \cap {"measured"} ELSE history
  IN IF used = {} THEN b
     ELSE [b EXCEPT !.load = [issued |-> stamp, from |-> from, aligned |-> aligned,
                              trusted |-> used = {"measured"}]]

(* The three forecasts in turn; one that fails leaves those made before it. *)
Refreshed(stamp, fetched, history, from, aligned) ==
  Consumption(Production(Weather(batches, stamp, fetched), stamp), stamp, history, from, aligned)

(* weather_and_forecast_task: its consumption forecast starts now, between *)
(* the boundaries that the optimizer looks intervals up by.                *)
RefreshForecasts(answer, history) ==
  LET stamp == issues + 1
      fetched == Fetched(answer)
      b == Refreshed(stamp, fetched, history, interval, FALSE)
  IN /\ issues < MaxIssues
     /\ batches' = b /\ issues' = stamp
     /\ payload' = IF place.located THEN fetched ELSE payload
     /\ UNCHANGED <<interval, place, published>>

CacheExpires ==
  /\ payload # NoPayload /\ payload' = NoPayload
  /\ UNCHANGED <<interval, place, batches, published, issues>>

-----------------------------------------------------------------------------
(* The inputs of a run that starts in the interval under way *)

PlanIntervals == (interval + 1)..(interval + Intervals)

PvKnown(b, t) == b.pv # NotIssued /\ HourOf(t) \in b.pv.usable /\ ~b.pv.synthetic

(* Rows are found by the moment they start.                                *)
LoadKnown(b, t) ==
  b.load # NotIssued /\ b.load.aligned /\ b.load.trusted
    /\ t \in b.load.from..(b.load.from + Intervals - 1)

(* Intervals with an import price: a fixed tariff has one for all, an      *)
(* indexed one where the market's is current and no fixture.               *)
Priced == {{}, {interval + 1}, PlanIntervals}

(* _current_soc_kwh: the newest sample that has a state of charge is fresh *)
(* and measured, or one of stale, simulated, derived and missing.          *)
SocQualities == {"measured", "stale"}

Label(known) == IF known THEN "real" ELSE "estimated"

Recorded(b, priced) ==
  [pv |-> [t \in PlanIntervals |-> Label(PvKnown(b, t))],
   load |-> [t \in PlanIntervals |-> Label(LoadKnown(b, t))],
   price |-> [t \in PlanIntervals |-> Label(t \in priced)]]

(* The conservative plan and why, in the order of the code's checks.       *)
Refusal(b, priced, soc, termination) ==
  CASE place.configured = "no" -> "unconfigured"
    [] place.configured = "inverted_band" -> "infeasible"
    [] \A t \in PlanIntervals : ~PvKnown(b, t) /\ ~LoadKnown(b, t) -> "no_forecast"
    [] priced = {} -> "no_tariff"
    [] place.live /\ soc # "measured" -> "soc"
    [] OTHER -> termination

RunStatus(refusal) ==
  CASE refusal = "optimal" -> "succeeded"
    [] refusal \in {"infeasible", "solver_timeout"} -> refusal
    [] OTHER -> "fallback"

-----------------------------------------------------------------------------
(* run_optimization_for_station: the locks of the station let one run at a *)
(* time through, up to its commit; an exception that escapes leaves        *)
(* nothing behind.                                                         *)
RunOptimization(answer, history, priced, soc, termination) ==
  LET stamp == issues + 1
      prepared == place.configured = "valid"
      fetched == IF prepared /\ place.located THEN Fetched(answer) ELSE payload
      b == IF prepared THEN Refreshed(stamp, fetched, history, interval + 1, TRUE) ELSE batches
      refusal == Refusal(b, priced, soc, termination)
  IN /\ issues < MaxIssues
     /\ payload' = fetched /\ issues' = stamp /\ batches' = b
     /\ published' = [status |-> RunStatus(refusal), soc |-> soc,
                      quality |-> IF refusal = "optimal" THEN Recorded(b, priced) ELSE <<>>]
     /\ UNCHANGED <<interval, place>>

-----------------------------------------------------------------------------
(* What changes around it *)

TimePasses ==
  /\ interval < LastPlanned /\ interval' = interval + 1
  /\ UNCHANGED <<place, payload, batches, published, issues>>

EditSite(s) ==
  /\ s # place /\ s.located = place.located
  /\ place.configured # "no" => s.configured # "no"
  /\ place' = s
  /\ UNCHANGED <<interval, payload, batches, published, issues>>

SiteStates == [live : BOOLEAN, located : BOOLEAN, configured : {"no", "inverted_band", "valid"}]

ForecastsNext ==
  \/ TimePasses
  \/ \E answer \in Answers, history \in Histories : RefreshForecasts(answer, history)
  \/ CacheExpires
  \/ \E answer \in Answers, history \in Histories, priced \in Priced,
        soc \in SocQualities, termination \in {"optimal", "infeasible", "solver_timeout", "error"} :
       RunOptimization(answer, history, priced, soc, termination)
  \/ \E s \in SiteStates : EditSite(s)

ForecastsSpec == ForecastsInit /\ [][ForecastsNext]_forecastVars

-----------------------------------------------------------------------------
IssueType == [issued : {0}] \cup
  [issued : 1..MaxIssues, usable : SUBSET SourceHours, synthetic : BOOLEAN]

(* Every variable has its type; a plan that did not succeed records no     *)
(* inputs.                                                                 *)
ForecastsTypeOK ==
  /\ interval \in 0..LastPlanned /\ place \in SiteStates
  /\ payload \in Answers /\ issues \in 0..MaxIssues
  /\ batches.weather \in IssueType /\ batches.pv \in IssueType
  /\ batches.load = NotIssued \/ batches.load \in
       [issued : 1..MaxIssues, from : 0..(LastPlanned + 1), aligned : BOOLEAN, trusted : BOOLEAN]
  /\ published.status \in {"none", "succeeded", "fallback", "infeasible", "solver_timeout"}
  /\ published # NoPlan => (published.status = "succeeded" <=> published.quality # <<>>)

(* policy_check, as the approval of a plan calls it.                       *)
TrustedInputs(p) ==
  /\ p.soc = "measured" /\ p.quality # <<>>
  /\ \A k \in DOMAIN p.quality : \A t \in DOMAIN p.quality[k] : p.quality[k][t] = "measured"

Complete(p) ==
  /\ p.status = "succeeded" /\ p.soc = "measured"
  /\ \A k \in DOMAIN p.quality : \A t \in DOMAIN p.quality[k] : p.quality[k][t] = "real"

(* docs/ENERGY_OPERATIONS.md asks for complete trustworthy forecast inputs *)
(* before a plan executes: a plan whose run found every input measured or  *)
(* real should not be refused for its inputs.                              *)
CompleteInputsAreTrusted == Complete(published) => TrustedInputs(published)
=============================================================================
