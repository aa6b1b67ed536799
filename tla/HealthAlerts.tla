---------------------------- MODULE HealthAlerts ----------------------------
(***************************************************************************)
(* The incidents of one health rule on one subject: a worker evaluates the *)
(* rule once per window of five minutes, operators acknowledge and close.  *)
(*                                                                         *)
(* evaluate_station and feedback hold the lock of the station, so each is  *)
(* one action.  Time is the number of the current window; a window may be  *)
(* evaluated late, more than once, or never: the rule on commands has no   *)
(* finding for a command that is older than a day.                         *)
(***************************************************************************)
EXTENDS HealthRules

CONSTANTS
  MaxWindow,     \* bound: time
  MaxAlerts,     \* bound: incidents
  ShortCooldown, \* thirty minutes, in windows
  LongCooldown,  \* one day, in windows
  EvidenceAge    \* one day, in windows: how long an incident lives without evidence

ASSUME HealthAssumption ==
  /\ MaxWindow \in Nat \ {0} /\ MaxAlerts \in Nat
  /\ ShortCooldown \in Nat /\ LongCooldown \in Nat /\ EvidenceAge \in Nat

VARIABLES
  possible, \* the verdicts that the rule can reach, now and about the past
  window,   \* the time
  verdicts, \* HealthEvaluation rows, one per window
  alerts,   \* Alert rows, in order of creation; the last one is state.alert_id
  health    \* the HealthState row

healthVars == <<possible, window, verdicts, alerts, health>>

Windows == 1 .. MaxWindow
Open == {"active", "acknowledged", "resolving"}
Closed == {"resolved", "suppressed", "expired", "false_positive"}
Dismissed == {"suppressed", "false_positive"}

HealthInit ==
  /\ possible \in {[past \in BOOLEAN |-> VerdictsOf(rule, past)] : rule \in Rules}
  /\ window = 1
  /\ verdicts = [w \in Windows |-> "none"]
  /\ alerts = <<>>
  /\ health = [evaluated |-> 0, healthy |-> 0, cooldown |-> 0]

HasOpenAlert == alerts # <<>> /\ alerts[Len(alerts)].status \in Open

(* transition: the event log and the audit are left out.                   *)
Transitioned(alert, status) ==
  [alert EXCEPT !.status = status, !.ended = IF status \in Closed THEN window ELSE @]

Transition(status) == alerts' = [alerts EXCEPT ![Len(alerts)] = Transitioned(@, status)]

(***************************************************************************)
(* evaluate_station, by verdict                                            *)
(***************************************************************************)
Bad ==
  /\ health' = [health EXCEPT !.evaluated = window, !.healthy = 0]
  /\ IF HasOpenAlert
     THEN IF alerts[Len(alerts)].status = "resolving" THEN Transition("active")
                                                      ELSE UNCHANGED alerts
     ELSE IF window >= health.cooldown /\ Len(alerts) < MaxAlerts
     THEN alerts' = Append(alerts, [status |-> "active", created |-> window, ended |-> 0])
     ELSE UNCHANGED alerts

(* The last window that says something about the open incident.            *)
LastEvidence ==
  LET known == {w \in 1 .. window : verdicts[w] \notin {"none", "unknown"}}
  IN IF known = {} THEN alerts[Len(alerts)].created
     ELSE CHOOSE w \in known : \A x \in known : x <= w

Unknown ==
  IF ~HasOpenAlert
  THEN health' = [health EXCEPT !.evaluated = window] /\ UNCHANGED alerts
  ELSE /\ health' = [health EXCEPT !.evaluated = window, !.healthy = 0]
       /\ IF window - LastEvidence > EvidenceAge THEN Transition("expired") ELSE UNCHANGED alerts

HealthyWindows == IF health.evaluated = window - 1 THEN health.healthy + 1 ELSE 1

Healthy ==
  IF ~HasOpenAlert
  THEN health' = [health EXCEPT !.evaluated = window] /\ UNCHANGED alerts
  ELSE IF HealthyWindows >= 2
  THEN /\ health' = [evaluated |-> window, healthy |-> HealthyWindows,
                     cooldown |-> window + ShortCooldown]
       /\ Transition("resolved")
  ELSE /\ health' = [health EXCEPT !.evaluated = window, !.healthy = HealthyWindows]
       /\ Transition("resolving")

Recovering ==
  /\ health' = [health EXCEPT !.evaluated = window, !.healthy = IF HasOpenAlert THEN 0 ELSE @]
  /\ UNCHANGED alerts

(* A window that has a row, because it was evaluated before, is skipped.   *)
Evaluate(verdict) ==
  /\ verdict \in possible[FALSE]
  /\ verdicts[window] = "none"
  /\ verdicts' = [verdicts EXCEPT ![window] = verdict]
  /\ CASE verdict = "bad" -> Bad
       [] verdict = "unknown" -> Unknown
       [] verdict = "healthy" -> Healthy
       [] verdict = "recovering" -> Recovering
  /\ UNCHANGED <<possible, window>>

(* historical=True, for a window that is over: only the row.               *)
EvaluateHistory(w, verdict) ==
  /\ w < window
  /\ verdict \in possible[TRUE]
  /\ verdicts[w] = "none"
  /\ verdicts' = [verdicts EXCEPT ![w] = verdict]
  /\ UNCHANGED <<possible, window, alerts, health>>

(***************************************************************************)
(* feedback of an operator                                                 *)
(***************************************************************************)
(* Mutant: closing an incident by hand starts no cooldown.                 *)
KeepCooldown(action) == health.cooldown

CooldownAfter(action) ==
  IF action \in Dismissed THEN window + LongCooldown
  ELSE IF action = "resolved" THEN window + ShortCooldown
  ELSE health.cooldown

Feedback(action) ==
  /\ HasOpenAlert
  /\ alerts[Len(alerts)].status # action
  /\ Transition(action)
  /\ health' = [health EXCEPT !.cooldown = CooldownAfter(action)]
  /\ UNCHANGED <<possible, window, verdicts>>

WindowEnds ==
  /\ window < MaxWindow
  /\ window' = window + 1
  /\ UNCHANGED <<possible, verdicts, alerts, health>>

HealthNext ==
  \/ \E v \in Verdicts : Evaluate(v)
  \/ \E w \in Windows, v \in Verdicts : EvaluateHistory(w, v)
  \/ \E a \in {"acknowledged", "resolved"} \cup Dismissed : Feedback(a)
  \/ WindowEnds

HealthSpec == HealthInit /\ [][HealthNext]_healthVars

(***************************************************************************)
(* Properties                                                              *)
(***************************************************************************)
HealthTypeOK ==
  /\ possible \in [BOOLEAN -> SUBSET Verdicts]
  /\ window \in Windows
  /\ verdicts \in [Windows -> Verdicts \cup {"none"}]
  /\ \A i \in 1 .. Len(alerts) : alerts[i] \in [status : Open \cup Closed, created : Windows, ended : 0 .. MaxWindow]
  /\ health.evaluated \in 0 .. MaxWindow /\ health.healthy \in 0 .. 2
  /\ health.cooldown \in 0 .. MaxWindow + ShortCooldown + LongCooldown

QuietAfter(status) ==
  CASE status = "resolved" -> ShortCooldown
    [] status \in Dismissed -> LongCooldown
    [] OTHER -> 0

(* An incident never begins beside another one, nor within the cooldown    *)
(* that the end of an earlier one started, whoever ended it.               *)
IncidentsAreApart ==
  \A i, j \in 1 .. Len(alerts) : i < j =>
    /\ alerts[i].status \in Closed
    /\ alerts[i].ended + QuietAfter(alerts[i].status) <= alerts[j].created
=============================================================================
