---------------------------- MODULE Notifications ---------------------------
(***************************************************************************)
(* The outbox of notifications of one member on one channel: alert events  *)
(* become notices, notices are routed by the member's preferences into     *)
(* deliveries, deliveries are sent, deferred, retried or suppressed.       *)
(*                                                                         *)
(* A worker runs notifications_task: one transaction that materializes and *)
(* routes with the time it read at its start, then one transaction for     *)
(* each delivery.  The preferences are read when they are used, so the     *)
(* member may change them between any two steps.  A worker may die after   *)
(* the provider took the message and before its transaction commits.  A    *)
(* member who lost access counts as one who switched the channel off.      *)
(***************************************************************************)
EXTENDS Integers, FiniteSets

CONSTANTS
  Events,         \* alert events
  CriticalEvents, \* those of severity critical
  Escalating,     \* has the member set escalation_minutes
  Senders,        \* workers
  QuietHours,     \* instants in the member's quiet hours
  DigestHours,    \* instants at which a daily digest is due
  MaxTick,        \* bound: time
  MaxAttempts,    \* failures after which a delivery is given up
  MaxDeaths       \* bound: workers that die while they send

ASSUME NotificationAssumption ==
  /\ CriticalEvents \subseteq Events /\ Escalating \in BOOLEAN
  /\ MaxTick \in Nat /\ MaxAttempts \in Nat \ {0} /\ MaxDeaths \in Nat
  /\ QuietHours \subseteq Nat /\ DigestHours \subseteq 0 .. MaxTick

VARIABLES
  tick,       \* the time
  notices,    \* Notification rows: "none", "new", "routed" or "silent" (routed while off)
  incident,   \* is the alert of an event still active
  mode,       \* what the member chose for the channel
  deliveries, \* NotificationDelivery rows, by dedupe_key
  sender,     \* what a worker is doing
  deaths

notificationVars == <<tick, notices, incident, mode, deliveries, sender, deaths>>

Modes == {"off", "immediate", "daily"}
Ticks == 0 .. MaxTick
Later == MaxTick + 1   \* beyond the bound
Keys == [kind : {"notice"}, of : Events] \cup [kind : {"escalation"}, of : CriticalEvents]
        \cup [kind : {"digest"}, of : DigestHours \cup {Later}]

NoDelivery == [status |-> "none", notices |-> {}, due |-> 0, attempts |-> 0]
Resting == [step |-> "rest", now |-> 0, key |-> CHOOSE k \in Keys : TRUE]

NotificationInit ==
  /\ tick = 0
  /\ notices = [e \in Events |-> "none"]
  /\ incident = [e \in Events |-> TRUE]
  /\ mode \in Modes
  /\ deliveries = [k \in Keys |-> NoDelivery]
  /\ sender = [w \in Senders |-> Resting]
  /\ deaths = 0

Earliest(hours) ==
  IF hours = {} THEN Later ELSE CHOOSE h \in hours : \A g \in hours : h <= g

(* quiet and delivery_time: a critical notice does not wait.               *)
DeliveryTime(at, m, critical) ==
  IF m = "immediate" /\ (critical \/ at \notin QuietHours) THEN at
  ELSE IF m = "immediate" THEN Earliest({h \in Ticks : h > at /\ h \notin QuietHours})
  ELSE Earliest({h \in DigestHours : h > at /\ h \notin QuietHours})

(***************************************************************************)
(* materialize and route_pending                                           *)
(***************************************************************************)
StartTask(w) ==
  /\ sender[w].step = "rest"
  /\ sender' = [sender EXCEPT ![w] = [@ EXCEPT !.step = "route", !.now = tick]]
  /\ UNCHANGED <<tick, notices, incident, mode, deliveries, deaths>>

EventHappens(e) ==
  /\ notices[e] = "none"
  /\ notices' = [notices EXCEPT ![e] = "new"]
  /\ UNCHANGED <<tick, incident, mode, deliveries, sender, deaths>>

KeyOf(e, m, due) ==
  IF m = "daily" THEN [kind |-> "digest", of |-> due] ELSE [kind |-> "notice", of |-> e]

(* Mutant: a digest that exists is left as it is.                          *)
FirstOnly(delivery, ids) == delivery.notices

(* _enqueue: the notices of a pending delivery grow.                       *)
Merged(delivery, ids) ==
  IF delivery.status = "pending" THEN delivery.notices \cup ids ELSE delivery.notices

Enqueued(delivery, ids, due) ==
  IF delivery.status = "none"
  THEN [status |-> "pending", notices |-> ids, due |-> due, attempts |-> 0]
  ELSE [delivery EXCEPT !.notices = Merged(delivery, ids)]

Escalates(e) ==
  /\ mode # "off" /\ Escalating
  /\ e \in CriticalEvents /\ incident[e]

Route(w) ==
  LET new == {e \in Events : notices[e] = "new"}
      due(e) == DeliveryTime(sender[w].now, mode, e \in CriticalEvents)
      into(k) == {e \in new : KeyOf(e, mode, due(e)) = k}
      raised(k) == {e \in new : k = [kind |-> "escalation", of |-> e] /\ Escalates(e)}
  IN
  /\ sender[w].step = "route"
  /\ notices' = [e \in Events |-> IF e \notin new THEN notices[e]
                                  ELSE IF mode = "off" THEN "silent" ELSE "routed"]
  /\ deliveries' = [k \in Keys |->
       IF into(k) # {} /\ mode = "off"
       THEN [NoDelivery EXCEPT !.status = "suppressed", !.notices = into(k)]
       ELSE IF into(k) # {}
       THEN Enqueued(deliveries[k], into(k), due(CHOOSE e \in into(k) : TRUE))
       ELSE IF raised(k) # {} THEN Enqueued(deliveries[k], raised(k), sender[w].now + 1)
       ELSE deliveries[k]]
  /\ sender' = [sender EXCEPT ![w] = [Resting EXCEPT !.step = "deliver"]]
  /\ UNCHANGED <<tick, incident, mode, deaths>>

(***************************************************************************)
(* deliver_one                                                             *)
(***************************************************************************)
Locked == {sender[w].key : w \in {x \in Senders : sender[x].step = "send"}}
DueNow == {k \in Keys \ Locked : deliveries[k].status = "pending" /\ deliveries[k].due <= tick}

(* The notices that the mode and the incident still let through.           *)
Eligible(k) ==
  IF mode = "off" THEN {}
  ELSE IF k.kind = "escalation" THEN {e \in deliveries[k].notices : incident[e]}
  ELSE deliveries[k].notices

SuppressedNow(k) == Eligible(k) = {}

(* Quiet hours defer what is not critical and immediate.                   *)
Deferred(k) ==
  /\ tick \in QuietHours
  /\ ~(mode = "immediate" /\ Eligible(k) \cap CriticalEvents # {})

(* What is neither sent nor kept waiting is settled in one transaction.    *)
SetAside(w, k) ==
  /\ sender[w].step = "deliver"
  /\ k \in DueNow
  /\ \/ /\ SuppressedNow(k)
        /\ deliveries' = [deliveries EXCEPT ![k].status = "suppressed"]
     \/ /\ ~SuppressedNow(k) /\ Deferred(k)
        /\ deliveries' = [deliveries EXCEPT ![k].due = DeliveryTime(tick, "immediate", FALSE)]
  /\ UNCHANGED <<tick, notices, incident, mode, sender, deaths>>

Send(w, k) ==
  /\ sender[w].step = "deliver"
  /\ k \in DueNow
  /\ ~SuppressedNow(k) /\ ~Deferred(k)
  /\ sender' = [sender EXCEPT ![w] = [@ EXCEPT !.step = "send", !.key = k]]
  /\ UNCHANGED <<tick, notices, incident, mode, deliveries, deaths>>

(* Mutant: the attempts are not counted against the limit.                 *)
AlwaysAgain(delivery) ==
  [delivery EXCEPT !.attempts = @ + 1, !.due = IF tick < MaxTick THEN tick + 1 ELSE MaxTick]

(* The provider refused, or did not answer; the delay doubles each time.   *)
Failed(delivery) ==
  LET attempts == delivery.attempts + 1 IN
  [delivery EXCEPT !.attempts = attempts,
                   !.due = IF tick < MaxTick THEN tick + 1 ELSE MaxTick,
                   !.status = IF attempts >= MaxAttempts THEN "failed" ELSE "pending"]

Sent(delivery) == [delivery EXCEPT !.status = "delivered", !.attempts = @ + 1]

EndSend(w, accepted) ==
  LET k == sender[w].key IN
  /\ sender[w].step = "send"
  /\ deliveries' = [deliveries EXCEPT ![k] =
       IF accepted THEN Sent(@) ELSE Failed(@)]
  /\ sender' = [sender EXCEPT ![w] = [Resting EXCEPT !.step = "deliver"]]
  /\ UNCHANGED <<tick, notices, incident, mode, deaths>>

(* The transaction is rolled back, the message may have arrived.           *)
SenderDies(w) ==
  /\ sender[w].step = "send"
  /\ deaths < MaxDeaths
  /\ deaths' = deaths + 1
  /\ sender' = [sender EXCEPT ![w] = Resting]
  /\ UNCHANGED <<tick, notices, incident, mode, deliveries>>

EndTask(w) ==
  /\ sender[w].step = "deliver"
  /\ DueNow = {}
  /\ sender' = [sender EXCEPT ![w] = Resting]
  /\ UNCHANGED <<tick, notices, incident, mode, deliveries, deaths>>

(***************************************************************************)
(* The member, the incident and the time                                   *)
(***************************************************************************)
ChangeMode(m) ==
  /\ mode' = m
  /\ UNCHANGED <<tick, notices, incident, deliveries, sender, deaths>>

(* Only the escalation of a critical incident looks at it.                 *)
IncidentEnds(e) ==
  /\ e \in CriticalEvents
  /\ notices[e] # "none" /\ incident[e]
  /\ incident' = [incident EXCEPT ![e] = FALSE]
  /\ UNCHANGED <<tick, notices, mode, deliveries, sender, deaths>>

TickPasses ==
  /\ tick < MaxTick
  /\ tick' = tick + 1
  /\ UNCHANGED <<notices, incident, mode, deliveries, sender, deaths>>

Deliver(w) == (\E k \in Keys : SetAside(w, k) \/ Send(w, k)) \/ \E ok \in BOOLEAN : EndSend(w, ok)

NotificationNext ==
  \/ \E w \in Senders : StartTask(w) \/ Route(w) \/ Deliver(w) \/ SenderDies(w) \/ EndTask(w)
  \/ \E e \in Events : EventHappens(e) \/ IncidentEnds(e)
  \/ \E m \in Modes : ChangeMode(m)
  \/ TickPasses

NotificationSpec == NotificationInit /\ [][NotificationNext]_notificationVars

(***************************************************************************)
(* Properties                                                              *)
(***************************************************************************)
NotificationTypeOK ==
  /\ tick \in Ticks /\ deaths \in 0 .. MaxDeaths
  /\ notices \in [Events -> {"none", "new", "routed", "silent"}]
  /\ incident \in [Events -> BOOLEAN]
  /\ mode \in Modes
  /\ \A k \in Keys : deliveries[k] \in
       [status : {"none", "pending", "delivered", "failed", "suppressed"}, notices : SUBSET Events,
        due : Ticks \cup {Later}, attempts : 0 .. MaxAttempts]
  /\ sender \in [Senders -> [step : {"rest", "route", "deliver", "send"}, now : Ticks, key : Keys]]

(* A notice that was routed while its channel was on is in a delivery,     *)
(* alone or in the digest that was waiting: routed_at is set once, so a    *)
(* notice that is missed there is never sent.                              *)
RoutedIsCarried ==
  \A e \in Events : notices[e] = "routed" =>
    \E k \in Keys : k.kind # "escalation" /\ e \in deliveries[k].notices
=============================================================================
