---------------------------- MODULE Members_proofs ----------------------------
(***************************************************************************)
(* Proofs about the members of an organization and what reaches them:      *)
(* notices of alert events, the incidents of a health rule, the sessions   *)
(* of the mobile application, the accounts and their invitations, the jobs *)
(* an administrator starts.  The components share no state; each section   *)
(* is about one of them.                                                   *)
(***************************************************************************)
EXTENDS Notifications, HealthAlerts, MobileSessions, Accounts, AdminJobs,
        FiniteSetTheorems, WellFoundedInduction, TLAPS

(***************************************************************************)
(* The smallest of a set of numbers                                        *)
(***************************************************************************)
Earlier == {p \in Nat \X Nat : p[1] < p[2]}

LEMMA SmallestExists ==
  ASSUME NEW T, T \subseteq Nat, T # {}
  PROVE  \E x \in T : \A y \in T : x <= y
PROOF
<1>1. IsWellFoundedOn(Earlier, Nat)
  BY NatLessThanWellFounded DEF OpToRel, Earlier
<1>2. PICK x \in T : \A y \in T : ~(<<y, x>> \in Earlier)
  BY <1>1, WFMin
<1>3. ASSUME NEW y \in T, ~(x <= y) PROVE FALSE
  <2>1. x \in Nat /\ y \in Nat /\ y < x
    BY <1>3
  <2>2. <<y, x>> \in Nat \X Nat /\ <<y, x>>[1] = y /\ <<y, x>>[2] = x
    BY <2>1
  <2>3. <<y, x>> \in Earlier
    BY <2>1, <2>2 DEF Earlier
  <2>4. QED
    BY <1>2, <2>3
<1>4. QED
  BY <1>3

(***************************************************************************)
(* The outbox of notifications                                             *)
(***************************************************************************)
DeliveryStatus == {"none", "pending", "delivered", "failed", "suppressed"}
DeliveryType == [status : DeliveryStatus, notices : SUBSET Events, due : Nat, attempts : Nat]
Settled == {"delivered", "failed", "suppressed"}
SenderType == [step : {"rest", "route", "deliver", "send"}, now : Ticks, key : Keys]

OutboxShape ==
  /\ tick \in Ticks
  /\ notices \in [Events -> {"none", "new", "routed", "silent"}]
  /\ mode \in Modes
  /\ deliveries \in [Keys -> DeliveryType]
  /\ sender \in [Senders -> SenderType]
  /\ \A w \in Senders : sender[w].now <= tick

(* A delivery that is no row has no notices; the one of a single notice is *)
(* there once the notice was routed; a digest is not settled before it is  *)
(* due.                                                                    *)
DeliveryHolds(k) ==
  /\ deliveries[k].status = "none" => deliveries[k].notices = {}
  /\ k.kind = "notice" /\ deliveries[k].status # "none" => notices[k.of] \in {"routed", "silent"}
  /\ k.kind = "digest" /\ deliveries[k].status = "pending" => k.of <= deliveries[k].due
  /\ k.kind = "digest" /\ deliveries[k].status \in Settled => k.of <= tick

(* The digests that are settled were due before the task that routes       *)
(* began, and what is being sent was due.                                  *)
SenderHolds(w) ==
  /\ sender[w].step = "route" =>
       \A k \in Keys : k.kind = "digest" /\ deliveries[k].status \in Settled =>
         k.of <= sender[w].now
  /\ sender[w].step = "send" =>
       /\ deliveries[sender[w].key].status # "none"
       /\ sender[w].key.kind = "digest" => sender[w].key.of <= tick

OutboxInv ==
  /\ OutboxShape
  /\ RoutedIsCarried
  /\ \A k \in Keys : DeliveryHolds(k)
  /\ \A w \in Senders : SenderHolds(w)

LEMMA TickFacts ==
  /\ Ticks \subseteq Nat /\ Later \in Nat /\ \A t \in Ticks : t < Later
  /\ DigestHours \subseteq Nat
PROOF BY NotificationAssumption DEF Ticks, Later

LEMMA EarliestFacts ==
  ASSUME NEW hours \in SUBSET Nat
  PROVE  Earliest(hours) \in hours \cup {Later}
PROOF
<1>1. CASE hours = {}
  BY <1>1 DEF Earliest
<1>2. CASE hours # {}
  <2>1. \E h \in hours : \A g \in hours : h <= g
    BY <1>2, SmallestExists
  <2>2. QED
    BY <1>2, <2>1 DEF Earliest
<1>3. QED
  BY <1>1, <1>2

(* A delivery that waits is due later than the moment it was looked at.    *)
LEMMA DeliveryTimeFacts ==
  ASSUME NEW at \in Ticks, NEW m, NEW critical
  PROVE  /\ DeliveryTime(at, m, critical) \in Nat
         /\ m # "immediate" =>
              /\ DeliveryTime(at, m, critical) \in DigestHours \cup {Later}
              /\ DeliveryTime(at, m, critical) > at
         /\ DeliveryTime(at, m, FALSE) >= at
PROOF
<1> DEFINE quiet == {h \in Ticks : h > at /\ h \notin QuietHours}
           digests == {h \in DigestHours : h > at /\ h \notin QuietHours}
<1>1. quiet \in SUBSET Nat /\ digests \in SUBSET Nat
  BY TickFacts
<1>2. Earliest(quiet) \in quiet \cup {Later} /\ Earliest(digests) \in digests \cup {Later}
  <2> HIDE DEF quiet, digests
  <2> QED BY <1>1, EarliestFacts
<1>3. /\ Earliest(quiet) \in Nat /\ Earliest(quiet) > at
      /\ Earliest(digests) \in DigestHours \cup {Later} /\ Earliest(digests) > at
      /\ Earliest(digests) \in Nat
  BY <1>2, TickFacts
<1>4. /\ DeliveryTime(at, m, critical) \in {at, Earliest(quiet), Earliest(digests)}
      /\ m # "immediate" => DeliveryTime(at, m, critical) = Earliest(digests)
  BY DEF DeliveryTime
<1>5. DeliveryTime(at, m, FALSE) \in {at, Earliest(quiet), Earliest(digests)}
  BY DEF DeliveryTime
<1> HIDE DEF quiet, digests
<1>6. at \in Nat
  BY TickFacts
<1>7. DeliveryTime(at, m, critical) \in Nat
  BY <1>3, <1>4, <1>6
<1>9. m # "immediate" =>
        /\ DeliveryTime(at, m, critical) \in DigestHours \cup {Later}
        /\ DeliveryTime(at, m, critical) > at
  BY <1>3, <1>4
<1> DEFINE plain == DeliveryTime(at, m, FALSE)
<1>8. plain >= at
  <2>1. plain \in {at, Earliest(quiet), Earliest(digests)}
    BY <1>5
  <2> HIDE DEF plain
  <2>2. QED
    BY <1>3, <1>6, <2>1
<1>10. QED
  BY <1>7, <1>8, <1>9

LEMMA KeyFacts ==
  /\ \A e \in Events : [kind |-> "notice", of |-> e] \in Keys
  /\ \A d \in DigestHours \cup {Later} : [kind |-> "digest", of |-> d] \in Keys
  /\ \A k \in Keys : k.kind \in {"notice", "escalation", "digest"} /\ k = [kind |-> k.kind, of |-> k.of]
  /\ \A k \in Keys : k.kind = "notice" => k.of \in Events
  /\ \A k \in Keys : k.kind = "digest" => k.of \in Nat
  /\ Resting \in SenderType /\ Resting.step = "rest"
PROOF
<1>1. /\ \A e \in Events : [kind |-> "notice", of |-> e] \in Keys
      /\ \A d \in DigestHours \cup {Later} : [kind |-> "digest", of |-> d] \in Keys
  BY DEF Keys
<1>2. (CHOOSE k \in Keys : TRUE) \in Keys
  BY <1>1
<1>3. 0 \in Ticks
  BY NotificationAssumption DEF Ticks
<1>4. Resting \in SenderType /\ Resting.step = "rest"
  BY <1>2, <1>3 DEF Resting, SenderType
<1>5. ASSUME NEW k \in Keys
      PROVE  /\ k.kind \in {"notice", "escalation", "digest"} /\ k = [kind |-> k.kind, of |-> k.of]
             /\ k.kind = "notice" => k.of \in Events
             /\ k.kind = "digest" => k.of \in Nat
  <2>1. CASE k \in [kind : {"notice"}, of : Events]
    BY <2>1
  <2>2. CASE k \in [kind : {"escalation"}, of : CriticalEvents]
    BY <2>2
  <2>3. CASE k \in [kind : {"digest"}, of : DigestHours \cup {Later}]
    BY <2>3, TickFacts
  <2>4. QED
    BY <2>1, <2>2, <2>3 DEF Keys
<1>6. QED
  BY <1>1, <1>4, <1>5

LEMMA OutboxInitInv == NotificationInit => OutboxInv
PROOF
<1> SUFFICES ASSUME NotificationInit PROVE OutboxInv
  OBVIOUS
<1>1. 0 \in Ticks /\ Resting.now = 0
  BY NotificationAssumption DEF Ticks, Resting
<1>2. NoDelivery \in DeliveryType /\ NoDelivery.status = "none" /\ NoDelivery.notices = {}
  BY DEF NoDelivery, DeliveryType, DeliveryStatus
<1>3. OutboxShape
  BY <1>1, <1>2, KeyFacts DEF OutboxShape, NotificationInit
<1>4. RoutedIsCarried
  BY DEF NotificationInit, RoutedIsCarried
<1>5. \A k \in Keys : DeliveryHolds(k)
  BY <1>2 DEF NotificationInit, DeliveryHolds, Settled
<1>6. \A w \in Senders : SenderHolds(w)
  BY KeyFacts DEF NotificationInit, SenderHolds
<1>7. QED
  BY <1>3, <1>4, <1>5, <1>6 DEF OutboxInv

(* When the task of a worker would deliver the notice of an event, and the *)
(* delivery it routes it to.                                               *)
DueOf(w, e) == DeliveryTime(sender[w].now, mode, e \in CriticalEvents)
RouteKey(w, e) == KeyOf(e, mode, DueOf(w, e))
Unrouted == {e \in Events : notices[e] = "new"}
RoutedTo(w, k) == {e \in Unrouted : RouteKey(w, e) = k}
Raised(w, k) == {e \in Unrouted : k = [kind |-> "escalation", of |-> e] /\ Escalates(e)}

LEMMA DueFacts ==
  ASSUME OutboxInv, NEW w \in Senders, NEW e \in Events
  PROVE  /\ DueOf(w, e) \in Nat
         /\ mode = "daily" => DueOf(w, e) \in DigestHours \cup {Later} /\ DueOf(w, e) > sender[w].now
PROOF
<1>1. sender[w].now \in Ticks
  BY DEF OutboxInv, OutboxShape, SenderType
<1>2. PICK c : c = (e \in CriticalEvents)
  OBVIOUS
<1>3. DueOf(w, e) = DeliveryTime(sender[w].now, mode, c)
  BY <1>2, Zenon DEF DueOf
<1>4. QED
  BY <1>1, <1>3, DeliveryTimeFacts

LEMMA RouteKeyFacts ==
  ASSUME OutboxInv, NEW w \in Senders, NEW e \in Events
  PROVE  LET k == RouteKey(w, e) IN
         /\ k \in Keys
         /\ IF mode = "daily" THEN k.kind = "digest" /\ k.of = DueOf(w, e)
                              ELSE k.kind = "notice" /\ k.of = e
PROOF BY DueFacts, KeyFacts DEF RouteKey, KeyOf

LEMMA RouteWrites ==
  ASSUME NEW w \in Senders, Route(w), NEW k \in Keys
  PROVE  deliveries'[k] =
           IF RoutedTo(w, k) # {} /\ mode = "off"
           THEN [NoDelivery EXCEPT !.status = "suppressed", !.notices = RoutedTo(w, k)]
           ELSE IF RoutedTo(w, k) # {}
           THEN Enqueued(deliveries[k], RoutedTo(w, k), DueOf(w, CHOOSE e \in RoutedTo(w, k) : TRUE))
           ELSE IF Raised(w, k) # {} THEN Enqueued(deliveries[k], Raised(w, k), sender[w].now + 1)
           ELSE deliveries[k]
PROOF BY Zenon DEF Route, RoutedTo, Raised, RouteKey, DueOf, Unrouted

(* What routing does to one delivery: it keeps its notices, and takes in   *)
(* those that are routed to it.                                            *)
LEMMA RouteRow ==
  ASSUME OutboxInv, NEW w \in Senders, Route(w), NEW k \in Keys
  PROVE  /\ deliveries'[k] \in DeliveryType
         /\ DeliveryHolds(k)'
         /\ k.kind # "escalation" => deliveries[k].notices \subseteq deliveries'[k].notices
         /\ mode # "off" => RoutedTo(w, k) \subseteq deliveries'[k].notices
PROOF
<1> DEFINE into == RoutedTo(w, k)
           raised == Raised(w, k)
           row == deliveries[k]
<1>1. row \in DeliveryType /\ DeliveryHolds(k) /\ sender[w].now \in Nat
  BY TickFacts DEF OutboxInv, OutboxShape, SenderType
<1>2. into \in SUBSET Events /\ raised \in SUBSET Events
  BY DEF RoutedTo, Raised, Unrouted
<1>3. /\ UNCHANGED tick
      /\ \A e \in Events : notices'[e] = IF e \notin Unrouted THEN notices[e]
                                         ELSE IF mode = "off" THEN "silent" ELSE "routed"
      /\ \A e \in Unrouted : notices[e] = "new"
  BY DEF Route, Unrouted
<1>4. sender[w].step = "route"
  BY DEF Route
<1>5. \A e \in into : e \in Unrouted /\ e \in Events /\ RouteKey(w, e) = k
  BY DEF RoutedTo, Unrouted
<1>6. ASSUME k.kind = "notice", into # {} PROVE row.status = "none" /\ k.of \in Unrouted
  <2>1. PICK e \in into : TRUE
    BY <1>6
  <2>2. k.of = e
    BY <1>5, <1>6, <2>1, RouteKeyFacts
  <2>3. k.of \in Unrouted /\ notices[k.of] = "new"
    BY <1>3, <1>5, <2>1, <2>2
  <2>4. row.status = "none"
    BY <1>1, <1>6, <2>3 DEF DeliveryHolds
  <2>5. QED
    BY <2>3, <2>4
<1>7. ASSUME k.kind = "digest", into # {} PROVE row.status \in {"none", "pending"} /\ k.of > sender[w].now
  <2>1. PICK e \in into : TRUE
    BY <1>7
  <2>2. k.of > sender[w].now
    BY <1>5, <1>7, <2>1, RouteKeyFacts, DueFacts
  <2>3. row.status \notin Settled
    BY <1>1, <1>4, <1>7, <2>2, KeyFacts DEF OutboxInv, SenderHolds
  <2>4. QED
    BY <1>1, <2>2, <2>3 DEF DeliveryType, DeliveryStatus, Settled
<1>8. into # {} => k.kind \in {"notice", "digest"}
  BY <1>5, RouteKeyFacts
<1>9. deliveries'[k] =
        IF into # {} /\ mode = "off" THEN [NoDelivery EXCEPT !.status = "suppressed", !.notices = into]
        ELSE IF into # {} THEN Enqueued(row, into, DueOf(w, CHOOSE e \in into : TRUE))
        ELSE IF raised # {} THEN Enqueued(row, raised, sender[w].now + 1)
        ELSE row
  BY RouteWrites
<1>h. deliveries[k] = row
  OBVIOUS
<1> HIDE DEF into, raised, row
<1>10. CASE into # {} /\ mode = "off"
  <2>1. /\ deliveries'[k] = [status |-> "suppressed", notices |-> into, due |-> 0, attempts |-> 0]
    BY <1>9, <1>10 DEF NoDelivery
  <2>2. k.kind = "notice"
    <3>1. PICK e \in into : TRUE
      BY <1>10
    <3>2. QED
      BY <1>5, <1>10, <3>1, RouteKeyFacts
  <2>3. row.notices = {}
    BY <1>1, <1>6, <1>10, <2>2 DEF DeliveryHolds, row
  <2>4. notices'[k.of] = "silent"
    BY <1>3, <1>6, <1>10, <2>2 DEF Unrouted
  <2>5. deliveries'[k] \in DeliveryType
    BY <1>2, <2>1 DEF DeliveryType, DeliveryStatus
  <2>6. DeliveryHolds(k)'
    BY <2>1, <2>2, <2>4 DEF DeliveryHolds, row
  <2>7. QED
    BY <1>10, <2>3, <2>5, <2>6, <1>h DEF into
<1>11. CASE into # {} /\ mode # "off"
  <2> DEFINE x == CHOOSE e \in into : TRUE
             due == DueOf(w, x)
  <2>1. x \in into /\ x \in Events
    BY <1>2, <1>11
  <2>2. due \in Nat
    BY <2>1, DueFacts
  <2>3. k.kind = "digest" => due = k.of
    BY <1>5, <2>1, RouteKeyFacts
  <2>4. deliveries'[k] = Enqueued(row, into, due)
    BY <1>9, <1>11
  <2> HIDE DEF x, due
  <2>5. /\ deliveries'[k] \in DeliveryType
        /\ deliveries'[k].status = IF row.status = "none" THEN "pending" ELSE row.status
        /\ deliveries'[k].due = IF row.status = "none" THEN due ELSE row.due
        /\ deliveries'[k].notices = IF row.status = "none" THEN into
                                    ELSE IF row.status = "pending" THEN row.notices \cup into
                                    ELSE row.notices
    <3>1. \A r : r = Enqueued(row, into, due) =>
            /\ r \in DeliveryType
            /\ r.status = IF row.status = "none" THEN "pending" ELSE row.status
            /\ r.due = IF row.status = "none" THEN due ELSE row.due
            /\ r.notices = IF row.status = "none" THEN into
                           ELSE IF row.status = "pending" THEN row.notices \cup into
                           ELSE row.notices
      BY <1>1, <1>2, <2>2 DEF Enqueued, Merged, DeliveryType, DeliveryStatus
    <3>2. QED
      BY <2>4, <3>1
  <2>6. row.status \in {"none", "pending"} /\ deliveries'[k].status = "pending"
    BY <1>6, <1>7, <1>8, <1>11, <2>5
  <2>7. row.notices \subseteq deliveries'[k].notices /\ into \subseteq deliveries'[k].notices
    BY <1>1, <2>5, <2>6 DEF DeliveryHolds, row
  <2>8. k.kind = "notice" => notices'[k.of] = "routed"
    BY <1>3, <1>6, <1>11 DEF Unrouted
  <2>9. k.kind = "digest" => k.of <= deliveries'[k].due
    BY <1>1, <2>2, <2>3, <2>5, <2>6, <1>h, KeyFacts DEF DeliveryHolds, row
  <2>10. DeliveryHolds(k)'
    BY <2>6, <2>8, <2>9 DEF DeliveryHolds, row, Settled
  <2>11. QED
    BY <2>5, <2>7, <2>10, <1>h DEF into
<1>12. CASE into = {} /\ raised # {}
  <2>1. k.kind = "escalation"
    BY <1>12 DEF raised, Raised
  <2>2. /\ deliveries'[k] \in DeliveryType
        /\ deliveries'[k].status = IF row.status = "none" THEN "pending" ELSE row.status
    <3>1. sender[w].now + 1 \in Nat /\ deliveries'[k] = Enqueued(row, raised, sender[w].now + 1)
      BY <1>1, <1>9, <1>12
    <3>2. \A r, due : due \in Nat /\ r = Enqueued(row, raised, due) =>
            /\ r \in DeliveryType
            /\ r.status = IF row.status = "none" THEN "pending" ELSE row.status
      BY <1>1, <1>2 DEF Enqueued, Merged, DeliveryType, DeliveryStatus
    <3>3. QED
      BY <3>1, <3>2
  <2>3. DeliveryHolds(k)'
    BY <2>1, <2>2 DEF DeliveryHolds, row
  <2>4. RoutedTo(w, k) = {}
    BY <1>12 DEF into
  <2>5. QED
    BY <2>1, <2>2, <2>3, <2>4
<1>13. CASE into = {} /\ raised = {}
  <2>1. deliveries'[k] = row
    BY <1>9, <1>13
  <2>2. k.kind = "notice" /\ row.status # "none" => notices'[k.of] \in {"routed", "silent"}
    BY <1>1, <1>3, KeyFacts DEF DeliveryHolds, row
  <2>3. DeliveryHolds(k)'
    BY <1>1, <1>3, <2>1, <2>2 DEF DeliveryHolds, row
  <2>4. QED
    BY <1>1, <1>13, <2>1, <2>3, <1>h DEF into
<1>14. QED
  BY <1>10, <1>11, <1>12, <1>13

LEMMA OutboxRoutes ==
  ASSUME \A v, w \in Senders : v = w, OutboxInv, NEW w \in Senders, Route(w)
  PROVE  OutboxInv'
PROOF
<1>1. /\ sender' = [sender EXCEPT ![w] = [Resting EXCEPT !.step = "deliver"]]
      /\ notices' = [e \in Events |-> IF e \notin Unrouted THEN notices[e]
                                      ELSE IF mode = "off" THEN "silent" ELSE "routed"]
      /\ UNCHANGED <<tick, mode>>
  BY Zenon DEF Route, Unrouted
<1>d. DOMAIN deliveries' = Keys /\ deliveries' = [k \in Keys |-> deliveries'[k]]
  <2> DEFINE row(k) ==
        IF RoutedTo(w, k) # {} /\ mode = "off"
        THEN [NoDelivery EXCEPT !.status = "suppressed", !.notices = RoutedTo(w, k)]
        ELSE IF RoutedTo(w, k) # {}
        THEN Enqueued(deliveries[k], RoutedTo(w, k), DueOf(w, CHOOSE e \in RoutedTo(w, k) : TRUE))
        ELSE IF Raised(w, k) # {} THEN Enqueued(deliveries[k], Raised(w, k), sender[w].now + 1)
        ELSE deliveries[k]
  <2>1. deliveries' = [k \in Keys |-> row(k)]
    BY Zenon DEF Route, RoutedTo, Raised, RouteKey, DueOf, Unrouted
  <2> HIDE DEF row
  <2>2. QED
    BY <2>1
<1>2. /\ [Resting EXCEPT !.step = "deliver"] \in SenderType
      /\ [Resting EXCEPT !.step = "deliver"].step = "deliver"
      /\ [Resting EXCEPT !.step = "deliver"].now = 0
  BY KeyFacts DEF Resting, SenderType
<1>3. deliveries' \in [Keys -> DeliveryType]
  BY <1>d, RouteRow
<1>4. /\ sender' \in [Senders -> SenderType]
      /\ \A v \in Senders : sender'[v].step = "deliver" /\ sender'[v].now <= tick
  BY <1>1, <1>2, TickFacts DEF OutboxInv, OutboxShape
<1>5. notices' \in [Events -> {"none", "new", "routed", "silent"}]
  BY <1>1 DEF OutboxInv, OutboxShape
<1>6. OutboxShape'
  BY <1>1, <1>3, <1>4, <1>5 DEF OutboxInv, OutboxShape
<1>7. ASSUME NEW e \in Events, notices'[e] = "routed"
      PROVE  \E k \in Keys : k.kind # "escalation" /\ e \in deliveries'[k].notices
  <2>1. CASE e \in Unrouted
    <3>1. mode # "off"
      BY <1>1, <1>7, <2>1
    <3>2. RouteKey(w, e) \in Keys /\ RouteKey(w, e).kind # "escalation"
      BY RouteKeyFacts
    <3>3. e \in RoutedTo(w, RouteKey(w, e))
      BY <2>1 DEF RoutedTo
    <3>4. QED
      BY <3>1, <3>2, <3>3, RouteRow
  <2>2. CASE e \notin Unrouted
    <3>1. PICK k \in Keys : k.kind # "escalation" /\ e \in deliveries[k].notices
      BY <1>1, <1>7, <2>2 DEF OutboxInv, RoutedIsCarried
    <3>2. QED
      BY <3>1, RouteRow
  <2>3. QED
    BY <2>1, <2>2
<1>8. \A v \in Senders : SenderHolds(v)'
  BY <1>4 DEF SenderHolds
<1>9. QED
  BY <1>6, <1>7, <1>8, RouteRow DEF OutboxInv, RoutedIsCarried

(* A delivery that was due is settled, or waits further.                   *)
LEMMA OneDelivery ==
  ASSUME \A v, w \in Senders : v = w, OutboxInv, NEW w \in Senders,
         NEW k \in Keys, NEW r \in DeliveryType, deliveries' = [deliveries EXCEPT ![k] = r],
         deliveries[k].status # "none", r.status # "none", r.notices = deliveries[k].notices,
         k.kind = "digest" => k.of <= tick,
         k.kind = "digest" /\ r.status = "pending" => k.of <= r.due,
         sender' \in [Senders -> SenderType], sender'[w].step = "deliver", sender'[w].now <= tick,
         UNCHANGED <<tick, notices, mode>>
  PROVE  OutboxInv'
PROOF
<1>1. /\ deliveries'[k] = r /\ deliveries' \in [Keys -> DeliveryType]
      /\ \A l \in Keys \ {k} : deliveries'[l] = deliveries[l]
  BY DEF OutboxInv, OutboxShape
<1>2. \A v \in Senders : v = w
  OBVIOUS
<1>3. OutboxShape'
  BY <1>1, <1>2 DEF OutboxInv, OutboxShape
<1>4. RoutedIsCarried'
  <2>1. \A l \in Keys : deliveries'[l].notices = deliveries[l].notices
    BY <1>1
  <2>2. QED
    BY <2>1 DEF OutboxInv, RoutedIsCarried
<1>5. ASSUME NEW l \in Keys PROVE DeliveryHolds(l)'
  <2>1. DeliveryHolds(l)
    BY DEF OutboxInv
  <2>2. CASE l = k
    BY <1>1, <2>1, <2>2 DEF DeliveryHolds
  <2>3. CASE l # k
    BY <1>1, <2>1, <2>3 DEF DeliveryHolds
  <2>4. QED
    BY <2>2, <2>3
<1>6. \A v \in Senders : SenderHolds(v)'
  BY <1>2 DEF SenderHolds
<1>7. QED
  BY <1>3, <1>4, <1>5, <1>6 DEF OutboxInv

LEMMA OutboxDelivers ==
  ASSUME \A v, w \in Senders : v = w, OutboxInv, NEW w \in Senders, NEW k \in Keys, SetAside(w, k)
  PROVE  OutboxInv'
PROOF
<1> DEFINE row == deliveries[k]
<1>1. /\ row \in DeliveryType /\ row.status = "pending" /\ row.due <= tick /\ DeliveryHolds(k)
      /\ tick \in Nat /\ tick \in Ticks
  BY TickFacts DEF SetAside, DueNow, OutboxInv, OutboxShape
<1>2. k.kind = "digest" => k.of <= tick /\ k.of \in Nat
  <2>1. row.due \in Nat
    BY <1>1 DEF DeliveryType
  <2>2. QED
    BY <1>1, <2>1, KeyFacts DEF DeliveryHolds
<1>3. /\ sender[w].step = "deliver" /\ sender[w].now <= tick /\ sender \in [Senders -> SenderType]
      /\ UNCHANGED <<tick, notices, mode, sender>>
  BY DEF SetAside, OutboxInv, OutboxShape
<1>4. CASE deliveries' = [deliveries EXCEPT ![k].status = "suppressed"]
  <2>1. PICK r : r = [row EXCEPT !.status = "suppressed"]
    OBVIOUS
  <2>2. r \in DeliveryType /\ r.status = "suppressed" /\ r.notices = row.notices
    BY <1>1, <2>1 DEF DeliveryType, DeliveryStatus
  <2>3. deliveries' = [deliveries EXCEPT ![k] = r]
    BY <1>4, <2>1
  <2>4. QED
    BY <1>1, <1>2, <1>3, <2>2, <2>3, OneDelivery
<1>5. CASE deliveries' = [deliveries EXCEPT ![k].due = DeliveryTime(tick, "immediate", FALSE)]
  <2>1. PICK due : due = DeliveryTime(tick, "immediate", FALSE)
    OBVIOUS
  <2>2. due \in Nat /\ due >= tick
    BY <1>1, <2>1, DeliveryTimeFacts
  <2>3. PICK r : r = [row EXCEPT !.due = due]
    OBVIOUS
  <2>4. r \in DeliveryType /\ r.status = "pending" /\ r.notices = row.notices /\ r.due = due
    BY <1>1, <2>2, <2>3 DEF DeliveryType, DeliveryStatus
  <2>5. deliveries' = [deliveries EXCEPT ![k] = r]
    BY <1>5, <2>1, <2>3
  <2>6. k.kind = "digest" => k.of <= due
    BY <1>1, <1>2, <2>2
  <2>7. QED
    BY <1>1, <1>2, <1>3, <2>4, <2>5, <2>6, OneDelivery
<1>6. QED
  BY <1>4, <1>5 DEF SetAside

LEMMA OutboxSent ==
  ASSUME \A v, w \in Senders : v = w, OutboxInv, NEW w \in Senders, NEW accepted \in BOOLEAN,
         EndSend(w, accepted)
  PROVE  OutboxInv'
PROOF
<1> DEFINE k == sender[w].key
           row == deliveries[k]
           due == IF tick < MaxTick THEN tick + 1 ELSE MaxTick
<1>1. k \in Keys /\ row \in DeliveryType /\ tick \in Nat /\ tick <= MaxTick /\ SenderHolds(w)
  BY NotificationAssumption DEF OutboxInv, OutboxShape, SenderType, Ticks
<1>2. row.status # "none" /\ (k.kind = "digest" => k.of <= tick /\ k.of \in Nat)
  BY <1>1, KeyFacts DEF EndSend, SenderHolds
<1>3. PICK r : deliveries' = [deliveries EXCEPT ![k] = r] /\ (r = Sent(row) \/ r = Failed(row))
  <2>1. deliveries' = [deliveries EXCEPT ![k] = IF accepted THEN Sent(row) ELSE Failed(row)]
    BY DEF EndSend
  <2>2. QED
    BY <2>1
<1>4. due \in Nat /\ (k.kind = "digest" => k.of <= due)
  BY <1>1, <1>2, NotificationAssumption
<1>5. /\ r \in DeliveryType /\ r.status # "none" /\ r.notices = row.notices
      /\ r.status = "pending" => r.due = due
  <2> HIDE DEF due, row
  <2>1. \A n \in Nat : [row EXCEPT !.status = "delivered", !.attempts = n] \in DeliveryType
    BY <1>1 DEF DeliveryType, DeliveryStatus
  <2>2. row.attempts + 1 \in Nat
    BY <1>1 DEF DeliveryType
  <2>3. CASE r = Sent(row)
    <3>1. r = [row EXCEPT !.status = "delivered", !.attempts = row.attempts + 1]
      BY <1>1, <2>3 DEF Sent, DeliveryType
    <3>2. QED
      BY <1>1, <2>1, <2>2, <3>1 DEF DeliveryType
  <2>4. CASE r = Failed(row)
    <3>1. PICK status \in {"failed", "pending"} :
            r = [row EXCEPT !.attempts = row.attempts + 1, !.due = due, !.status = status]
      BY <2>4 DEF Failed, due
    <3>2. QED
      BY <1>1, <1>4, <2>2, <3>1 DEF DeliveryType, DeliveryStatus
  <2>5. QED
    BY <1>3, <2>3, <2>4
<1>6. /\ [Resting EXCEPT !.step = "deliver"] \in SenderType
      /\ [Resting EXCEPT !.step = "deliver"].step = "deliver"
      /\ [Resting EXCEPT !.step = "deliver"].now = 0
  BY KeyFacts DEF Resting, SenderType
<1>7. /\ sender' = [sender EXCEPT ![w] = [Resting EXCEPT !.step = "deliver"]]
      /\ UNCHANGED <<tick, notices, mode>>
  BY DEF EndSend
<1>8. sender' \in [Senders -> SenderType] /\ sender'[w].step = "deliver" /\ sender'[w].now <= tick
  BY <1>1, <1>6, <1>7 DEF OutboxInv, OutboxShape
<1> HIDE DEF k, due
<1>9. k.kind = "digest" /\ r.status = "pending" => k.of <= r.due
  BY <1>4, <1>5
<1>10. QED
  BY <1>1, <1>2, <1>3, <1>5, <1>7, <1>8, <1>9, OneDelivery

(* Steps of a worker that touch no delivery.                               *)
LEMMA OutboxIdles ==
  ASSUME \A v, w \in Senders : v = w, OutboxInv, NEW w \in Senders,
         StartTask(w) \/ SenderDies(w) \/ EndTask(w) \/ \E k \in Keys : Send(w, k)
  PROVE  OutboxInv'
PROOF
<1>1. UNCHANGED <<tick, notices, mode, deliveries>>
  BY DEF StartTask, SenderDies, EndTask, Send
<1>2. sender[w] \in SenderType /\ tick \in Ticks /\ 0 \in Ticks /\ tick \in Nat
  BY TickFacts, NotificationAssumption DEF OutboxInv, OutboxShape, Ticks
<1>3. PICK s : /\ sender' = [sender EXCEPT ![w] = s]
               /\ s \in SenderType /\ s.now <= tick
               /\ \/ s.step = "rest"
                  \/ s.step = "route" /\ s.now = tick
                  \/ s.step = "send" /\ s.key \in DueNow
  <2>1. CASE StartTask(w)
    <3>1. PICK s : s = [sender[w] EXCEPT !.step = "route", !.now = tick]
      OBVIOUS
    <3>2. s \in SenderType /\ s.step = "route" /\ s.now = tick
      BY <1>2, <3>1 DEF SenderType
    <3>3. sender' = [sender EXCEPT ![w] = s]
      BY <2>1, <3>1 DEF StartTask
    <3>4. s.now <= tick
      BY <1>2, <3>2
    <3>5. QED
      BY <3>2, <3>3, <3>4, Zenon
  <2>2. CASE SenderDies(w) \/ EndTask(w)
    <3>1. sender' = [sender EXCEPT ![w] = Resting]
      BY <2>2 DEF SenderDies, EndTask
    <3>2. Resting.now <= tick
      BY <1>2 DEF Resting
    <3>3. QED
      BY <3>1, <3>2, KeyFacts
  <2>3. ASSUME NEW k \in Keys, Send(w, k)
        PROVE  \E s : /\ sender' = [sender EXCEPT ![w] = s]
                      /\ s \in SenderType /\ s.now <= tick
                      /\ s.step = "send" /\ s.key \in DueNow
    <3>1. PICK s : s = [sender[w] EXCEPT !.step = "send", !.key = k]
      OBVIOUS
    <3>2. s \in SenderType /\ s.step = "send" /\ s.key = k /\ s.now = sender[w].now
      BY <1>2, <3>1 DEF SenderType
    <3>3. sender' = [sender EXCEPT ![w] = s] /\ k \in DueNow
      BY <2>3, <3>1 DEF Send
    <3>4. sender[w].now <= tick
      BY DEF OutboxInv, OutboxShape
    <3>5. QED
      BY <3>2, <3>3, <3>4
  <2>4. QED
    BY <2>1, <2>2, <2>3
<1>4. \A v \in Senders : v = w /\ sender'[v] = s
  BY <1>3 DEF OutboxInv, OutboxShape
<1>5. OutboxShape'
  BY <1>1, <1>3, <1>4 DEF OutboxInv, OutboxShape
<1>6. \A v \in Senders : SenderHolds(v)'
  <2>1. ASSUME s.step = "route"
        PROVE  \A k \in Keys : k.kind = "digest" /\ deliveries[k].status \in Settled => k.of <= s.now
    BY <1>3, <2>1 DEF OutboxInv, DeliveryHolds
  <2>2. ASSUME s.step = "send"
        PROVE  deliveries[s.key].status # "none" /\ (s.key.kind = "digest" => s.key.of <= tick)
    <3> DEFINE k == s.key
    <3>1. k \in Keys /\ deliveries[k].status = "pending" /\ deliveries[k].due <= tick
      BY <1>3, <2>2 DEF DueNow
    <3>2. deliveries[k].due \in Nat /\ DeliveryHolds(k)
      BY <3>1 DEF OutboxInv, OutboxShape, DeliveryType
    <3>3. k.kind = "digest" => k.of <= tick
      BY <1>2, <3>1, <3>2, KeyFacts DEF DeliveryHolds
    <3>4. QED
      BY <3>1, <3>3
  <2>3. QED
    BY <1>1, <1>4, <2>1, <2>2 DEF SenderHolds
<1>7. QED
  BY <1>1, <1>5, <1>6 DEF OutboxInv, RoutedIsCarried, DeliveryHolds

LEMMA OutboxWorld ==
  ASSUME OutboxInv,
         \/ \E e \in Events : EventHappens(e) \/ IncidentEnds(e)
         \/ \E m \in Modes : ChangeMode(m)
         \/ TickPasses \/ UNCHANGED notificationVars
  PROVE  OutboxInv'
PROOF
<1>1. ASSUME NEW e \in Events, EventHappens(e) PROVE OutboxInv'
  <2>1. /\ notices[e] = "none" /\ notices'[e] = "new" /\ \A f \in Events \ {e} : notices'[f] = notices[f]
        /\ notices' \in [Events -> {"none", "new", "routed", "silent"}]
        /\ UNCHANGED <<tick, mode, deliveries, sender>>
    BY <1>1 DEF EventHappens, OutboxInv, OutboxShape
  <2>2. \A k \in Keys : DeliveryHolds(k)'
    BY <2>1, KeyFacts DEF OutboxInv, DeliveryHolds
  <2>3. OutboxShape' /\ RoutedIsCarried'
    BY <2>1 DEF OutboxInv, OutboxShape, RoutedIsCarried
  <2>4. \A w \in Senders : SenderHolds(w)'
    BY <2>1 DEF OutboxInv, SenderHolds
  <2>5. QED
    BY <2>2, <2>3, <2>4 DEF OutboxInv
<1>2. CASE (\E e \in Events : IncidentEnds(e)) \/ (\E m \in Modes : ChangeMode(m))
             \/ UNCHANGED notificationVars
  <2>1. mode' \in Modes /\ UNCHANGED <<tick, notices, deliveries, sender>>
    BY <1>2 DEF IncidentEnds, ChangeMode, notificationVars, OutboxInv, OutboxShape
  <2>2. QED
    BY <2>1 DEF OutboxInv, OutboxShape, RoutedIsCarried, DeliveryHolds, SenderHolds
<1>3. CASE TickPasses
  <2>1. /\ tick' = tick + 1 /\ tick' \in Ticks /\ tick \in Nat
        /\ UNCHANGED <<mode, notices, deliveries, sender>>
    BY <1>3, NotificationAssumption DEF TickPasses, OutboxInv, OutboxShape, Ticks
  <2>2. \A n \in Nat : n <= tick => n <= tick'
    BY <2>1
  <2>3. OutboxShape'
    BY <2>1, <2>2, TickFacts DEF OutboxInv, OutboxShape, SenderType
  <2>4. \A k \in Keys : DeliveryHolds(k)'
    BY <2>1, <2>2, KeyFacts DEF OutboxInv, DeliveryHolds
  <2>5. ASSUME NEW w \in Senders PROVE SenderHolds(w)'
    <3>1. SenderHolds(w) /\ sender[w].key \in Keys
      BY DEF OutboxInv, OutboxShape, SenderType
    <3>2. QED
      BY <2>1, <2>2, <3>1, KeyFacts DEF SenderHolds
  <2>6. QED
    BY <2>1, <2>3, <2>4, <2>5 DEF OutboxInv, RoutedIsCarried
<1>4. QED
  BY <1>1, <1>2, <1>3

(* With one worker, a notice that was routed while its channel was on is   *)
(* in a delivery, alone or in the digest that waits: no digest is settled  *)
(* before the time from which later notices go into the next one, however  *)
(* the member switches modes, deliveries are deferred, retried or given up *)
(* and the worker dies (route_pending, _enqueue, deliver_one).             *)
THEOREM RoutedNoticesAreCarried ==
  ASSUME \A v, w \in Senders : v = w
  PROVE  NotificationSpec => []RoutedIsCarried
PROOF
<1>1. OutboxInv => RoutedIsCarried
  BY DEF OutboxInv
<1>2. OutboxInv /\ [NotificationNext]_notificationVars => OutboxInv'
  <2> SUFFICES ASSUME OutboxInv, [NotificationNext]_notificationVars PROVE OutboxInv'
    OBVIOUS
  <2>1. ASSUME NEW w \in Senders,
               StartTask(w) \/ Route(w) \/ Deliver(w) \/ SenderDies(w) \/ EndTask(w)
        PROVE  OutboxInv'
    BY <2>1, OutboxRoutes, OutboxDelivers, OutboxSent, OutboxIdles DEF Deliver
  <2>2. QED
    BY <2>1, OutboxWorld DEF NotificationNext
<1>3. QED
  BY OutboxInitInv, <1>1, <1>2, PTL DEF NotificationSpec

(***************************************************************************)
(* HealthAlerts                                                            *)
(*                                                                         *)
(* Two incidents are apart because of what the one cooldown of the rule    *)
(* covers at every moment: the quiet time of each closed incident is over, *)
(* or the cooldown lasts at least as long.  The cooldown is overwritten    *)
(* only when an open incident closes, and the quiet times of the earlier   *)
(* ones were over when that one began.                                     *)
(***************************************************************************)
AlertType == [status : Open \cup Closed, created : Nat, ended : Nat]

AlertShape ==
  /\ window \in Nat
  /\ alerts \in Seq(AlertType)
  /\ health \in [evaluated : Nat, healthy : Nat, cooldown : Nat]

QuietUntil(i) == alerts[i].ended + QuietAfter(alerts[i].status)

AlertHolds(i) ==
  /\ alerts[i].created <= window
  /\ alerts[i].status \in Closed => QuietUntil(i) <= window \/ QuietUntil(i) <= health.cooldown

AlertInv ==
  /\ AlertShape
  /\ IncidentsAreApart
  /\ \A i \in 1 .. Len(alerts) : AlertHolds(i)

LEMMA QuietFacts ==
  /\ \A status : QuietAfter(status) \in Nat
  /\ QuietAfter("resolved") = ShortCooldown
  /\ \A status \in Dismissed : QuietAfter(status) = LongCooldown
  /\ QuietAfter("expired") = 0
PROOF
<1>1. QuietAfter("resolved") = ShortCooldown /\ QuietAfter("expired") = 0
  BY DEF QuietAfter, Dismissed
<1>2. \A s \in Dismissed : QuietAfter(s) = LongCooldown
  BY DEF QuietAfter, Dismissed
<1>3. \A s : s # "resolved" /\ s \notin Dismissed => QuietAfter(s) = 0
  BY DEF QuietAfter
<1>4. QED
  BY <1>1, <1>2, <1>3, HealthAssumption

LEMMA AlertInitInv == HealthInit => AlertInv
PROOF
<1> SUFFICES ASSUME HealthInit PROVE AlertInv
  OBVIOUS
<1>1. Len(alerts) = 0 /\ alerts \in Seq(AlertType)
  BY DEF HealthInit
<1>2. QED
  BY <1>1 DEF HealthInit, AlertInv, AlertShape, IncidentsAreApart

(* Every verdict but an opening or a transition leaves the incidents.      *)
LEMMA AlertsRest ==
  ASSUME AlertInv, UNCHANGED alerts, window' \in Nat, window <= window',
         health' \in [evaluated : Nat, healthy : Nat, cooldown : Nat],
         health'.cooldown = health.cooldown
  PROVE  AlertInv'
PROOF
<1>1. \A i \in 1 .. Len(alerts) : /\ alerts[i].created \in Nat /\ alerts[i].ended \in Nat
                                  /\ QuietAfter(alerts[i].status) \in Nat
  <2>1. \A i \in 1 .. Len(alerts) : alerts[i] \in AlertType
    BY DEF AlertInv, AlertShape
  <2>2. QED
    BY <2>1, QuietFacts DEF AlertType
<1>2. \A i \in 1 .. Len(alerts) : QuietUntil(i) \in Nat
  BY <1>1 DEF QuietUntil
<1>3. \A i \in 1 .. Len(alerts) : AlertHolds(i)'
  BY <1>1, <1>2 DEF AlertInv, AlertShape, AlertHolds, QuietUntil, QuietAfter
<1>4. QED
  BY <1>3 DEF AlertInv, AlertShape, IncidentsAreApart, QuietAfter

(* The open incident changes its status; the cooldown is free to change if *)
(* it covers the incident that closes.                                     *)
LEMMA AlertMoves ==
  ASSUME AlertInv, HasOpenAlert, UNCHANGED window,
         NEW status \in Open \cup Closed, Transition(status),
         health' \in [evaluated : Nat, healthy : Nat, cooldown : Nat],
         status \in Closed => \/ window + QuietAfter(status) <= window
                              \/ window + QuietAfter(status) <= health'.cooldown
  PROVE  AlertInv'
PROOF
<1> DEFINE n == Len(alerts)
           last == alerts[n]
<1>1. alerts \in Seq(AlertType) /\ n \in Nat /\ n \in 1 .. n /\ last \in AlertType /\ window \in Nat
  BY DEF AlertInv, AlertShape, HasOpenAlert
<1>2. \A i \in 1 .. n : i # n => i < n
  BY <1>1
<1>3. \A i \in 1 .. n : alerts[i] \in AlertType
  BY <1>1
<1>4. PICK r : r = Transitioned(last, status)
  OBVIOUS
<1>5. r \in AlertType /\ r.status = status /\ r.created = last.created
      /\ (status \in Closed => r.ended = window)
  BY <1>1, <1>4 DEF Transitioned, AlertType
<1>6. alerts' = [alerts EXCEPT ![n] = r]
  BY <1>4 DEF Transition
<1>7. alerts' \in Seq(AlertType) /\ Len(alerts') = n /\ alerts'[n] = r
      /\ \A i \in 1 .. n : i # n => alerts'[i] = alerts[i]
  BY <1>1, <1>5, <1>6
<1> HIDE DEF n, last
<1>8. \A i \in 1 .. n : i < n => alerts[i].status \in Closed /\ QuietUntil(i) <= last.created
  BY <1>1 DEF AlertInv, IncidentsAreApart, QuietUntil, n, last
<1>9. last.created <= window /\ \A i \in 1 .. n : alerts[i].created <= window
  BY <1>1 DEF AlertInv, AlertHolds, n, last
<1>10. AlertShape'
  BY <1>1, <1>7 DEF AlertShape
<1>11. \A i \in 1 .. n : QuietUntil(i) \in Nat
  BY <1>3, QuietFacts DEF AlertType, QuietUntil
<1>12. IncidentsAreApart'
  <2> SUFFICES ASSUME NEW i \in 1 .. n, NEW j \in 1 .. n, i < j
               PROVE  alerts'[i].status \in Closed
                      /\ alerts'[i].ended + QuietAfter(alerts'[i].status) <= alerts'[j].created
    BY <1>7 DEF IncidentsAreApart, QuietAfter
  <2>1. i # n /\ i < n
    BY <1>1
  <2>2. alerts'[i] = alerts[i] /\ alerts'[j].created = alerts[j].created
    BY <1>1, <1>5, <1>7, <2>1 DEF last
  <2>3. QED
    BY <2>1, <2>2, <1>8 DEF AlertInv, IncidentsAreApart, n
<1>13. ASSUME NEW i \in 1 .. n PROVE AlertHolds(i)'
  <2>1. CASE i = n
    BY <2>1, <1>1, <1>5, <1>7, <1>9 DEF AlertHolds, QuietUntil, QuietAfter
  <2>2. CASE i # n
    <3>1. QuietUntil(i) <= last.created /\ last.created <= window /\ last.created \in Nat
      BY <2>2, <1>1, <1>2, <1>8, <1>9 DEF AlertType
    <3>2. QuietUntil(i) <= window
      BY <3>1, <1>1, <1>11
    <3>3. alerts'[i] = alerts[i]
      BY <2>2, <1>7
    <3>4. QED
      BY <3>2, <3>3, <1>9 DEF AlertHolds, QuietUntil, QuietAfter
  <2>3. QED
    BY <2>1, <2>2
<1>14. QED
  BY <1>7, <1>10, <1>12, <1>13 DEF AlertInv

LEMMA AlertBegins ==
  ASSUME AlertInv, ~HasOpenAlert, UNCHANGED window, window >= health.cooldown,
         alerts' = Append(alerts, [status |-> "active", created |-> window, ended |-> 0]),
         health' \in [evaluated : Nat, healthy : Nat, cooldown : Nat],
         health'.cooldown = health.cooldown
  PROVE  AlertInv'
PROOF
<1> DEFINE n == Len(alerts)
<1>1. alerts \in Seq(AlertType) /\ n \in Nat /\ window \in Nat /\ health.cooldown \in Nat
  BY DEF AlertInv, AlertShape
<1>2. PICK r : r = [status |-> "active", created |-> window, ended |-> 0]
  OBVIOUS
<1>3. r \in AlertType /\ r.status \notin Closed /\ r.created = window
  BY <1>1, <1>2 DEF AlertType, Open, Closed
<1>4. alerts' = Append(alerts, r)
  BY <1>2
<1>5. alerts' \in Seq(AlertType) /\ Len(alerts') = n + 1 /\ alerts'[n + 1] = r
      /\ \A i \in 1 .. n : alerts'[i] = alerts[i]
  BY <1>1, <1>3, <1>4
<1> HIDE DEF n
<1>6. \A i \in 1 .. n : /\ alerts[i] \in AlertType /\ alerts[i].status \in Closed
                        /\ alerts[i].created <= window
                        /\ QuietUntil(i) \in Nat
                        /\ QuietUntil(i) <= window \/ QuietUntil(i) <= health.cooldown
  <2> TAKE i \in 1 .. n
  <2>1. alerts[i] \in AlertType
    BY <1>1 DEF n
  <2>2. i < n => alerts[i].status \in Closed
    BY <1>1 DEF AlertInv, IncidentsAreApart, n
  <2>3. i = n => alerts[i].status \in Closed
    BY <1>1, <2>1 DEF HasOpenAlert, AlertType, n
  <2>4. alerts[i].status \in Closed
    BY <1>1, <2>2, <2>3
  <2>5. QuietUntil(i) \in Nat
    BY <2>1, QuietFacts DEF AlertType, QuietUntil
  <2>6. QED
    BY <2>1, <2>4, <2>5 DEF AlertInv, AlertHolds, n
<1>7. \A i \in 1 .. n : QuietUntil(i) <= window
  BY <1>1, <1>6
<1>8. IncidentsAreApart'
  <2> SUFFICES ASSUME NEW i \in 1 .. n + 1, NEW j \in 1 .. n + 1, i < j
               PROVE  alerts'[i].status \in Closed
                      /\ alerts'[i].ended + QuietAfter(alerts'[i].status) <= alerts'[j].created
    BY <1>5 DEF IncidentsAreApart, QuietAfter
  <2>1. i \in 1 .. n /\ alerts'[i] = alerts[i] /\ alerts[i].status \in Closed
    BY <1>1, <1>5, <1>6
  <2>2. CASE j = n + 1
    BY <2>1, <2>2, <1>3, <1>5, <1>7 DEF QuietUntil
  <2>3. CASE j # n + 1
    <3>1. j \in 1 .. n /\ alerts'[j] = alerts[j]
      BY <2>3, <1>1, <1>5
    <3>2. QED
      BY <2>1, <3>1 DEF AlertInv, IncidentsAreApart, n
  <2>4. QED
    BY <2>2, <2>3
<1>9. ASSUME NEW i \in 1 .. n + 1 PROVE AlertHolds(i)'
  <2>1. CASE i = n + 1
    BY <2>1, <1>1, <1>3, <1>5 DEF AlertHolds
  <2>2. CASE i # n + 1
    <3>1. i \in 1 .. n /\ alerts'[i] = alerts[i]
      BY <2>2, <1>1, <1>5
    <3>2. QED
      BY <3>1, <1>6, <1>7 DEF AlertHolds, QuietUntil, QuietAfter
  <2>3. QED
    BY <2>1, <2>2
<1>10. AlertShape'
  BY <1>1, <1>5 DEF AlertShape
<1>11. QED
  BY <1>5, <1>8, <1>9, <1>10 DEF AlertInv

LEMMA AlertEvaluates ==
  ASSUME AlertInv, UNCHANGED window, Bad \/ Unknown \/ Healthy \/ Recovering
  PROVE  AlertInv'
PROOF
<1> DEFINE HealthType == [evaluated : Nat, healthy : Nat, cooldown : Nat]
<1>1. health \in HealthType /\ window \in Nat /\ window <= window
      /\ ShortCooldown \in Nat /\ HealthyWindows \in Nat
  BY HealthAssumption DEF AlertInv, AlertShape, HealthyWindows
<1>2. CASE Bad
  <2>1. health' \in HealthType /\ health'.cooldown = health.cooldown
    <3>1. health' = [health EXCEPT !.evaluated = window, !.healthy = 0]
      BY <1>2, Zenon DEF Bad
    <3>2. QED
      BY <1>1, <3>1
  <2>2. \/ /\ HasOpenAlert
           /\ Transition("active")
        \/ /\ ~HasOpenAlert
           /\ window >= health.cooldown
           /\ alerts' = Append(alerts, [status |-> "active", created |-> window, ended |-> 0])
        \/ UNCHANGED alerts
    BY <1>2, Zenon DEF Bad
  <2>3. QED
    BY <1>1, <2>1, <2>2, AlertsRest, AlertMoves, AlertBegins DEF Open, Closed
<1>3. CASE Unknown
  <2>1. health' \in HealthType /\ health'.cooldown = health.cooldown
    <3>1. \/ health' = [health EXCEPT !.evaluated = window]
          \/ health' = [health EXCEPT !.evaluated = window, !.healthy = 0]
      BY <1>3, Zenon DEF Unknown
    <3>2. CASE health' = [health EXCEPT !.evaluated = window]
      BY <1>1, <3>2
    <3>3. CASE health' = [health EXCEPT !.evaluated = window, !.healthy = 0]
      BY <1>1, <3>3
    <3>4. QED
      BY <3>1, <3>2, <3>3
  <2>2. (HasOpenAlert /\ Transition("expired")) \/ UNCHANGED alerts
    BY <1>3, Zenon DEF Unknown
  <2>3. window + QuietAfter("expired") <= window
    BY <1>1, QuietFacts
  <2>4. "expired" \in Closed
    BY DEF Closed
  <2>5. QED
    BY <1>1, <2>1, <2>2, <2>3, <2>4, AlertsRest, AlertMoves
<1>4. CASE Healthy
  <2>1. \/ /\ HasOpenAlert /\ Transition("resolved")
           /\ health' = [evaluated |-> window, healthy |-> HealthyWindows,
                         cooldown |-> window + ShortCooldown]
        \/ /\ HasOpenAlert /\ Transition("resolving")
           /\ health' = [health EXCEPT !.evaluated = window, !.healthy = HealthyWindows]
        \/ UNCHANGED alerts /\ health' = [health EXCEPT !.evaluated = window]
    BY <1>4, Zenon DEF Healthy
  <2>2. window + ShortCooldown \in Nat
    BY <1>1
  <2>3. QuietAfter("resolved") = ShortCooldown
    BY QuietFacts
  <2>4. "resolved" \in Closed /\ "resolving" \in Open /\ "resolving" \notin Closed
    BY DEF Open, Closed
  <2>5. CASE /\ HasOpenAlert /\ Transition("resolved")
             /\ health' = [evaluated |-> window, healthy |-> HealthyWindows,
                           cooldown |-> window + ShortCooldown]
    <3>1. health' \in HealthType /\ health'.cooldown = window + ShortCooldown
      BY <1>1, <2>2, <2>5
    <3>2. window + QuietAfter("resolved") <= health'.cooldown
      BY <1>1, <2>2, <2>3, <3>1
    <3>3. QED
      BY <2>4, <2>5, <3>1, <3>2, AlertMoves
  <2>6. CASE /\ HasOpenAlert /\ Transition("resolving")
             /\ health' = [health EXCEPT !.evaluated = window, !.healthy = HealthyWindows]
    <3>1. health' \in HealthType
      BY <1>1, <2>6
    <3>2. QED
      BY <2>4, <2>6, <3>1, AlertMoves
  <2>7. CASE UNCHANGED alerts /\ health' = [health EXCEPT !.evaluated = window]
    <3>1. health' \in HealthType /\ health'.cooldown = health.cooldown
      BY <1>1, <2>7
    <3>2. QED
      BY <1>1, <2>7, <3>1, AlertsRest
  <2>8. QED
    BY <2>1, <2>5, <2>6, <2>7
<1>5. CASE Recovering
  <2>1. health' \in HealthType /\ health'.cooldown = health.cooldown /\ UNCHANGED alerts
    BY <1>1, <1>5 DEF Recovering
  <2>2. QED
    BY <1>1, <2>1, AlertsRest
<1>6. QED
  BY <1>2, <1>3, <1>4, <1>5

LEMMA AlertFeedback ==
  ASSUME AlertInv, NEW action \in {"acknowledged", "resolved"} \cup Dismissed, Feedback(action)
  PROVE  AlertInv'
PROOF
<1>1. /\ HasOpenAlert /\ UNCHANGED window /\ Transition(action)
      /\ health' = [health EXCEPT !.cooldown = CooldownAfter(action)]
  BY DEF Feedback
<1>2. window \in Nat /\ health \in [evaluated : Nat, healthy : Nat, cooldown : Nat]
  BY DEF AlertInv, AlertShape
<1>3. CooldownAfter(action) \in Nat
  BY <1>2, HealthAssumption DEF CooldownAfter
<1>4. /\ health' \in [evaluated : Nat, healthy : Nat, cooldown : Nat]
      /\ health'.cooldown = CooldownAfter(action)
  BY <1>1, <1>2, <1>3
<1>5. action \in Open \cup Closed
  BY DEF Open, Closed, Dismissed
<1>6. action \in Closed => CooldownAfter(action) = window + QuietAfter(action)
  BY QuietFacts DEF Open, Closed, Dismissed, CooldownAfter
<1>7. action \in Closed => window + QuietAfter(action) <= CooldownAfter(action)
  BY <1>3, <1>6
<1>8. QED
  BY <1>1, <1>4, <1>5, <1>7, AlertMoves

LEMMA AlertStep == AlertInv /\ [HealthNext]_healthVars => AlertInv'
PROOF
<1> SUFFICES ASSUME AlertInv, [HealthNext]_healthVars PROVE AlertInv'
  OBVIOUS
<1>1. /\ window \in Nat /\ window <= window /\ window <= window + 1 /\ window + 1 \in Nat
      /\ health \in [evaluated : Nat, healthy : Nat, cooldown : Nat]
  BY DEF AlertInv, AlertShape
<1>2. ASSUME NEW v \in Verdicts, Evaluate(v) PROVE AlertInv'
  <2>1. UNCHANGED window /\ (Bad \/ Unknown \/ Healthy \/ Recovering)
    BY <1>2 DEF Evaluate, Verdicts
  <2>2. QED
    BY <2>1, AlertEvaluates
<1>3. ASSUME NEW a \in {"acknowledged", "resolved"} \cup Dismissed, Feedback(a) PROVE AlertInv'
  BY <1>3, AlertFeedback
<1>4. CASE (\E w \in Windows, v \in Verdicts : EvaluateHistory(w, v)) \/ UNCHANGED healthVars
  <2>1. UNCHANGED <<window, alerts, health>>
    BY <1>4 DEF EvaluateHistory, healthVars
  <2>2. QED
    BY <1>1, <2>1, AlertsRest
<1>5. CASE WindowEnds
  <2>1. window' = window + 1 /\ UNCHANGED <<alerts, health>>
    BY <1>5 DEF WindowEnds
  <2>2. QED
    BY <1>1, <2>1, AlertsRest
<1>6. QED
  BY <1>2, <1>3, <1>4, <1>5 DEF HealthNext

(* However windows are evaluated late, twice or never and operators close  *)
(* incidents between them, at most the newest incident is open, and none   *)
(* begins within the quiet time of an earlier one (evaluate_station,       *)
(* transition, feedback).                                                  *)
THEOREM IncidentsStayApart == HealthSpec => []IncidentsAreApart
PROOF
<1>1. AlertInv => IncidentsAreApart
  BY DEF AlertInv
<1>2. QED
  BY AlertInitInv, AlertStep, <1>1, PTL DEF HealthSpec

(***************************************************************************)
(* MobileSessions                                                          *)
(*                                                                         *)
(* The invariant is the property with the shape of the rows: that one      *)
(* token is left is stated by naming it, and every step but a login takes  *)
(* sessions away or exchanges the token that it has found unused.          *)
(***************************************************************************)
(* The elements of K have fewer than n greater ones beside them in S: then *)
(* there are at most n of them.                                            *)
LEMMA NewestAreFew ==
  ASSUME NEW n \in Nat, NEW S, IsFiniteSet(S), S \subseteq Nat, NEW K, K \subseteq S,
         \A s \in K : ~(Cardinality({t \in S : t > s}) >= n)
  PROVE  Cardinality(K) <= n
PROOF
<1>1. CASE K = {}
  BY <1>1, FS_EmptySet
<1>2. CASE K # {}
  <2>1. K \subseteq Nat
    OBVIOUS
  <2>2. PICK m \in K : \A y \in K : m <= y
    BY <1>2, <2>1, SmallestExists
  <2>3. PICK T : T = {t \in S : t > m}
    OBVIOUS
  <2>4. T \in SUBSET S /\ K \in SUBSET S
    BY <2>3
  <2>5. IsFiniteSet(T) /\ IsFiniteSet(K)
    BY <2>4, FS_Subset
  <2>6. PICK L : L = K \ {m}
    OBVIOUS
  <2>7. L \in SUBSET T
    BY <2>1, <2>2, <2>3, <2>6
  <2>8. IsFiniteSet(L) /\ Cardinality(L) <= Cardinality(T)
    BY <2>5, <2>7, FS_Subset
  <2>9. Cardinality(L) = Cardinality(K) - 1
    BY <2>2, <2>5, <2>6, FS_RemoveElement
  <2>10. Cardinality(L) \in Nat /\ Cardinality(K) \in Nat /\ Cardinality(T) \in Nat
    BY <2>5, <2>8, FS_CardinalityType
  <2>11. ~(Cardinality(T) >= n)
    BY <2>2, <2>3
  <2>12. QED
    BY <2>8, <2>9, <2>10, <2>11
<1>3. QED
  BY <1>1, <1>2

SessionStates == {"none", "live", "revoked", "expired", "deleted"}
SessionRow == [installation : Installations \cup {NoSession.installation},
               state : SessionStates, issued : Nat]

SessionShape ==
  /\ mobile \in [SessionIds -> SessionRow]
  /\ tokens \in [SessionIds -> SUBSET Nat]

SessionInv ==
  /\ SessionShape
  /\ \A s \in Live : \E x \in Nat : tokens[s] = {x}
  /\ \A s, t \in Live : s # t => mobile[s].installation # mobile[t].installation
  /\ Cardinality(Live) <= MaxLive

LEMMA LiveFacts ==
  /\ IsFiniteSet(SessionIds) /\ SessionIds \subseteq Nat
  /\ Live \subseteq SessionIds /\ IsFiniteSet(Live)
  /\ \A S : S \subseteq Live => IsFiniteSet(S) /\ Cardinality(S) <= Cardinality(Live)
  /\ MaxLive \in Nat /\ MaxLive - 1 \in Nat /\ MaxLogins \in Nat
PROOF
<1>1. MaxLogins \in Nat /\ MaxLive \in Nat \ {0}
  BY MobileAssumption
<1>2. IsFiniteSet(SessionIds) /\ SessionIds \subseteq Nat
  BY <1>1, FS_Interval DEF SessionIds
<1>3. Live \in SUBSET SessionIds
  BY DEF Live
<1>4. IsFiniteSet(Live)
  BY <1>2, <1>3, FS_Subset
<1>5. ASSUME NEW S, S \subseteq Live PROVE IsFiniteSet(S) /\ Cardinality(S) <= Cardinality(Live)
  <2>1. S \in SUBSET Live
    BY <1>5
  <2>2. QED
    BY <1>4, <2>1, FS_Subset
<1>6. QED
  BY <1>1, <1>2, <1>3, <1>4, <1>5

LEMMA SessionInitInv == MobileInit => SessionInv
PROOF
<1> SUFFICES ASSUME MobileInit PROVE SessionInv
  OBVIOUS
<1>1. NoSession \in SessionRow /\ NoSession.state = "none"
  BY DEF NoSession, SessionRow, SessionStates
<1>2. SessionShape
  BY <1>1 DEF MobileInit, SessionShape
<1>3. Live = {}
  BY <1>1 DEF MobileInit, Live
<1>4. Cardinality(Live) <= MaxLive
  BY <1>3, LiveFacts, FS_EmptySet
<1>5. QED
  BY <1>2, <1>3, <1>4 DEF SessionInv

LEMMA SessionsSound == SessionInv => SessionsAreSingle
PROOF
<1> SUFFICES ASSUME SessionInv PROVE SessionsAreSingle
  OBVIOUS
<1>1. ASSUME NEW s \in Live PROVE Cardinality(tokens[s]) = 1
  <2>1. PICK x : tokens[s] = {x}
    BY DEF SessionInv
  <2>2. QED
    BY <2>1, FS_Singleton
<1>2. QED
  BY <1>1 DEF SessionInv, SessionsAreSingle

(* Sessions that live on keep their installation and their token.          *)
LEMMA SessionsGo ==
  ASSUME SessionInv, SessionShape', Live' \subseteq Live,
         \A s \in Live' : /\ mobile'[s].installation = mobile[s].installation
                          /\ tokens'[s] = tokens[s]
  PROVE  SessionInv'
PROOF
<1>1. PICK L : L = Live'
  OBVIOUS
<1>2. Cardinality(L) <= Cardinality(Live) /\ IsFiniteSet(L)
  BY <1>1, LiveFacts
<1>3. Cardinality(L) \in Nat /\ Cardinality(Live) \in Nat /\ MaxLive \in Nat
  BY <1>2, LiveFacts, FS_CardinalityType
<1>4. Cardinality(L) <= MaxLive
  BY <1>2, <1>3 DEF SessionInv
<1>5. QED
  BY <1>1, <1>4 DEF SessionInv

LEMMA RevokedFacts ==
  ASSUME SessionShape, NEW S
  PROVE  /\ RevokedIn(S) \in [SessionIds -> SessionRow]
         /\ \A s \in SessionIds : /\ RevokedIn(S)[s].installation = mobile[s].installation
                                  /\ RevokedIn(S)[s].state = "live" <=> s \in Live /\ s \notin S
PROOF
<1> DEFINE row(s) == IF s \in S /\ mobile[s].state = "live"
                     THEN [mobile[s] EXCEPT !.state = "revoked"] ELSE mobile[s]
<1>1. ASSUME NEW s \in SessionIds
      PROVE  /\ row(s) \in SessionRow
             /\ row(s).installation = mobile[s].installation
             /\ row(s).state = "live" <=> s \in Live /\ s \notin S
  <2>1. mobile[s] \in SessionRow
    BY DEF SessionShape
  <2>2. QED
    BY <2>1 DEF SessionRow, SessionStates, Live
<1>2. RevokedIn(S) = [s \in SessionIds |-> row(s)]
  BY DEF RevokedIn
<1> HIDE DEF row
<1>3. QED
  BY <1>1, <1>2

LEMMA SessionsRevoked ==
  ASSUME SessionInv, NEW S, mobile' = RevokedIn(S), UNCHANGED tokens
  PROVE  SessionInv'
PROOF
<1>1. SessionShape /\ Live \subseteq SessionIds
  BY LiveFacts DEF SessionInv
<1>2. SessionShape'
  BY <1>1, RevokedFacts DEF SessionShape
<1>3. \A s \in Live' : s \in SessionIds /\ mobile'[s].state = "live"
  BY DEF Live
<1>4. \A s \in Live' : s \in Live /\ mobile'[s].installation = mobile[s].installation
  BY <1>1, <1>3, RevokedFacts
<1>5. QED
  BY <1>2, <1>4, SessionsGo

LEMMA SessionRefreshed ==
  ASSUME SessionInv, NEW r \in Refreshers, Refresh(r)
  PROVE  SessionInv'
PROOF
<1> DEFINE s == lookups[r].session
<1>1. s \in Live /\ s \in SessionIds /\ mobile[s] \in SessionRow /\ SessionShape
  BY LiveFacts DEF Refresh, SessionInv, SessionShape
<1>2. PICK x \in Nat : tokens[s] = {x}
  BY <1>1 DEF SessionInv
<1>3. lookups[r].token = x
  BY <1>2 DEF Refresh, Unused
<1>4. PICK n : n = mobile[s].issued + 1
  OBVIOUS
<1>5. n \in Nat
  BY <1>1, <1>4 DEF SessionRow
<1>6. tokens' = [tokens EXCEPT ![s] = {n}]
  BY <1>1, <1>2, <1>3, <1>4 DEF Refresh, SessionShape
<1>7. PICK row : row = [mobile[s] EXCEPT !.issued = n]
  OBVIOUS
<1>8. row \in SessionRow /\ row.state = mobile[s].state /\ row.installation = mobile[s].installation
  BY <1>1, <1>5, <1>7 DEF SessionRow
<1>9. mobile' = [mobile EXCEPT ![s] = row]
  BY <1>1, <1>4, <1>7 DEF Refresh
<1>10. SessionShape'
  BY <1>1, <1>5, <1>6, <1>8, <1>9 DEF SessionShape
<1>11. \A t \in SessionIds : /\ mobile'[t].state = mobile[t].state
                             /\ mobile'[t].installation = mobile[t].installation
                             /\ tokens'[t] = tokens[t] \/ tokens'[t] = {n}
  BY <1>1, <1>6, <1>8, <1>9 DEF SessionShape
<1>12. Live' = Live
  BY <1>11 DEF Live
<1>13. QED
  BY <1>5, <1>10, <1>11, <1>12, LiveFacts DEF SessionInv

LEMMA SessionCreated ==
  ASSUME SessionInv, NEW i \in Installations, CreateSession(i)
  PROVE  SessionInv'
PROOF
<1> DEFINE Unborn == {s \in SessionIds : mobile[s].state = "none"}
           IsNew(s) == mobile[s].state = "none" /\ \A t \in 1 .. s - 1 : mobile[t].state # "none"
           others == {s \in Live : mobile[s].installation # i}
<1>1. Unborn # {} /\ Unborn \subseteq Nat
  BY LiveFacts DEF CreateSession
<1> HIDE DEF Unborn
<1>2. PICK least \in Unborn : \A t \in Unborn : least <= t
  BY <1>1, SmallestExists
<1>3. least \in SessionIds /\ IsNew(least)
  BY <1>2, LiveFacts DEF Unborn, SessionIds
<1>4. PICK new : new = CHOOSE s \in SessionIds : IsNew(s)
  OBVIOUS
<1>5. new \in SessionIds /\ IsNew(new)
  BY <1>3, <1>4
<1>6. PICK row : row = [installation |-> i, state |-> "live", issued |-> 1]
  OBVIOUS
<1>7. row \in SessionRow /\ row.installation = i /\ row.state = "live"
  BY <1>6 DEF SessionRow, SessionStates
<1>8. PICK R : R = Replaced(i)
  OBVIOUS
<1>9. mobile' = [RevokedIn(R) EXCEPT ![new] = row] /\ tokens' = [tokens EXCEPT ![new] = {1}]
  BY <1>4, <1>6, <1>8 DEF CreateSession
<1>10. SessionShape /\ new \notin Live
  BY <1>5 DEF SessionInv, Live
<1>11. /\ RevokedIn(R) \in [SessionIds -> SessionRow]
       /\ \A s \in SessionIds : /\ RevokedIn(R)[s].installation = mobile[s].installation
                                /\ RevokedIn(R)[s].state = "live" <=> s \in Live /\ s \notin R
  BY <1>10, RevokedFacts
<1>12. SessionShape'
  BY <1>5, <1>7, <1>9, <1>10, <1>11 DEF SessionShape
<1>13. PICK K : K = Live \ R
  OBVIOUS
<1>14. Live' = K \cup {new} /\ mobile'[new] = row /\ tokens'[new] = {1}
       /\ \A s \in K : mobile'[s].installation = mobile[s].installation /\ tokens'[s] = tokens[s]
  <2>1. \A s \in SessionIds : s # new => mobile'[s] = RevokedIn(R)[s] /\ tokens'[s] = tokens[s]
    BY <1>5, <1>9, <1>10, <1>11 DEF SessionShape
  <2>2. mobile'[new] = row /\ tokens'[new] = {1}
    BY <1>5, <1>9, <1>10, <1>11 DEF SessionShape
  <2>3. \A s \in SessionIds : s \in Live' <=> mobile'[s].state = "live"
    BY DEF Live
  <2>4. \A s \in K : s \in SessionIds /\ s \in Live /\ s # new
    BY <1>10, <1>13, LiveFacts
  <2>5. ASSUME NEW s PROVE s \in Live' <=> s \in K \cup {new}
    <3>1. s \in Live' => s \in SessionIds
      BY DEF Live
    <3>2. CASE s = new
      BY <3>2, <1>5, <1>7, <2>2, <2>3
    <3>3. CASE s # new /\ s \in SessionIds
      BY <3>3, <1>11, <1>13, <2>1, <2>3
    <3>4. QED
      BY <3>1, <3>2, <3>3, <2>4
  <2>6. QED
    BY <1>11, <2>1, <2>2, <2>4, <2>5
<1>15. \A s \in K : s \in others /\ ~(Cardinality({t \in others : t > s}) >= MaxLive - 1)
  BY <1>8, <1>13, Zenon DEF Replaced
<1>16. IsFiniteSet(others) /\ others \subseteq Nat
  <2>1. others \subseteq Live
    OBVIOUS
  <2>2. QED
    BY <2>1, LiveFacts
<1>17. \A s \in K : mobile[s].installation # i
  BY <1>15
<1> HIDE DEF others
<1>18. K \subseteq others /\ IsFiniteSet(K)
  BY <1>13, <1>15, LiveFacts
<1>19. Cardinality(K) <= MaxLive - 1
  BY <1>15, <1>16, <1>18, LiveFacts, NewestAreFew
<1>20. Cardinality(K \cup {new}) <= MaxLive
  <2>1. new \notin K
    BY <1>10, <1>13
  <2>2. Cardinality(K \cup {new}) = Cardinality(K) + 1
    BY <2>1, <1>18, FS_AddElement
  <2>3. Cardinality(K) \in Nat
    BY <1>18, FS_CardinalityType
  <2>4. QED
    BY <2>2, <2>3, <1>19, LiveFacts
<1>21. \A s \in K : s \in Live
  BY <1>13
<1>22. \A s \in Live' : \E x \in Nat : tokens'[s] = {x}
  BY <1>14, <1>21 DEF SessionInv
<1>23. \A s, t \in Live' : s # t => mobile'[s].installation # mobile'[t].installation
  BY <1>7, <1>14, <1>17, <1>21 DEF SessionInv
<1>24. Cardinality(Live') <= MaxLive
  BY <1>14, <1>20
<1>25. QED
  BY <1>12, <1>22, <1>23, <1>24 DEF SessionInv

LEMMA SessionsEnd ==
  ASSUME SessionInv, PurgeExpired \/ \E s \in SessionIds : SessionExpires(s)
  PROVE  SessionInv'
PROOF
<1>1. SessionShape /\ \A s \in SessionIds : mobile[s] \in SessionRow
  BY DEF SessionInv, SessionShape
<1>2. CASE PurgeExpired
  <2> DEFINE expired == {s \in SessionIds : mobile[s].state = "expired"}
             row(s) == IF s \in expired THEN [mobile[s] EXCEPT !.state = "deleted"] ELSE mobile[s]
             left(s) == IF s \in expired THEN {} ELSE tokens[s]
  <2>1. ASSUME NEW s \in SessionIds
        PROVE  /\ row(s) \in SessionRow /\ row(s).installation = mobile[s].installation
               /\ row(s).state = "live" => s \in Live /\ left(s) = tokens[s]
               /\ left(s) \in SUBSET Nat
    BY <1>1 DEF SessionRow, SessionStates, Live, SessionShape
  <2>2. mobile' = [s \in SessionIds |-> row(s)] /\ tokens' = [s \in SessionIds |-> left(s)]
    BY <1>2 DEF PurgeExpired
  <2> HIDE DEF row, left
  <2>3. SessionShape'
    BY <2>1, <2>2 DEF SessionShape
  <2>4. \A s \in Live' : s \in SessionIds /\ mobile'[s].state = "live"
    BY DEF Live
  <2>5. \A s \in Live' : /\ s \in Live /\ mobile'[s].installation = mobile[s].installation
                         /\ tokens'[s] = tokens[s]
    BY <2>1, <2>2, <2>4
  <2>6. QED
    BY <2>3, <2>5, SessionsGo
<1>3. ASSUME NEW s \in SessionIds, SessionExpires(s) PROVE SessionInv'
  <2>1. PICK row : row = [mobile[s] EXCEPT !.state = "expired"]
    OBVIOUS
  <2>2. row \in SessionRow /\ row.state = "expired" /\ row.installation = mobile[s].installation
    BY <1>1, <2>1 DEF SessionRow, SessionStates
  <2>3. mobile' = [mobile EXCEPT ![s] = row] /\ UNCHANGED tokens
    BY <1>3, <2>1 DEF SessionExpires
  <2>4. SessionShape'
    BY <1>1, <2>2, <2>3 DEF SessionShape
  <2>5. \A t \in Live' : t \in SessionIds /\ mobile'[t].state = "live"
    BY DEF Live
  <2>6. \A t \in Live' : t # s /\ mobile'[t] = mobile[t]
    BY <1>1, <2>2, <2>3, <2>5 DEF SessionShape
  <2>7. \A t \in Live' : t \in Live
    BY <2>5, <2>6 DEF Live
  <2>8. QED
    BY <2>3, <2>4, <2>6, <2>7, SessionsGo
<1>4. QED
  BY <1>2, <1>3

(* However refreshes, logins, revocations and the purge overlap, a live    *)
(* session has exactly one token that refreshes it, an installation has    *)
(* one live session, and a user at most MAX_SESSIONS: creating one revokes *)
(* all but the newest others first (create_session, refresh_session).      *)
THEOREM MobileSessionsAreSingle == MobileSpec => []SessionsAreSingle
PROOF
<1>1. SessionInv /\ [MobileNext]_mobileVars => SessionInv'
  <2> SUFFICES ASSUME SessionInv, [MobileNext]_mobileVars PROVE SessionInv'
    OBVIOUS
  <2>1. ASSUME NEW i \in Installations, LoginSucceeds(i) \/ VerifySucceeds(i) PROVE SessionInv'
    BY <2>1, SessionCreated DEF LoginSucceeds, VerifySucceeds
  <2>2. ASSUME NEW r \in Refreshers, Refresh(r) PROVE SessionInv'
    BY <2>2, SessionRefreshed
  <2>3. ASSUME NEW r \in Refreshers, NEW logout \in BOOLEAN, EndSession(r, logout)
        PROVE  SessionInv'
    <3>1. PICK S : S = {lookups[r].session}
      OBVIOUS
    <3>2. mobile' = RevokedIn(S) /\ UNCHANGED tokens
      BY <2>3, <3>1 DEF EndSession
    <3>3. QED
      BY <3>2, SessionsRevoked
  <2>4. ASSUME NEW S, RevokeSessions(S) PROVE SessionInv'
    BY <2>4, SessionsRevoked DEF RevokeSessions
  <2>5. ASSUME UNCHANGED <<mobile, tokens>> PROVE SessionInv'
    BY <2>5 DEF SessionInv, SessionShape, Live
  <2>6. CASE \/ LoginFails \/ LockEnds \/ RequestSignup \/ VerifyFails \/ UNCHANGED mobileVars
             \/ \E r \in Refreshers, s \in SessionIds, token \in 1 .. MaxRotations :
                  FindToken(r, s, token)
             \/ \E r \in Refreshers : RefreshEnds(r)
    BY <2>5, <2>6 DEF LoginFails, LockEnds, RequestSignup, VerifyFails, FindToken, RefreshEnds,
                      mobileVars
  <2>7. QED
    BY <2>1, <2>2, <2>3, <2>4, <2>6, SessionsEnd DEF MobileNext
<1>2. QED
  BY SessionInitInv, SessionsSound, <1>1, PTL DEF MobileSpec

(***************************************************************************)
(* Accounts of an organization                                             *)
(*                                                                         *)
(* The organisation keeps an administrator, for any accounts, requests and *)
(* number of invitations.                                                  *)
(***************************************************************************)
RequestType ==
  [op : {"none", "member", "invite", "accept", "cancel"}, account : Accounts,
   member : MemberType, invitation : 0 .. MaxInvitations, found : InvitationType]

(* A request that holds an invitation has one of the rows.                 *)
HoldsInvitation ==
  \A r \in AccountRequests :
    requests[r].op \in {"accept", "cancel"} => requests[r].invitation \in InvitationIds

AccountsInv == AccountsTypeOK /\ HoldsInvitation

(* The default values are rows and requests.                               *)
LEMMA DefaultsAreTyped ==
  /\ NotMember \in MemberType
  /\ Unsent \in InvitationType
  /\ NoRequest \in RequestType
  /\ NoRequest.op = "none"
<1> DEFINE someone == CHOOSE a \in Accounts : TRUE
<1>1. someone \in Accounts
  BY AccountsAssumption
<1>2. NotMember \in MemberType
  BY DEF NotMember, MemberType
<1>3. Unsent \in InvitationType
  BY <1>1 DEF Unsent, InvitationType
<1>4. 0 \in 0 .. MaxInvitations
  BY AccountsAssumption
<1>5. NoRequest \in RequestType /\ NoRequest.op = "none"
  BY <1>1, <1>2, <1>3, <1>4 DEF NoRequest, RequestType
<1>6. QED
  BY <1>2, <1>3, <1>5

(* A request that ends keeps the requests typed.                           *)
LEMMA EndRequestIsTyped ==
  ASSUME NEW r \in AccountRequests, AccountsInv, EndRequest(r)
  PROVE  /\ requests' \in [AccountRequests -> RequestType]
         /\ HoldsInvitation'
<1>1. requests \in [AccountRequests -> RequestType]
  BY DEF AccountsInv, AccountsTypeOK, RequestType
<1>2. requests' = [requests EXCEPT ![r] = NoRequest]
  BY DEF EndRequest
<1>3. requests' \in [AccountRequests -> RequestType]
  BY <1>1, <1>2, DefaultsAreTyped
<1>4. ASSUME NEW s \in AccountRequests, requests'[s].op \in {"accept", "cancel"}
      PROVE  requests'[s].invitation \in InvitationIds
  BY <1>1, <1>2, <1>4, DefaultsAreTyped DEF AccountsInv, HoldsInvitation
<1>5. HoldsInvitation'
  BY <1>4 DEF HoldsInvitation, InvitationIds
<1>6. QED
  BY <1>3, <1>5

(* So does one that begins, with values of the right types.                *)
LEMMA BeginIsTyped ==
  ASSUME NEW r \in AccountRequests, NEW request \in RequestType, AccountsInv,
         request.op \in {"accept", "cancel"} => request.invitation \in InvitationIds,
         requests' = [requests EXCEPT ![r] = request]
  PROVE  /\ requests' \in [AccountRequests -> RequestType]
         /\ HoldsInvitation'
<1>1. requests \in [AccountRequests -> RequestType]
  BY DEF AccountsInv, AccountsTypeOK, RequestType
<1>2. requests' \in [AccountRequests -> RequestType]
  BY <1>1
<1>3. ASSUME NEW s \in AccountRequests, requests'[s].op \in {"accept", "cancel"}
      PROVE  requests'[s].invitation \in InvitationIds
  BY <1>1, <1>3 DEF AccountsInv, HoldsInvitation
<1>4. HoldsInvitation'
  BY <1>3 DEF HoldsInvitation, InvitationIds
<1>5. QED
  BY <1>2, <1>4

(* A change of one membership row under the lock.                          *)
LEMMA UpdateMemberIsTyped ==
  ASSUME NEW r \in AccountRequests, NEW row \in MemberType, NEW revokes \in BOOLEAN,
         AccountsInv, UpdateMember(r, row, revokes)
  PROVE  AccountsInv'
<1>1. requests' \in [AccountRequests -> RequestType] /\ HoldsInvitation'
  BY EndRequestIsTyped DEF UpdateMember
<1>2. members' \in [Accounts -> MemberType]
  BY DEF UpdateMember, AccountsInv, AccountsTypeOK
<1>3. signedIn' \subseteq Accounts
  BY DEF UpdateMember, AccountsInv, AccountsTypeOK
<1>4. QED
  BY <1>1, <1>2, <1>3
  DEF UpdateMember, AccountsInv, AccountsTypeOK, RequestType, InvitationIds

LEMMA InitIsTyped == AccountsInit => AccountsInv
<1> SUFFICES ASSUME AccountsInit PROVE AccountsInv
  OBVIOUS
<1>1. members \in [Accounts -> MemberType]
  BY DefaultsAreTyped DEF AccountsInit, MemberType
<1>2. invitations \in [InvitationIds -> InvitationType]
  BY DefaultsAreTyped DEF AccountsInit
<1>3. requests \in [AccountRequests -> RequestType] /\ HoldsInvitation
  BY DefaultsAreTyped DEF AccountsInit, HoldsInvitation
<1>4. QED
  BY <1>1, <1>2, <1>3 DEF AccountsInit, AccountsInv, AccountsTypeOK, RequestType

LEMMA StepIsTyped == AccountsInv /\ [AccountsNext]_accountVars => AccountsInv'
<1> SUFFICES ASSUME AccountsInv, [AccountsNext]_accountVars PROVE AccountsInv'
  OBVIOUS
<1> USE DEF RequestType
<1>0. /\ members \in [Accounts -> MemberType]
      /\ organization \in {"active", "suspended", "archived"}
      /\ invitations \in [InvitationIds -> InvitationType]
      /\ signedIn \subseteq Accounts
      /\ requests \in [AccountRequests -> RequestType]
      /\ HoldsInvitation
  BY DEF AccountsInv, AccountsTypeOK
<1>1. ASSUME NEW r \in AccountRequests, NEW a \in Accounts, LoadMember(r, a)
      PROVE  AccountsInv'
  <2> DEFINE request == [NoRequest EXCEPT !.op = "member", !.account = a, !.member = members[a]]
  <2>1. request \in RequestType /\ request.op = "member"
    BY <1>0, DefaultsAreTyped
  <2>2. requests' \in [AccountRequests -> RequestType] /\ HoldsInvitation'
    BY <1>1, <2>1, BeginIsTyped DEF LoadMember
  <2>3. QED
    BY <1>0, <1>1, <2>2 DEF LoadMember, AccountsInv, AccountsTypeOK
<1>2. ASSUME NEW r \in AccountRequests, NEW a \in Accounts, LoadForInvite(r, a)
      PROVE  AccountsInv'
  <2>1. PICK i \in IF PendingOf(a) = {} THEN {0} ELSE PendingOf(a) :
          requests' = [requests EXCEPT ![r] =
            [NoRequest EXCEPT !.op = "invite", !.account = a, !.invitation = i]]
    BY <1>2 DEF LoadForInvite
  <2>2. i \in 0 .. MaxInvitations
    BY <2>1, AccountsAssumption DEF PendingOf, InvitationIds
  <2> DEFINE request == [NoRequest EXCEPT !.op = "invite", !.account = a, !.invitation = i]
  <2>3. request \in RequestType /\ request.op = "invite"
    BY <2>2, DefaultsAreTyped
  <2>4. requests' \in [AccountRequests -> RequestType] /\ HoldsInvitation'
    BY <2>1, <2>3, BeginIsTyped
  <2>5. QED
    BY <1>0, <1>2, <2>4 DEF LoadForInvite, AccountsInv, AccountsTypeOK
<1>3. ASSUME NEW r \in AccountRequests, NEW role \in {Manager, "viewer"}, ChangeRole(r, role)
      PROVE  AccountsInv'
  <2> DEFINE row == [members[requests[r].account] EXCEPT !.role = role]
  <2>1. row \in MemberType
    BY <1>0 DEF MemberType
  <2>2. UpdateMember(r, row, TRUE)
    BY <1>3 DEF ChangeRole
  <2>3. QED
    BY <2>1, <2>2, UpdateMemberIsTyped
<1>4. ASSUME NEW r \in AccountRequests, NEW role \in {Manager, "viewer"}, Invite(r, role)
      PROVE  AccountsInv'
  <2>1. requests' \in [AccountRequests -> RequestType] /\ HoldsInvitation'
    BY <1>4, EndRequestIsTyped DEF Invite
  <2>2. invitations' \in [InvitationIds -> InvitationType]
    <3> DEFINE found == requests[r].invitation
               new == [to |-> requests[r].account, role |-> role, state |-> "pending"]
    <3>1. CASE invitations' = [invitations EXCEPT ![found].role = role]
      BY <1>0, <3>1 DEF InvitationType
    <3>2. CASE \E i : invitations' = [invitations EXCEPT ![i] = new]
      <4>1. new \in InvitationType
        BY <1>0 DEF InvitationType
      <4>2. QED
        BY <1>0, <3>2, <4>1
    <3>3. QED
      BY <1>4, <3>1, <3>2 DEF Invite
  <2>3. QED
    BY <1>0, <1>4, <2>1, <2>2 DEF Invite, AccountsInv, AccountsTypeOK
<1>5. ASSUME NEW r \in AccountRequests,
             DeactivateMember(r) \/ ReactivateMember(r) \/ RemoveMember(r)
      PROVE  AccountsInv'
  <2> DEFINE row(active) == [members[requests[r].account] EXCEPT !.active = active]
  <2>1. row(TRUE) \in MemberType /\ row(FALSE) \in MemberType
    BY <1>0 DEF MemberType
  <2>2. PICK new \in MemberType, revokes \in BOOLEAN : UpdateMember(r, new, revokes)
    BY <1>5, <2>1, DefaultsAreTyped DEF DeactivateMember, ReactivateMember, RemoveMember
  <2>3. QED
    BY <2>2, UpdateMemberIsTyped
<1>6. ASSUME NEW r \in AccountRequests, RequestEnds(r)
      PROVE  AccountsInv'
  <2>1. requests' \in [AccountRequests -> RequestType] /\ HoldsInvitation'
    BY <1>6, EndRequestIsTyped DEF RequestEnds
  <2>2. QED
    BY <1>0, <1>6, <2>1 DEF RequestEnds, AccountsInv, AccountsTypeOK
<1>7. ASSUME NEW r \in AccountRequests, AcceptInvitation(r) \/ CancelInvitation(r)
      PROVE  AccountsInv'
  <2>1. requests' \in [AccountRequests -> RequestType] /\ HoldsInvitation'
    BY <1>7, EndRequestIsTyped DEF AcceptInvitation, CancelInvitation
  <2>2. [role |-> requests[r].found.role, active |-> TRUE] \in MemberType
    BY <1>0 DEF InvitationType, MemberType
  <2>3. members' \in [Accounts -> MemberType]
    BY <1>0, <1>7, <2>2 DEF AcceptInvitation, CancelInvitation
  <2>4. invitations' \in [InvitationIds -> InvitationType]
    BY <1>0, <1>7 DEF AcceptInvitation, CancelInvitation, InvitationType
  <2>5. QED
    BY <1>0, <1>7, <2>1, <2>3, <2>4
    DEF AcceptInvitation, CancelInvitation, AccountsInv, AccountsTypeOK
<1>8. ASSUME NEW r \in AccountRequests, NEW i \in InvitationIds, NEW op \in {"accept", "cancel"},
             LoadInvitation(r, i, op)
      PROVE  AccountsInv'
  <2> DEFINE request == [NoRequest EXCEPT !.op = op, !.account = invitations[i].to,
                                          !.invitation = i, !.found = invitations[i]]
  <2>1. invitations[i] \in InvitationType /\ invitations[i].to \in Accounts
    BY <1>0 DEF InvitationType
  <2>2. i \in 0 .. MaxInvitations
    BY AccountsAssumption DEF InvitationIds
  <2>3. request \in RequestType /\ request.invitation = i
    BY <2>1, <2>2, DefaultsAreTyped
  <2>4. requests' \in [AccountRequests -> RequestType] /\ HoldsInvitation'
    BY <1>8, <2>3, BeginIsTyped DEF LoadInvitation
  <2>5. QED
    BY <1>0, <1>8, <2>4 DEF LoadInvitation, AccountsInv, AccountsTypeOK
<1>9. ASSUME NEW new \in {"active", "suspended", "archived"}, ChangeStatus(new)
      PROVE  AccountsInv'
  BY <1>0, <1>9
  DEF ChangeStatus, SessionsUnder, AccountsInv, AccountsTypeOK, HoldsInvitation, InvitationIds
<1>10. ASSUME NEW a \in Accounts, SignIn(a)
       PROVE  AccountsInv'
  BY <1>0, <1>10 DEF SignIn, AccountsInv, AccountsTypeOK, HoldsInvitation, InvitationIds
<1>11. CASE UNCHANGED accountVars
  BY <1>0, <1>11 DEF accountVars, AccountsInv, AccountsTypeOK, HoldsInvitation, InvitationIds
<1>12. QED
  BY <1>1, <1>2, <1>3, <1>4, <1>5, <1>6, <1>7, <1>8, <1>9, <1>10, <1>11 DEF AccountsNext

(* The variables of Accounts have their types in every state.              *)
THEOREM AccountsTypeCorrect == AccountsSpec => []AccountsTypeOK
<1>1. AccountsInv => AccountsTypeOK
  BY DEF AccountsInv
<1>2. QED
  BY InitIsTyped, StepIsTyped, <1>1, PTL DEF AccountsSpec

(* A change that MayStepDown allows leaves an administrator, because the   *)
(* row that is read under the lock is the row that is changed.             *)
LEMMA StepDownLeavesOne ==
  ASSUME NEW r \in AccountRequests, NEW row, NEW revokes, AccountsInv,
         MayStepDown(r), UpdateMember(r, row, revokes), Administrators # {}
  PROVE  Administrators' # {}
<1> DEFINE a == requests[r].account
<1>1. a \in Accounts /\ members \in [Accounts -> MemberType]
  BY DEF AccountsInv, AccountsTypeOK
<1>2. \A b \in Accounts \ {a} : members'[b] = members[b]
  BY <1>1 DEF UpdateMember
<1>3. \E b \in Administrators : b # a
  BY <1>1 DEF MayStepDown, LockedRow, Administrators
<1>4. PICK b \in Administrators : b # a
  BY <1>3
<1>5. b \in Administrators'
  BY <1>2, <1>4 DEF Administrators
<1>6. QED
  BY <1>5

(* One step never removes the last active administrator.                   *)
LEMMA AdministratorStays ==
  AccountsInv /\ [AccountsNext]_accountVars => (Administrators # {} => Administrators' # {})
<1> SUFFICES ASSUME AccountsInv, [AccountsNext]_accountVars, Administrators # {}
             PROVE  Administrators' # {}
  OBVIOUS
<1>0. /\ members \in [Accounts -> MemberType]
      /\ \A r \in AccountRequests : requests[r].account \in Accounts
  BY DEF AccountsInv, AccountsTypeOK
<1>1. CASE members' = members
  BY <1>1 DEF Administrators
<1>2. ASSUME NEW r \in AccountRequests, NEW role \in {Manager, "viewer"}, ChangeRole(r, role)
      PROVE  Administrators' # {}
  <2>1. CASE LockedRow(r).role = Manager
    BY <1>2, <2>1, StepDownLeavesOne DEF ChangeRole
  <2>2. CASE LockedRow(r).role # Manager
    <3>1. MayStepDown(r)
      BY <2>2 DEF MayStepDown
    <3>2. QED
      BY <1>2, <3>1, StepDownLeavesOne DEF ChangeRole
  <2>3. QED
    BY <2>1, <2>2
<1>3. ASSUME NEW r \in AccountRequests, DeactivateMember(r) \/ RemoveMember(r)
      PROVE  Administrators' # {}
  BY <1>3, StepDownLeavesOne DEF DeactivateMember, RemoveMember
<1>4. ASSUME NEW r \in AccountRequests, ReactivateMember(r)
      PROVE  Administrators' # {}
  <2>1. \A b \in Administrators : members'[b] = members[b]
    BY <1>0, <1>4 DEF ReactivateMember, UpdateMember, LockedRow, Administrators
  <2>2. QED
    BY <2>1 DEF Administrators
<1>5. ASSUME NEW r \in AccountRequests, AcceptInvitation(r)
      PROVE  Administrators' # {}
  <2>1. \A b \in Administrators : members'[b] = members[b]
    BY <1>0, <1>5 DEF AcceptInvitation, IsMember, Administrators, Manager
  <2>2. QED
    BY <2>1 DEF Administrators
<1>6. QED
  BY <1>1, <1>2, <1>3, <1>4, <1>5
  DEF AccountsNext, accountVars, LoadMember, LoadForInvite, Invite, RequestEnds,
      CancelInvitation, LoadInvitation, ChangeStatus, SignIn

(* LastAdminStays for any accounts and requests: whoever is demoted,       *)
(* deactivated or removed at the same time, an organisation that has an    *)
(* active administrator keeps one (_assert_not_last_admin).                *)
THEOREM LastAdministratorStays == AccountsSpec => LastAdminStays
<1>1. AccountsInv /\ [AccountsNext]_accountVars
        => [Administrators # {} => Administrators' # {}]_accountVars
  BY AdministratorStays
<1>2. QED
  BY InitIsTyped, StepIsTyped, <1>1, PTL DEF AccountsSpec, LastAdminStays

(***************************************************************************)
(* Jobs of the administrators                                              *)
(*                                                                         *)
(* The work of a job is done at most once, for any requests, workers and   *)
(* bounds.  JobsRunOnce is not inductive.  A worker gets beyond its claim  *)
(* only by taking the job out of the status "queued", to which no step     *)
(* returns, so the claim of a job is unique (ClaimsAreUnique); until the   *)
(* worker has committed, the job has no effect, and afterwards it has one  *)
(* (ClaimsAreTrue), which is what the worker then writes into the row.     *)
(***************************************************************************)
Claiming == {w \in Workers : workers[w].step \in {"work"} \cup Outcomes}

(* The types; what a request or a worker names is a job that was created.  *)
RowsTyped ==
  /\ jobs \in [JobIds -> {"none"} \cup ActiveJob \cup Outcomes]
  /\ created \in 0 .. MaxJobs
  /\ \A j \in JobIds : jobs[j] = "none" <=> j > created
  /\ messages \in [JobIds -> Nat] /\ handovers \in [JobIds -> Nat]
  /\ executions \in [JobIds -> {"none", "running", "succeeded", "failed"}]
  /\ effects \in [JobIds -> Nat]

TriggerType == [job : 0 .. MaxJobs, step : {"idle", "publish", "give_up"}]
RequestsTyped ==
  /\ triggers \in [Requests -> TriggerType]
  /\ \A r \in Requests : triggers[r].step # "idle" => triggers[r].job \in 1 .. created

WorkerType == [job : 0 .. MaxJobs, step : {"idle", "claim", "work", "acknowledge"} \cup Outcomes]
WorkersTyped ==
  /\ workers \in [Workers -> WorkerType]
  /\ \A w \in Workers : workers[w].step # "idle" => workers[w].job \in JobIds

JobsTyped == RowsTyped /\ RequestsTyped /\ WorkersTyped

ClaimsAreUnique == \A v, w \in Claiming : workers[v].job = workers[w].job => v = w

ClaimsAreTrue ==
  /\ \A w \in Claiming : jobs[workers[w].job] \notin {"none", "queued"}
  /\ \A w \in Workers : workers[w].step = "work" => effects[workers[w].job] = 0
  /\ \A w \in Workers : workers[w].step = "succeeded" => effects[workers[w].job] = 1

EffectsFollowStatus ==
  \A j \in JobIds : /\ effects[j] \in {0, 1}
                    /\ jobs[j] \in {"none", "queued"} => effects[j] = 0
                    /\ jobs[j] = "succeeded" => effects[j] = 1

OneActive == \A i, j \in JobIds : jobs[i] \in ActiveJob /\ jobs[j] \in ActiveJob => i = j

JobsInv ==
  /\ JobsTyped /\ ClaimsAreUnique /\ ClaimsAreTrue
  /\ EffectsFollowStatus /\ OneActive

(* The invariant gives the property: a set whose members are all equal has *)
(* one member or none.                                                     *)
LEMMA InvRunsOnce == JobsInv => JobsRunOnce
<1> SUFFICES ASSUME JobsInv PROVE JobsRunOnce
  OBVIOUS
<1> DEFINE active == {j \in JobIds : jobs[j] \in ActiveJob}
<1>1. \A j \in JobIds : effects[j] <= 1 /\ (jobs[j] = "succeeded" => effects[j] = 1)
  BY DEF JobsInv, EffectsFollowStatus
<1>2. Cardinality(active) <= 1
  <2>1. CASE active = {}
    BY <2>1, FS_EmptySet
  <2>2. CASE active # {}
    <3>1. PICK j \in active : TRUE
      BY <2>2
    <3>2. active = {j}
      BY <3>1 DEF JobsInv, OneActive
    <3>3. QED
      BY <3>2, FS_Singleton
  <2>3. QED
    BY <2>1, <2>2
<1>3. QED
  BY <1>1, <1>2 DEF JobsRunOnce

LEMMA JobsInitHolds == JobsInit => JobsInv
<1> SUFFICES ASSUME JobsInit PROVE JobsInv
  OBVIOUS
<1> USE JobsAssumption DEF JobIds, Outcomes, ActiveJob, IdleRequest, IdleWorker, NoJob
<1>1. RowsTyped
  BY DEF JobsInit, RowsTyped
<1>2. RequestsTyped /\ WorkersTyped
  BY DEF JobsInit, RequestsTyped, TriggerType, WorkersTyped, WorkerType
<1>3. Claiming = {}
  BY DEF JobsInit, Claiming
<1>4. ClaimsAreUnique /\ ClaimsAreTrue /\ EffectsFollowStatus /\ OneActive
  BY <1>3 DEF JobsInit, ClaimsAreUnique, ClaimsAreTrue, EffectsFollowStatus, OneActive
<1>5. QED
  BY <1>1, <1>2, <1>4 DEF JobsInv, JobsTyped

(* A request, or a worker, gets a new record.                              *)
LEMMA RequestChanges ==
  ASSUME JobsTyped, created' \in 0 .. MaxJobs, created' >= created,
         NEW r \in Requests, NEW new \in TriggerType,
         new.step # "idle" => new.job \in 1 .. created',
         triggers' = [triggers EXCEPT ![r] = new]
  PROVE  RequestsTyped'
<1>1. triggers \in [Requests -> TriggerType] /\ created \in 0 .. MaxJobs
  BY DEF JobsTyped, RequestsTyped, RowsTyped
<1>2. triggers' \in [Requests -> TriggerType]
  BY <1>1
<1>3. ASSUME NEW s \in Requests, triggers'[s].step # "idle"
      PROVE  triggers'[s].job \in 1 .. created'
  <2>1. CASE s = r
    BY <1>1, <1>3, <2>1
  <2>2. CASE s # r
    <3>1. triggers'[s] = triggers[s] /\ triggers[s].job \in 1 .. created
      BY <1>1, <1>3, <2>2 DEF JobsTyped, RequestsTyped
    <3>2. QED
      BY <1>1, <3>1
  <2>3. QED
    BY <2>1, <2>2
<1>4. QED
  BY <1>2, <1>3 DEF RequestsTyped, TriggerType

LEMMA WorkerChanges ==
  ASSUME JobsTyped, NEW w \in Workers, NEW new \in WorkerType,
         new.step # "idle" => new.job \in JobIds,
         workers' = [workers EXCEPT ![w] = new]
  PROVE  WorkersTyped'
<1>1. workers \in [Workers -> WorkerType]
  BY DEF JobsTyped, WorkersTyped
<1>2. workers' \in [Workers -> WorkerType]
  BY <1>1
<1>3. \A v \in Workers : workers'[v].step # "idle" => workers'[v].job \in JobIds
  BY <1>1 DEF JobsTyped, WorkersTyped
<1>4. QED
  BY <1>2, <1>3 DEF WorkersTyped, WorkerType, JobIds, Outcomes

(* In particular, a worker that is busy goes on to another step.           *)
LEMMA WorkerGoesOn ==
  ASSUME JobsTyped, NEW w \in Workers, workers[w].step # "idle",
         NEW step \in {"work", "acknowledge"} \cup Outcomes, WorkerGoesTo(w, step)
  PROVE  WorkersTyped'
<1> DEFINE new == [workers[w] EXCEPT !.step = step]
<1>1. workers[w] \in WorkerType /\ workers[w].job \in JobIds
  BY DEF JobsTyped, WorkersTyped
<1>2. new \in WorkerType /\ new.job = workers[w].job
  BY <1>1 DEF WorkerType
<1>3. workers' = [workers EXCEPT ![w] = new]
  BY DEF WorkerGoesTo
<1>4. QED
  BY <1>1, <1>2, <1>3, WorkerChanges

LEMMA StaysTyped == JobsInv /\ [JobsNext]_jobVars => JobsTyped'
<1> SUFFICES ASSUME JobsInv, [JobsNext]_jobVars PROVE JobsTyped'
  OBVIOUS
<1> USE JobsAssumption
<1>0. /\ JobsTyped /\ RowsTyped /\ RequestsTyped /\ WorkersTyped
      /\ created \in 0 .. MaxJobs
      /\ \A r \in Requests : triggers[r].step # "idle" => triggers[r].job \in 1 .. created
      /\ \A r \in Requests : triggers[r].step # "idle" => triggers[r].job \in JobIds
      /\ \A w \in Workers : workers[w].step # "idle" => workers[w].job \in JobIds
  BY DEF JobsInv, JobsTyped, RowsTyped, RequestsTyped, WorkersTyped, JobIds
<1>a. IdleRequest \in TriggerType /\ IdleRequest.step = "idle"
  BY DEF IdleRequest, TriggerType, NoJob
<1>b. IdleWorker \in WorkerType /\ IdleWorker.step = "idle"
  BY DEF IdleWorker, WorkerType, NoJob
<1>c. UNCHANGED workers => WorkersTyped'
  BY <1>0 DEF WorkersTyped, WorkerType, JobIds, Outcomes
<1>d. UNCHANGED <<triggers, created>> => RequestsTyped'
  BY <1>0 DEF RequestsTyped, TriggerType
<1>e. ASSUME UNCHANGED <<jobs, created>>, effects' \in [JobIds -> Nat],
             messages' \in [JobIds -> Nat], handovers' \in [JobIds -> Nat],
             executions' \in [JobIds -> {"none", "running", "succeeded", "failed"}]
      PROVE  RowsTyped'
  BY <1>0, <1>e DEF RowsTyped, JobIds, ActiveJob, Outcomes
<1>f. /\ effects \in [JobIds -> Nat] /\ messages \in [JobIds -> Nat]
      /\ handovers \in [JobIds -> Nat]
      /\ executions \in [JobIds -> {"none", "running", "succeeded", "failed"}]
  BY <1>0 DEF RowsTyped
<1>1. ASSUME NEW r \in Requests, TriggerJob(r)
      PROVE  JobsTyped'
  <2> DEFINE new == [job |-> created + 1, step |-> "publish"]
  <2>1. /\ created' = created + 1 /\ created' \in 0 .. MaxJobs /\ created' \in JobIds
        /\ new \in TriggerType
    BY <1>0, <1>1 DEF TriggerJob, TriggerType, JobIds
  <2>2. RequestsTyped'
    <3>1. triggers' = [triggers EXCEPT ![r] = new]
      BY <1>1 DEF TriggerJob
    <3>2. new.job \in 1 .. created' /\ created' >= created
      BY <1>0, <2>1
    <3> HIDE DEF new
    <3>3. QED
      BY <1>0, <2>1, <3>1, <3>2, RequestChanges
  <2>3. RowsTyped'
    BY <1>0, <1>1, <2>1 DEF TriggerJob, RowsTyped, JobIds, ActiveJob, Outcomes
  <2>4. QED
    BY <1>1, <1>c, <2>2, <2>3 DEF TriggerJob, JobsTyped
<1>2. ASSUME NEW r \in Requests, NEW arrived \in BOOLEAN,
             PublishJob(r) \/ PublishRaises(r, arrived)
      PROVE  JobsTyped'
  <2> DEFINE new == [triggers[r] EXCEPT !.step = "give_up"]
  <2>1. new \in TriggerType /\ new.job \in 1 .. created /\ triggers[r].job \in JobIds
    BY <1>0, <1>2 DEF PublishJob, PublishRaises, RequestsTyped, TriggerType
  <2>2. RequestsTyped'
    <3>1. \/ triggers' = [triggers EXCEPT ![r] = IdleRequest]
          \/ triggers' = [triggers EXCEPT ![r] = new]
      BY <1>2 DEF PublishJob, PublishRaises
    <3>2. created' = created
      BY <1>2 DEF PublishJob, PublishRaises
    <3>3. QED
      <4>1. created' >= created /\ created' \in 0 .. MaxJobs /\ new.job \in 1 .. created'
        BY <1>0, <2>1, <3>2
      <4>2. CASE triggers' = [triggers EXCEPT ![r] = IdleRequest]
        BY <1>0, <1>a, <4>1, <4>2, RequestChanges
      <4>3. CASE triggers' = [triggers EXCEPT ![r] = new]
        <5> HIDE DEF new
        <5>1. QED
          BY <1>0, <2>1, <4>1, <4>3, RequestChanges
      <4>4. QED
        BY <3>1, <4>2, <4>3
  <2>3. messages' \in [JobIds -> Nat]
    BY <1>0, <1>2, <2>1 DEF PublishJob, PublishRaises, RowsTyped
  <2>4. RowsTyped'
    BY <1>0, <1>2, <2>3 DEF PublishJob, PublishRaises, RowsTyped, JobIds, ActiveJob, Outcomes
  <2>5. QED
    BY <1>2, <1>c, <2>2, <2>4 DEF PublishJob, PublishRaises, JobsTyped
<1>3. ASSUME NEW r \in Requests, GiveUpJob(r) \/ RequestDies(r)
      PROVE  JobsTyped'
  <2>1. RequestsTyped'
    BY <1>0, <1>3, <1>a, RequestChanges DEF GiveUpJob, RequestDies
  <2>2. triggers[r].job \in 1 .. created /\ triggers[r].job \in JobIds
    BY <1>0, <1>3 DEF GiveUpJob, RequestDies
  <2>3. RowsTyped'
    <3>1. CASE GiveUpJob(r)
      <4>1. jobs' = [jobs EXCEPT ![triggers[r].job] = "failed"]
        BY <3>1 DEF GiveUpJob
      <4>2. \A j \in JobIds : jobs'[j] = "none" <=> j > created
        BY <1>0, <2>2, <4>1 DEF RowsTyped
      <4>3. jobs' \in [JobIds -> {"none"} \cup ActiveJob \cup Outcomes]
        BY <1>0, <4>1 DEF RowsTyped, Outcomes
      <4>4. QED
        BY <1>0, <1>f, <3>1, <4>2, <4>3 DEF GiveUpJob, RowsTyped, JobIds, ActiveJob, Outcomes
    <3>2. CASE RequestDies(r)
      BY <1>e, <1>f, <3>2 DEF RequestDies
    <3>3. QED
      BY <1>3, <3>1, <3>2
  <2>4. QED
    BY <1>3, <1>c, <2>1, <2>3 DEF GiveUpJob, RequestDies, JobsTyped
<1>4. ASSUME NEW w \in Workers, NEW j \in JobIds, ReceiveJob(w, j)
      PROVE  JobsTyped'
  <2> DEFINE new == [job |-> j, step |-> "claim"]
  <2>1. new \in WorkerType
    BY DEF WorkerType, JobIds
  <2>2. WorkersTyped'
    BY <1>0, <1>4, <2>1, WorkerChanges DEF ReceiveJob
  <2>3. RowsTyped'
    BY <1>0, <1>4 DEF ReceiveJob, RowsTyped, JobIds, ActiveJob, Outcomes
  <2>4. QED
    BY <1>4, <1>d, <2>2, <2>3 DEF ReceiveJob, JobsTyped
<1>5. ASSUME NEW w \in Workers, ClaimJob(w)
      PROVE  JobsTyped'
  <2>1. workers[w].step # "idle" /\ workers[w].job \in JobIds
    BY <1>0, <1>5 DEF ClaimJob
  <2>2. WorkersTyped'
    BY <1>0, <1>5, <2>1, WorkerGoesOn DEF ClaimJob
  <2>3. RowsTyped'
    BY <1>0, <1>5, <2>1 DEF ClaimJob, Claimable, RowsTyped, JobIds, ActiveJob, Outcomes
  <2>4. QED
    BY <1>5, <1>d, <2>2, <2>3 DEF ClaimJob, JobsTyped
<1>6. ASSUME NEW w \in Workers, NEW outcome \in {"failed", "skipped_locked"},
             WorkCommits(w) \/ WorkStops(w, outcome)
      PROVE  JobsTyped'
  <2>1. workers[w].step # "idle" /\ workers[w].job \in JobIds
    BY <1>0, <1>6 DEF WorkCommits, WorkStops
  <2>2. WorkersTyped'
    BY <1>0, <1>6, <2>1, WorkerGoesOn DEF WorkCommits, WorkStops, Outcomes
  <2>3. RowsTyped'
    <3>1. effects' \in [JobIds -> Nat]
      BY <1>f, <1>6, <2>1 DEF WorkCommits, WorkStops
    <3>2. QED
      BY <3>1, <1>e, <1>f, <1>6 DEF WorkCommits, WorkStops
  <2>4. QED
    BY <1>6, <1>d, <2>2, <2>3 DEF WorkCommits, WorkStops, JobsTyped
<1>7. ASSUME NEW w \in Workers, MarkJob(w)
      PROVE  JobsTyped'
  <2>1. workers[w].step # "idle" /\ workers[w].job \in JobIds /\ jobs[workers[w].job] # "none"
    BY <1>0, <1>7 DEF MarkJob, Outcomes, JobsInv, ClaimsAreTrue, Claiming
  <2>2. WorkersTyped'
    BY <1>0, <1>7, <2>1, WorkerGoesOn DEF MarkJob
  <2>3. RowsTyped'
    BY <1>0, <1>7, <2>1 DEF MarkJob, RowsTyped, JobIds, ActiveJob, Outcomes
  <2>4. QED
    BY <1>7, <1>d, <2>2, <2>3 DEF MarkJob, JobsTyped
<1>8. ASSUME NEW w \in Workers, AcknowledgeJob(w) \/ TaskRaises(w) \/ WorkerDies(w)
      PROVE  JobsTyped'
  <2>1. workers[w].step # "idle" /\ workers[w].job \in JobIds
    BY <1>0, <1>8 DEF AcknowledgeJob, TaskRaises, WorkerDies, Outcomes
  <2>2. WorkersTyped'
    BY <1>0, <1>8, <1>b, WorkerChanges DEF AcknowledgeJob, TaskRaises, WorkerDies
  <2>3. RowsTyped'
    <3>1. CASE AcknowledgeJob(w) \/ TaskRaises(w)
      <4>1. executions' \in [JobIds -> {"none", "running", "succeeded", "failed"}]
        BY <1>f, <3>1, <2>1 DEF AcknowledgeJob, TaskRaises
      <4>2. QED
        BY <1>e, <1>f, <3>1, <4>1 DEF AcknowledgeJob, TaskRaises
    <3>2. CASE WorkerDies(w)
      <4>1. messages' \in [JobIds -> Nat]
        BY <1>f, <3>2, <2>1 DEF WorkerDies
      <4>2. QED
        BY <1>e, <1>f, <3>2, <4>1 DEF WorkerDies
    <3>3. QED
      BY <1>8, <3>1, <3>2
  <2>4. QED
    BY <1>8, <1>d, <2>2, <2>3 DEF AcknowledgeJob, TaskRaises, WorkerDies, JobsTyped
<1>9. ASSUME NEW w \in Workers, DeliverAgain(w)
      PROVE  JobsTyped'
  <2>1. workers[w].job \in JobIds
    BY <1>0, <1>9 DEF DeliverAgain
  <2>2. RowsTyped'
    <3>1. messages' \in [JobIds -> Nat]
      BY <1>f, <1>9, <2>1 DEF DeliverAgain
    <3>2. QED
      BY <3>1, <1>e, <1>f, <1>9 DEF DeliverAgain
  <2>3. QED
    BY <1>9, <1>c, <1>d, <2>2 DEF DeliverAgain, JobsTyped
<1>10. CASE UNCHANGED jobVars
  BY <1>0, <1>10, <1>c, <1>d DEF jobVars, JobsTyped, RowsTyped, JobIds, ActiveJob, Outcomes
<1>11. QED
  BY <1>1, <1>2, <1>3, <1>4, <1>5, <1>6, <1>7, <1>8, <1>9, <1>10 DEF JobsNext

ClaimsHold == ClaimsAreUnique /\ ClaimsAreTrue /\ EffectsFollowStatus /\ OneActive

(* What a step does to the claims.  A worker that receives, acknowledges,  *)
(* raises or dies gives up its claim, if it had one.                       *)
LEMMA ClaimsKept == JobsInv /\ [JobsNext]_jobVars => ClaimsHold'
<1> SUFFICES ASSUME JobsInv, [JobsNext]_jobVars PROVE ClaimsHold'
  OBVIOUS
<1> USE JobsAssumption DEF JobIds, Outcomes, ActiveJob, IdleRequest, IdleWorker, NoJob,
        ClaimsHold, ClaimsAreUnique, ClaimsAreTrue, EffectsFollowStatus, OneActive, Claiming
<1>0. RowsTyped /\ RequestsTyped /\ WorkersTyped /\ ClaimsHold
  BY DEF JobsInv, JobsTyped
<1>1. ASSUME UNCHANGED <<jobs, effects, workers>> PROVE ClaimsHold'
  BY <1>0, <1>1
<1>2. ASSUME NEW w \in Workers, NEW idle \in [job : 0 .. MaxJobs, step : {"idle", "claim"}],
             UNCHANGED <<jobs, effects>>, workers' = [workers EXCEPT ![w] = idle]
      PROVE  ClaimsHold'
  <2>1. \A v \in Workers : v \in Claiming' => v \in Claiming /\ workers'[v] = workers[v]
    BY <1>0, <1>2 DEF WorkersTyped
  <2>2. QED
    BY <1>0, <1>2, <2>1 DEF WorkersTyped
<1>3. ASSUME NEW r \in Requests, TriggerJob(r) PROVE ClaimsHold'
  BY <1>0, <1>3
  DEF TriggerJob, TargetIsFree, RowsTyped, RequestsTyped, TriggerType, WorkersTyped, WorkerType
<1>4. ASSUME NEW r \in Requests, GiveUpJob(r) PROVE ClaimsHold'
  BY <1>0, <1>4
  DEF GiveUpJob, RowsTyped, RequestsTyped, TriggerType, WorkersTyped, WorkerType
<1>5. ASSUME NEW w \in Workers, ClaimJob(w) PROVE ClaimsHold'
  <2> DEFINE j == workers[w].job
  <2>0. j \in JobIds /\ UNCHANGED effects
    BY <1>0, <1>5 DEF ClaimJob, WorkersTyped
  <2>1. CASE ~Claimable(j)
    <3>1. UNCHANGED jobs /\ workers' = [workers EXCEPT ![w].step = "acknowledge"]
      BY <1>5, <2>1 DEF ClaimJob, WorkerGoesTo
    <3>2. \A v \in Workers : v \in Claiming' => v \in Claiming /\ workers'[v] = workers[v]
      BY <1>0, <3>1 DEF WorkersTyped
    <3>3. QED
      BY <1>0, <2>0, <3>1, <3>2 DEF WorkersTyped
  <2>2. CASE Claimable(j)
    <3>1. /\ jobs[j] = "queued" /\ jobs' = [jobs EXCEPT ![j] = "running"]
          /\ workers' = [workers EXCEPT ![w].step = "work"]
      BY <1>5, <2>2 DEF ClaimJob, Claimable, WorkerGoesTo
    <3>2. \A v \in Claiming : workers[v].job # j /\ v # w
      BY <1>0, <1>5, <3>1 DEF ClaimJob
    <3>3. /\ workers'[w].job = j /\ workers'[w].step = "work"
          /\ \A v \in Workers : v # w => workers'[v] = workers[v]
      BY <1>0, <3>1 DEF WorkersTyped, WorkerType
    <3>4. ClaimsAreUnique'
      BY <1>0, <3>2, <3>3
    <3>5. ClaimsAreTrue'
      BY <1>0, <2>0, <3>1, <3>2, <3>3 DEF RowsTyped, WorkersTyped
    <3>6. EffectsFollowStatus' /\ OneActive'
      BY <1>0, <2>0, <3>1 DEF RowsTyped
    <3>7. QED
      BY <3>4, <3>5, <3>6
  <2>3. QED
    BY <2>1, <2>2
<1>6. ASSUME NEW w \in Workers, WorkCommits(w) PROVE ClaimsHold'
  <2> DEFINE j == workers[w].job
  <2>1. /\ j \in JobIds /\ w \in Claiming /\ effects[j] = 0
        /\ UNCHANGED jobs /\ effects' = [effects EXCEPT ![j] = @ + 1]
        /\ workers' = [workers EXCEPT ![w].step = "succeeded"]
    BY <1>0, <1>6 DEF WorkCommits, WorkerGoesTo, WorkersTyped
  <2>2. /\ workers'[w].job = j /\ workers'[w].step = "succeeded"
        /\ \A v \in Workers : v # w => workers'[v] = workers[v]
    BY <1>0, <2>1 DEF WorkersTyped, WorkerType
  <2>3. effects'[j] = 1 /\ \A i \in JobIds : i # j => effects'[i] = effects[i]
    BY <1>0, <2>1 DEF RowsTyped
  <2>4. \A v \in Claiming : v # w => workers[v].job # j /\ workers[v].job \in JobIds
    BY <1>0, <2>1 DEF WorkersTyped
  <2>5. ClaimsAreUnique' /\ OneActive'
    BY <1>0, <2>1, <2>2
  <2>6. ClaimsAreTrue'
    BY <1>0, <2>1, <2>2, <2>3, <2>4
  <2>7. EffectsFollowStatus'
    BY <1>0, <2>1, <2>3
  <2>8. QED
    BY <2>5, <2>6, <2>7
<1>7. ASSUME NEW w \in Workers, NEW outcome \in {"failed", "skipped_locked"},
             WorkStops(w, outcome)
      PROVE  ClaimsHold'
  <2>1. /\ w \in Claiming /\ UNCHANGED <<jobs, effects>>
        /\ workers' = [workers EXCEPT ![w].step = outcome]
    BY <1>0, <1>7 DEF WorkStops, WorkerGoesTo
  <2>2. /\ workers'[w].job = workers[w].job /\ workers'[w].step = outcome
        /\ \A v \in Workers : v # w => workers'[v] = workers[v]
    BY <1>0, <2>1 DEF WorkersTyped, WorkerType
  <2>3. ClaimsAreUnique' /\ ClaimsAreTrue'
    BY <1>0, <2>1, <2>2
  <2>4. QED
    BY <1>0, <2>1, <2>3
<1>8. ASSUME NEW w \in Workers, MarkJob(w) PROVE ClaimsHold'
  <2> DEFINE j == workers[w].job
             mark == workers[w].step
  <2>1. /\ j \in JobIds /\ w \in Claiming /\ mark \in Outcomes
        /\ UNCHANGED effects /\ jobs' = [jobs EXCEPT ![j] = mark]
        /\ workers' = [workers EXCEPT ![w].step = "acknowledge"]
    BY <1>0, <1>8 DEF MarkJob, WorkerGoesTo, WorkersTyped
  <2>2. \A v \in Workers : v \in Claiming' => v \in Claiming /\ v # w /\ workers'[v] = workers[v]
    BY <1>0, <2>1 DEF WorkersTyped, WorkerType
  <2>3. jobs'[j] = mark /\ \A i \in JobIds : i # j => jobs'[i] = jobs[i]
    BY <1>0, <2>1 DEF RowsTyped
  <2>4. \A v \in Claiming : workers[v].job \in JobIds
    BY <1>0 DEF WorkersTyped
  <2>5. ClaimsAreUnique'
    BY <1>0, <2>2
  <2>6. ClaimsAreTrue'
    BY <1>0, <2>1, <2>2, <2>3, <2>4
  <2>7. mark = "succeeded" => effects[j] = 1
    BY <1>0
  <2>8. EffectsFollowStatus'
    BY <1>0, <2>1, <2>3, <2>7
  <2>9. OneActive'
    BY <1>0, <2>1, <2>3
  <2>10. QED
    BY <2>5, <2>6, <2>8, <2>9
<1>9. ASSUME NEW r \in Requests, NEW arrived \in BOOLEAN,
             PublishJob(r) \/ PublishRaises(r, arrived) \/ RequestDies(r)
      PROVE  ClaimsHold'
  BY <1>1, <1>9 DEF PublishJob, PublishRaises, RequestDies
<1>10. ASSUME NEW w \in Workers, NEW j \in JobIds, ReceiveJob(w, j) PROVE ClaimsHold'
  <2> DEFINE new == [job |-> j, step |-> "claim"]
  <2>1. new \in [job : 0 .. MaxJobs, step : {"idle", "claim"}]
    OBVIOUS
  <2>2. workers' = [workers EXCEPT ![w] = new] /\ UNCHANGED <<jobs, effects>>
    BY <1>10 DEF ReceiveJob
  <2> HIDE DEF new
  <2>3. QED
    BY <2>1, <2>2, <1>2
<1>11. ASSUME NEW w \in Workers, AcknowledgeJob(w) \/ TaskRaises(w) \/ WorkerDies(w)
       PROVE  ClaimsHold'
  <2>1. IdleWorker \in [job : 0 .. MaxJobs, step : {"idle", "claim"}]
    OBVIOUS
  <2>2. workers' = [workers EXCEPT ![w] = IdleWorker] /\ UNCHANGED <<jobs, effects>>
    BY <1>11 DEF AcknowledgeJob, TaskRaises, WorkerDies
  <2>3. QED
    BY <2>1, <2>2, <1>2
<1>12. ASSUME NEW w \in Workers, DeliverAgain(w) PROVE ClaimsHold'
  BY <1>1, <1>12 DEF DeliverAgain
<1>13. CASE UNCHANGED jobVars
  BY <1>1, <1>13 DEF jobVars
<1>14. QED
  BY <1>3, <1>4, <1>5, <1>6, <1>7, <1>8, <1>9, <1>10, <1>11, <1>12, <1>13 DEF JobsNext

(* JobsRunOnce for any requests, workers and bounds: however often the     *)
(* broker delivers a message and whenever a worker dies, the work of a job *)
(* is committed once at most, a job marked as succeeded was done, and one  *)
(* job of the target is active (_claim_admin_job, _mark_admin_job).        *)
THEOREM JobsRunOnceAlways == JobsSpec => []JobsRunOnce
<1>1. JobsInv /\ [JobsNext]_jobVars => JobsInv'
  BY StaysTyped, ClaimsKept DEF JobsInv, ClaimsHold
<1>2. QED
  BY JobsInitHolds, <1>1, InvRunsOnce, PTL DEF JobsSpec
==============================================================================
