--------------------------- MODULE Firmware_proofs ---------------------------
(***************************************************************************)
(* Proofs about Firmware for every fleet, every set of releases and every  *)
(* limit and threshold of a rollout.                                       *)
(***************************************************************************)
EXTENDS Firmware, FiniteSetTheorems, TLAPS

USE DEF fleet

(* Sanity of the vocabulary: how the sets of statuses relate.              *)
LEMMA StatusFacts ==
  /\ InFlight = Early \cup {"awaiting_confirmation"}
  /\ Terminal = TerminalFailure \cup {"succeeded", "rejected", "cancelled"}
  /\ Status = InFlight \cup Terminal \cup {"none", "requested"}
  /\ InFlight \cap (Terminal \cup {"none", "requested"}) = {}
  /\ "none" \notin Terminal /\ "requested" \notin Terminal
  /\ Early = {"offered", "downloading", "verified", "installing"}
  /\ TerminalFailure = {"failed", "timed_out", "rolled_back"}
PROOF BY DEF InFlight, Early, Terminal, TerminalFailure, Status

(***************************************************************************)
(* Type correctness                                                        *)
(***************************************************************************)
WriteSets == UNION {[D -> Status \ {"none"}] : D \in SUBSET Rows}
RollSets  == UNION {[D -> RolloutType] : D \in SUBSET Rollouts}
RelSets   == UNION {[D -> ReleaseStatus] : D \in SUBSET Releases}

TxnType ==
  [pc : {"idle", "loaded", "working"}, writes : WriteSets, rolls : RollSets,
   rels : RelSets, restarted : BOOLEAN, settle : SUBSET Rollouts,
   promote : SUBSET Rollouts, sweep : BOOLEAN, offers : SUBSET Rows,
   pauses : SUBSET Rollouts]

(* TypeOK and the shape of a transaction.                                  *)
TypeInv ==
  /\ release \in [Releases -> ReleaseStatus]
  /\ rollout \in [Rollouts -> RolloutType]
  /\ row \in [Rows -> RowType]
  /\ txn \in [Sessions -> TxnType]

LEMMA WriteSetFacts ==
  /\ \A w \in WriteSets : DOMAIN w \subseteq Rows /\ w \in [DOMAIN w -> Status \ {"none"}]
  /\ \A D \in SUBSET Rows : \A w : w \in [D -> Status \ {"none"}] => w \in WriteSets
PROOF BY DEF WriteSets

LEMMA RollSetFacts ==
  /\ \A w \in RollSets : DOMAIN w \subseteq Rollouts /\ w \in [DOMAIN w -> RolloutType]
  /\ \A D \in SUBSET Rollouts : \A w : w \in [D -> RolloutType] => w \in RollSets
PROOF BY DEF RollSets

LEMMA RelSetFacts ==
  /\ \A w \in RelSets : DOMAIN w \subseteq Releases /\ w \in [DOMAIN w -> ReleaseStatus]
  /\ \A D \in SUBSET Releases : \A w : w \in [D -> ReleaseStatus] => w \in RelSets
PROOF BY DEF RelSets

LEMMA NoTxnType ==
  /\ NoTxn \in TxnType
  /\ NoTxn.pc = "idle" /\ DOMAIN NoTxn.writes = {} /\ DOMAIN NoTxn.rolls = {}
  /\ DOMAIN NoTxn.rels = {} /\ NoTxn.offers = {} /\ NoTxn.pauses = {}
PROOF
<1>1. <<>> \in WriteSets /\ <<>> \in RollSets /\ <<>> \in RelSets
  <2>1. DOMAIN <<>> = {} /\ \A T : <<>> \in [{} -> T]
    OBVIOUS
  <2>2. QED
    BY <2>1 DEF WriteSets, RollSets, RelSets
<1>2. DOMAIN <<>> = {}
  OBVIOUS
<1>3. QED
  BY <1>1, <1>2 DEF NoTxn, TxnType

LEMMA TypeInvImplies == TypeInv => TypeOK
PROOF
<1> SUFFICES ASSUME TypeInv, NEW s \in Sessions PROVE TxnOK(txn[s])
  BY DEF TypeInv, TypeOK
<1>1. txn[s] \in TxnType
  BY DEF TypeInv
<1>2. QED
  BY <1>1, WriteSetFacts, RollSetFacts, RelSetFacts DEF TxnOK, TxnType, PartialFunction

LEMMA InitTypes == Init => TypeInv
PROOF
<1> SUFFICES ASSUME Init PROVE TypeInv
  OBVIOUS
<1>1. release \in [Releases -> ReleaseStatus]
  BY DEF Init, ReleaseStatus
<1>2. rollout \in [Rollouts -> RolloutType]
  BY DEF Init, RolloutType
<1>3. row \in [Rows -> RowType]
  BY StatusFacts DEF Init, NoRow, RowType
<1>4. txn \in [Sessions -> TxnType]
  BY NoTxnType DEF Init
<1>5. QED
  BY <1>1, <1>2, <1>3, <1>4 DEF TypeInv

(* What the handlers load.                                                 *)
LEMMA LoadTypes ==
  ASSUME TypeInv, NEW s \in Sessions, NEW t \in TxnType, Load(s, t)
  PROVE  TypeInv'
PROOF BY DEF Load, TypeInv, TxnType

LEMMA ReportType ==
  ASSUME NEW i \in Rows, NEW status \in Status \ {"none"}
  PROVE  [NoTxn EXCEPT !.writes = [j \in {i} |-> status],
                       !.settle = IF status \in Terminal THEN {i[1]} ELSE {}] \in TxnType
PROOF
<1>1. [j \in {i} |-> status] \in WriteSets
  BY WriteSetFacts
<1>2. (IF status \in Terminal THEN {i[1]} ELSE {}) \in SUBSET Rollouts
  BY DEF Rows
<1> DEFINE w == [j \in {i} |-> status]
<1> DEFINE st == IF status \in Terminal THEN {i[1]} ELSE {}
<1> HIDE DEF w, st
<1>3. [NoTxn EXCEPT !.writes = w, !.settle = st] \in TxnType
  BY <1>1, <1>2, NoTxnType DEF TxnType, w, st
<1>4. QED
  BY <1>3 DEF w, st

LEMMA DeviceLoads ==
  ASSUME TypeInv, Device
  PROVE  TypeInv'
PROOF
<1> SUFFICES ASSUME NEW s \in Requests,
      \/ \E i \in Rows : ReportEvent(s, i) \/ \E back \in BOOLEAN : ReportConfirmed(s, i, back)
      \/ \E d \in Devices : Poll(s, d)
    PROVE TypeInv'
  BY DEF Device
<1>s. s \in Sessions
  BY DEF Sessions
<1>1. ASSUME NEW i \in Rows, ReportEvent(s, i) PROVE TypeInv'
  <2>1. PICK e \in ForwardEvents : Report(s, i, StatusAfter(e))
    BY <1>1 DEF ReportEvent
  <2>2. StatusAfter(e) \in Status \ {"none"}
    BY StatusFacts DEF ForwardEvents, StatusAfter
  <2>3. QED
    BY <1>s, <2>1, <2>2, ReportType, LoadTypes DEF Report
<1>2. ASSUME NEW i \in Rows, NEW back \in BOOLEAN, ReportConfirmed(s, i, back) PROVE TypeInv'
  BY <1>s, <1>2, ReportType, LoadTypes, StatusFacts DEF ReportConfirmed, Report
<1>3. ASSUME NEW d \in Devices, Poll(s, d) PROVE TypeInv'
  <2>1. PICK dead \in SUBSET Rows :
          Load(s, [NoTxn EXCEPT !.writes = [i \in dead |-> "timed_out"]])
    BY <1>3 DEF Poll
  <2>2. [i \in dead |-> "timed_out"] \in WriteSets
    BY WriteSetFacts, StatusFacts
  <2>3. [NoTxn EXCEPT !.writes = [i \in dead |-> "timed_out"]] \in TxnType
    BY <2>2, NoTxnType DEF TxnType
  <2>4. QED
    BY <1>s, <2>1, <2>3, LoadTypes
<1>4. QED
  BY <1>1, <1>2, <1>3

LEMMA AdminLoads ==
  ASSUME TypeInv, Admin
  PROVE  TypeInv'
PROOF
<1> SUFFICES ASSUME NEW s \in Requests,
      \/ \E v \in Releases : PublishRelease(s, v) \/ RevokeRelease(s, v)
      \/ \E r \in Rollouts, v \in Releases, D \in SUBSET Devices : CreateRollout(s, r, v, D)
      \/ \E r \in Rollouts : PauseRollout(s, r) \/ ResumeRollout(s, r) \/ CancelRollout(s, r)
    PROVE TypeInv'
  BY DEF Admin
<1>s. s \in Sessions
  BY DEF Sessions
<1>m. ASSUME NEW r \in Rollouts, NEW from, NEW to \in {"active", "paused", "cancelled"},
             NEW promote \in SUBSET Rollouts, MoveRollout(s, r, from, to, promote)
      PROVE  TypeInv'
  <2> DEFINE w == [q \in {r} |-> [rollout[r] EXCEPT !.status = to]]
  <2>1. [rollout[r] EXCEPT !.status = to] \in RolloutType
    BY DEF TypeInv, RolloutType
  <2>2. w \in RollSets
    BY <2>1, RollSetFacts
  <2> HIDE DEF w
  <2>3. [NoTxn EXCEPT !.rolls = w, !.promote = promote] \in TxnType
    BY <2>2, NoTxnType DEF TxnType
  <2>4. QED
    BY <1>m, <1>s, <2>3, LoadTypes DEF MoveRollout, w
<1>1. ASSUME NEW v \in Releases, PublishRelease(s, v) PROVE TypeInv'
  <2> DEFINE w == [u \in {v} |-> "published"]
  <2>1. w \in RelSets
    BY RelSetFacts DEF ReleaseStatus
  <2> HIDE DEF w
  <2>2. [NoTxn EXCEPT !.rels = w] \in TxnType
    BY <2>1, NoTxnType DEF TxnType
  <2>3. QED
    BY <1>1, <1>s, <2>2, LoadTypes DEF PublishRelease, w
<1>2. ASSUME NEW v \in Releases, RevokeRelease(s, v) PROVE TypeInv'
  <2> DEFINE w == [u \in {v} |-> "revoked"]
  <2> DEFINE x == [i \in {i \in Rows : Target(i) = v /\ row[i].status \in NotStarted}
                     |-> "cancelled"]
  <2>1. w \in RelSets
    BY RelSetFacts DEF ReleaseStatus
  <2>2. x \in WriteSets
    BY WriteSetFacts, StatusFacts
  <2> HIDE DEF w, x
  <2>3. [NoTxn EXCEPT !.rels = w, !.writes = x] \in TxnType
    BY <2>1, <2>2, NoTxnType DEF TxnType
  <2>4. QED
    BY <1>2, <1>s, <2>3, LoadTypes DEF RevokeRelease, w, x
<1>3. ASSUME NEW r \in Rollouts, NEW v \in Releases, NEW D \in SUBSET Devices,
             CreateRollout(s, r, v, D)
      PROVE  TypeInv'
  <2> DEFINE w == [q \in {r} |-> [status |-> "active", release |-> v]]
  <2> DEFINE x == [i \in {<<r, d>> : d \in {d \in D : Requestable(d, v)}} |-> "requested"]
  <2>1. w \in RollSets
    BY RollSetFacts DEF RolloutType
  <2>2. {<<r, d>> : d \in {d \in D : Requestable(d, v)}} \in SUBSET Rows
    BY DEF Rows
  <2>3. x \in WriteSets
    BY <2>2, WriteSetFacts, StatusFacts
  <2> HIDE DEF w, x
  <2>4. [NoTxn EXCEPT !.rolls = w, !.writes = x, !.promote = {r}] \in TxnType
    BY <2>1, <2>3, NoTxnType DEF TxnType
  <2>5. QED
    BY <1>3, <1>s, <2>4, LoadTypes DEF CreateRollout, w, x
<1>4. ASSUME NEW r \in Rollouts, PauseRollout(s, r) \/ ResumeRollout(s, r) PROVE TypeInv'
  BY <1>4, <1>m DEF PauseRollout, ResumeRollout
<1>5. ASSUME NEW r \in Rollouts, CancelRollout(s, r) PROVE TypeInv'
  <2> DEFINE w == [q \in {r} |-> [rollout[r] EXCEPT !.status = "cancelled"]]
  <2> DEFINE x == [i \in {i \in RowsOf(r) : row[i].status \in Cancellable} |-> "cancelled"]
  <2>1. [rollout[r] EXCEPT !.status = "cancelled"] \in RolloutType
    BY DEF TypeInv, RolloutType
  <2>2. w \in RollSets
    BY <2>1, RollSetFacts
  <2>3. x \in WriteSets
    BY WriteSetFacts, StatusFacts DEF RowsOf
  <2> HIDE DEF w, x
  <2>4. [NoTxn EXCEPT !.rolls = w, !.writes = x] \in TxnType
    BY <2>2, <2>3, NoTxnType DEF TxnType
  <2>5. QED
    BY <1>5, <1>s, <2>4, LoadTypes DEF CancelRollout, w, x
<1>6. QED
  BY <1>1, <1>2, <1>3, <1>4, <1>5

LEMMA SweepLoads ==
  ASSUME TypeInv, NEW s \in Sweepers, Sweep(s)
  PROVE  TypeInv'
PROOF
<1> DEFINE overdue == {i \in Rows : row[i].status \in HasDeadline /\ row[i].late}
<1> DEFINE w == [i \in overdue |-> "timed_out"]
<1> DEFINE r == {i[1] : i \in overdue}
<1>1. w \in WriteSets
  BY WriteSetFacts, StatusFacts
<1>2. r \in SUBSET Rollouts
  BY DEF Rows
<1>3. Load(s, [NoTxn EXCEPT !.writes = w, !.settle = r, !.sweep = CatchUp])
  BY DEF Sweep
<1> HIDE DEF w, r
<1>4. [NoTxn EXCEPT !.writes = w, !.settle = r, !.sweep = CatchUp] \in TxnType
  BY <1>1, <1>2, NoTxnType DEF TxnType, CatchUp
<1>5. QED
  BY <1>3, <1>4, LoadTypes DEF Sessions

LEMMA WorkTypes ==
  ASSUME TypeInv, NEW s \in Sessions, Work(s)
  PROVE  TypeInv'
PROOF
<1>1. PICK offers \in SUBSET Rows, pauses \in SUBSET Rollouts :
        txn' = [txn EXCEPT ![s] = [txn[s] EXCEPT !.pc = "working", !.offers = offers,
                  !.pauses = pauses, !.settle = {}, !.promote = {}, !.sweep = FALSE]]
  BY DEF Work
<1>2. [txn[s] EXCEPT !.pc = "working", !.offers = offers,
         !.pauses = pauses, !.settle = {}, !.promote = {}, !.sweep = FALSE] \in TxnType
  BY DEF TypeInv, TxnType
<1>3. UNCHANGED fleet
  BY DEF Work
<1>4. QED
  BY <1>1, <1>2, <1>3 DEF TypeInv

LEMMA CommitTypes ==
  ASSUME TypeInv, NEW s \in Sessions, Commit(s)
  PROVE  TypeInv'
PROOF
<1>1. txn[s] \in TxnType
  BY DEF TypeInv
<1>2. release' \in [Releases -> ReleaseStatus]
  BY <1>1, RelSetFacts DEF Commit, TypeInv, TxnType
<1>3. rollout' \in [Rollouts -> RolloutType]
  <2>1. \A r \in Rollouts : [rollout[r] EXCEPT !.status = "paused"] \in RolloutType
    BY DEF TypeInv, RolloutType
  <2>2. txn[s].rolls \in RollSets
    BY <1>1 DEF TxnType
  <2>3. QED
    BY <2>1, <2>2, RollSetFacts DEF Commit, TypeInv
<1>4. row' \in [Rows -> RowType]
  <2>1. ASSUME NEW i \in Rows, NEW status \in Status, NEW b \in BOOLEAN
        PROVE  Written(i, status, b) \in RowType
    BY DEF Written, RowType, TypeInv
  <2>2. txn[s].writes \in WriteSets /\ txn[s].restarted \in BOOLEAN
    BY <1>1 DEF TxnType
  <2>3. \A i \in DOMAIN txn[s].writes : txn[s].writes[i] \in Status
    BY <2>2, WriteSetFacts
  <2>4. \A i \in Rows :
          (IF i \in txn[s].offers THEN Written(i, "offered", FALSE)
           ELSE IF i \in DOMAIN txn[s].writes
                THEN Written(i, txn[s].writes[i], txn[s].restarted) ELSE row[i]) \in RowType
    BY <2>1, <2>2, <2>3, StatusFacts DEF TypeInv
  <2>5. QED
    BY <2>4 DEF Commit
<1>5. txn' \in [Sessions -> TxnType]
  BY NoTxnType DEF Commit, TypeInv
<1>6. QED
  BY <1>2, <1>3, <1>4, <1>5 DEF TypeInv

LEMMA EnvironmentTypes ==
  ASSUME TypeInv, Environment
  PROVE  TypeInv'
PROOF
<1>1. ASSUME NEW i \in Rows, DeadlinePasses(i) PROVE TypeInv'
  BY <1>1 DEF DeadlinePasses, TypeInv, RowType
<1>2. ASSUME NEW d \in Devices, Reboot(d) PROVE TypeInv'
  <2>1. \A i \in Rows : [row[i] EXCEPT !.restarted = TRUE] \in RowType
    BY DEF TypeInv, RowType
  <2>2. row' \in [Rows -> RowType]
    BY <1>2, <2>1 DEF Reboot, TypeInv
  <2>3. \A s \in Sessions : [txn[s] EXCEPT !.restarted = TRUE] \in TxnType
    BY DEF TypeInv, TxnType
  <2>4. txn' \in [Sessions -> TxnType]
    BY <1>2, <2>3 DEF Reboot, TypeInv
  <2>5. QED
    BY <1>2, <2>2, <2>4 DEF Reboot, TypeInv
<1>3. QED
  BY <1>1, <1>2 DEF Environment

LEMMA NextTypes == TypeInv /\ [Next]_vars => TypeInv'
PROOF
<1> SUFFICES ASSUME TypeInv, [Next]_vars PROVE TypeInv'
  OBVIOUS
<1>1. ASSUME NEW s \in Sessions, Finish(s) PROVE TypeInv'
  <2>1. CASE Rollback(s)
    BY <2>1, NoTxnType DEF Rollback, TypeInv
  <2>2. QED
    BY <1>1, <2>1, WorkTypes, CommitTypes DEF Finish
<1>2. CASE UNCHANGED vars
  BY <1>2 DEF vars, TypeInv
<1>3. QED
  BY <1>1, <1>2, DeviceLoads, AdminLoads, SweepLoads, EnvironmentTypes DEF Next

(* The rows of releases, rollouts and deployments keep their types, and    *)
(* so do the transactions that are to write them.                          *)
THEOREM FirmwareTypeCorrect == Spec => []TypeOK
PROOF
<1>1. QED
  BY InitTypes, NextTypes, TypeInvImplies, PTL DEF Spec

(***************************************************************************)
(* A success needs a restart                                               *)
(***************************************************************************)
(* A session that is about to record a success holds a row whose device    *)
(* has restarted, and only requests record successes or restarts.          *)
RestartTxn(s, w) ==
  \A i \in DOMAIN w : w[i] \in {"succeeded", "awaiting_confirmation"} =>
    s \in Requests /\ (w[i] = "succeeded" => row[i].restarted)

RestartInv ==
  /\ TypeInv
  /\ SuccessNeedsRestart
  /\ \A s \in Sessions : RestartTxn(s, txn[s].writes)

LEMMA RestartInit == Init => RestartInv
PROOF
<1> SUFFICES ASSUME Init PROVE RestartInv
  OBVIOUS
<1>1. SuccessNeedsRestart
  BY DEF Init, NoRow, SuccessNeedsRestart
<1>2. \A s \in Sessions : RestartTxn(s, txn[s].writes)
  BY NoTxnType DEF Init, RestartTxn
<1>3. QED
  BY <1>1, <1>2, InitTypes DEF RestartInv

LEMMA RestartLoads ==
  ASSUME RestartInv, TypeInv', NEW s \in Sessions, NEW t, Load(s, t),
         RestartTxn(s, t.writes), [t EXCEPT !.pc = "loaded"].writes = t.writes
  PROVE  RestartInv'
PROOF
<1>1. SuccessNeedsRestart'
  BY DEF Load, RestartInv, SuccessNeedsRestart
<1>2. ASSUME NEW u \in Sessions PROVE RestartTxn(u, txn[u].writes)'
  <2>1. txn'[u].writes = IF u = s THEN t.writes ELSE txn[u].writes
    BY DEF Load, RestartInv, TypeInv
  <2>2. UNCHANGED row
    BY DEF Load
  <2>3. CASE u = s
    BY <2>1, <2>2, <2>3 DEF RestartTxn
  <2>4. CASE u # s
    BY <2>1, <2>2, <2>4 DEF RestartInv, RestartTxn
  <2>5. QED
    BY <2>3, <2>4
<1>3. QED
  BY <1>1, <1>2 DEF RestartInv

LEMMA RestartReports ==
  ASSUME RestartInv, TypeInv', Device
  PROVE  RestartInv'
PROOF
<1> SUFFICES ASSUME NEW s \in Requests,
      \/ \E i \in Rows : ReportEvent(s, i) \/ \E back \in BOOLEAN : ReportConfirmed(s, i, back)
      \/ \E d \in Devices : Poll(s, d)
    PROVE RestartInv'
  BY DEF Device
<1>s. s \in Sessions
  BY DEF Sessions
<1>r. ASSUME NEW i \in Rows, NEW status, Report(s, i, status),
             status = "succeeded" => row[i].restarted
      PROVE  RestartInv'
  <2> DEFINE w == [j \in {i} |-> status]
  <2> DEFINE st == IF status \in Terminal THEN {i[1]} ELSE {}
  <2>1. RestartTxn(s, w)
    BY <1>r DEF RestartTxn
  <2>2. Load(s, [NoTxn EXCEPT !.writes = w, !.settle = st])
    BY <1>r DEF Report
  <2> HIDE DEF w, st
  <2>3. /\ [NoTxn EXCEPT !.writes = w, !.settle = st].writes = w
        /\ [[NoTxn EXCEPT !.writes = w, !.settle = st] EXCEPT !.pc = "loaded"].writes = w
    BY DEF NoTxn
  <2>4. QED
    BY <1>s, <2>1, <2>2, <2>3, RestartLoads
<1>1. ASSUME NEW i \in Rows, ReportEvent(s, i) PROVE RestartInv'
  <2>1. PICK e \in ForwardEvents : Report(s, i, StatusAfter(e))
    BY <1>1 DEF ReportEvent
  <2>2. StatusAfter(e) # "succeeded"
    BY DEF ForwardEvents, StatusAfter
  <2>3. QED
    BY <1>r, <2>1, <2>2
<1>2. ASSUME NEW i \in Rows, NEW back \in BOOLEAN, ReportConfirmed(s, i, back)
      PROVE  RestartInv'
  BY <1>r, <1>2 DEF ReportConfirmed, NewBoot
<1>3. ASSUME NEW d \in Devices, Poll(s, d) PROVE RestartInv'
  <2>1. PICK dead \in SUBSET Rows :
          Load(s, [NoTxn EXCEPT !.writes = [i \in dead |-> "timed_out"]])
    BY <1>3 DEF Poll
  <2> DEFINE w == [i \in dead |-> "timed_out"]
  <2>2. RestartTxn(s, w)
    BY DEF RestartTxn
  <2>3. Load(s, [NoTxn EXCEPT !.writes = w])
    BY <2>1
  <2> HIDE DEF w
  <2>4. /\ [NoTxn EXCEPT !.writes = w].writes = w
        /\ [[NoTxn EXCEPT !.writes = w] EXCEPT !.pc = "loaded"].writes = w
    BY DEF NoTxn
  <2>5. QED
    BY <1>s, <2>2, <2>3, <2>4, RestartLoads
<1>4. QED
  BY <1>1, <1>2, <1>3

(* The administrator and the sweep record neither successes nor restarts.  *)
LEMMA RestartAdmin ==
  ASSUME RestartInv, TypeInv', Admin \/ \E s \in Sweepers : Sweep(s)
  PROVE  RestartInv'
PROOF
<1> DEFINE Quiet(s, t) ==
      /\ Load(s, t)
      /\ \A i \in DOMAIN t.writes : t.writes[i] \in {"requested", "cancelled", "timed_out"}
      /\ [t EXCEPT !.pc = "loaded"].writes = t.writes
<1>1. \E s \in Sessions : \E t : Quiet(s, t)
  <2>1. ASSUME NEW s \in Requests, NEW v \in Releases, PublishRelease(s, v)
        PROVE  \E t : Quiet(s, t)
    <3> DEFINE w == [u \in {v} |-> "published"]
    <3>1. Load(s, [NoTxn EXCEPT !.rels = w])
      BY <2>1 DEF PublishRelease
    <3> HIDE DEF w
    <3>2. Quiet(s, [NoTxn EXCEPT !.rels = w])
      BY <3>1, NoTxnType DEF NoTxn
    <3>3. QED
      BY <3>2
  <2>2. ASSUME NEW s \in Requests, NEW v \in Releases, RevokeRelease(s, v)
        PROVE  \E t : Quiet(s, t)
    <3> DEFINE w == [u \in {v} |-> "revoked"]
    <3> DEFINE x == [i \in {i \in Rows : Target(i) = v /\ row[i].status \in NotStarted}
                       |-> "cancelled"]
    <3>1. Load(s, [NoTxn EXCEPT !.rels = w, !.writes = x])
      BY <2>2 DEF RevokeRelease
    <3>2. \A i \in DOMAIN x : x[i] = "cancelled"
      OBVIOUS
    <3> HIDE DEF w, x
    <3>3. Quiet(s, [NoTxn EXCEPT !.rels = w, !.writes = x])
      BY <3>1, <3>2 DEF NoTxn
    <3>4. QED
      BY <3>3
  <2>3. ASSUME NEW s \in Requests, NEW r \in Rollouts, NEW v \in Releases,
               NEW D \in SUBSET Devices, CreateRollout(s, r, v, D)
        PROVE  \E t : Quiet(s, t)
    <3> DEFINE w == [q \in {r} |-> [status |-> "active", release |-> v]]
    <3> DEFINE x == [i \in {<<r, d>> : d \in {d \in D : Requestable(d, v)}} |-> "requested"]
    <3>1. Load(s, [NoTxn EXCEPT !.rolls = w, !.writes = x, !.promote = {r}])
      BY <2>3 DEF CreateRollout
    <3>2. \A i \in DOMAIN x : x[i] = "requested"
      OBVIOUS
    <3> HIDE DEF w, x
    <3>3. Quiet(s, [NoTxn EXCEPT !.rolls = w, !.writes = x, !.promote = {r}])
      BY <3>1, <3>2 DEF NoTxn
    <3>4. QED
      BY <3>3
  <2>4. ASSUME NEW s \in Requests, NEW r \in Rollouts,
               PauseRollout(s, r) \/ ResumeRollout(s, r)
        PROVE  \E t : Quiet(s, t)
    <3>1. PICK w, p : Load(s, [NoTxn EXCEPT !.rolls = w, !.promote = p])
      BY <2>4 DEF PauseRollout, ResumeRollout, MoveRollout
    <3>2. Quiet(s, [NoTxn EXCEPT !.rolls = w, !.promote = p])
      BY <3>1, NoTxnType DEF NoTxn
    <3>3. QED
      BY <3>2
  <2>5. ASSUME NEW s \in Requests, NEW r \in Rollouts, CancelRollout(s, r)
        PROVE  \E t : Quiet(s, t)
    <3> DEFINE w == [q \in {r} |-> [rollout[r] EXCEPT !.status = "cancelled"]]
    <3> DEFINE x == [i \in {i \in RowsOf(r) : row[i].status \in Cancellable} |-> "cancelled"]
    <3>1. Load(s, [NoTxn EXCEPT !.rolls = w, !.writes = x])
      BY <2>5 DEF CancelRollout
    <3>2. \A i \in DOMAIN x : x[i] = "cancelled"
      OBVIOUS
    <3> HIDE DEF w, x
    <3>3. Quiet(s, [NoTxn EXCEPT !.rolls = w, !.writes = x])
      BY <3>1, <3>2 DEF NoTxn
    <3>4. QED
      BY <3>3
  <2>6. ASSUME NEW s \in Sweepers, Sweep(s) PROVE \E t : Quiet(s, t)
    <3> DEFINE overdue == {i \in Rows : row[i].status \in HasDeadline /\ row[i].late}
    <3> DEFINE x == [i \in overdue |-> "timed_out"]
    <3> DEFINE r == {i[1] : i \in overdue}
    <3>1. Load(s, [NoTxn EXCEPT !.writes = x, !.settle = r, !.sweep = CatchUp])
      BY <2>6 DEF Sweep
    <3>2. \A i \in DOMAIN x : x[i] = "timed_out"
      OBVIOUS
    <3> HIDE DEF x, r
    <3>3. Quiet(s, [NoTxn EXCEPT !.writes = x, !.settle = r, !.sweep = CatchUp])
      BY <3>1, <3>2 DEF NoTxn
    <3>4. QED
      BY <3>3
  <2> HIDE DEF Quiet
  <2>7. QED
    BY <2>1, <2>2, <2>3, <2>4, <2>5, <2>6 DEF Admin, Sessions
<1>2. PICK s \in Sessions : \E t : Quiet(s, t)
  BY <1>1
<1>3. PICK t : Quiet(s, t)
  BY <1>2
<1>4. RestartTxn(s, t.writes)
  BY <1>3 DEF RestartTxn
<1>5. QED
  BY <1>3, <1>4, RestartLoads

(* What a commit makes of a deployment.                                    *)
LEMMA WrittenFacts ==
  ASSUME NEW s \in Sessions, Commit(s), NEW i \in Rows
  PROVE  LET t == txn[s] IN
         /\ row'[i].status = IF i \in t.offers THEN "offered"
                             ELSE IF i \in DOMAIN t.writes THEN t.writes[i]
                             ELSE row[i].status
         /\ \/ row'[i].restarted = row[i].restarted
            \/ i \in DOMAIN t.writes /\ t.writes[i] = "awaiting_confirmation"
PROOF
<1> DEFINE t == txn[s]
<1>1. row'[i] = IF i \in t.offers THEN Written(i, "offered", FALSE)
                ELSE IF i \in DOMAIN t.writes THEN Written(i, t.writes[i], t.restarted)
                ELSE row[i]
  BY DEF Commit
<1> HIDE DEF t
<1>2. ASSUME NEW status, NEW restarted
      PROVE  /\ Written(i, status, restarted).status = status
             /\ status # "awaiting_confirmation" =>
                  Written(i, status, restarted).restarted = row[i].restarted
  BY DEF Written
<1>3. /\ row'[i].status = IF i \in t.offers THEN "offered"
                          ELSE IF i \in DOMAIN t.writes THEN t.writes[i]
                          ELSE row[i].status
      /\ \/ row'[i].restarted = row[i].restarted
         \/ i \in DOMAIN t.writes /\ t.writes[i] = "awaiting_confirmation"
  <2>1. CASE i \in t.offers
    <3>1. row'[i] = [status |-> "offered", late |-> FALSE, restarted |-> row[i].restarted]
      BY <1>1, <2>1, Zenon DEF Written
    <3>2. QED
      BY <2>1, <3>1
  <2>2. CASE i \notin t.offers /\ i \in DOMAIN t.writes
    BY <1>1, <1>2, <2>2
  <2>3. CASE i \notin t.offers /\ i \notin DOMAIN t.writes
    BY <1>1, <2>3
  <2>4. QED
    BY <2>1, <2>2, <2>3
<1>4. QED
  BY <1>3 DEF t

(* Work decides offers and pauses and writes nothing.                      *)
LEMMA WorkEffect ==
  ASSUME TypeInv, NEW s \in Sessions, Work(s)
  PROVE  /\ UNCHANGED row
         /\ \A u \in Sessions : txn'[u].writes = txn[u].writes
PROOF
<1>1. PICK offers, pauses :
        txn' = [txn EXCEPT ![s] = [txn[s] EXCEPT !.pc = "working", !.offers = offers,
                  !.pauses = pauses, !.settle = {}, !.promote = {}, !.sweep = FALSE]]
  BY DEF Work
<1>2. UNCHANGED row
  BY DEF Work
<1>3. QED
  BY <1>1, <1>2 DEF TypeInv, TxnType

(* A commit may replace the boot of a row only by way of a request, and    *)
(* then no other request is about to record a success.                     *)
LEMMA RestartCommits ==
  ASSUME RestartInv, TypeInv', \A u, v \in Requests : u = v,
         NEW s \in Sessions, Commit(s)
  PROVE  RestartInv'
PROOF
<1> DEFINE t == txn[s]
<1>1. \A i \in Rows :
        /\ row'[i].status = IF i \in t.offers THEN "offered"
                            ELSE IF i \in DOMAIN t.writes THEN t.writes[i]
                            ELSE row[i].status
        /\ \/ row'[i].restarted = row[i].restarted
           \/ i \in DOMAIN t.writes /\ t.writes[i] = "awaiting_confirmation"
  BY WrittenFacts
<1>t. RestartTxn(s, t.writes) /\ DOMAIN t.writes \subseteq Rows
  BY WriteSetFacts DEF RestartInv, TypeInv, TxnType
<1> HIDE DEF t
<1>2. ASSUME NEW i \in Rows
      PROVE  \/ row'[i].restarted = row[i].restarted
             \/ i \in DOMAIN t.writes /\ t.writes[i] = "awaiting_confirmation"
  BY <1>1
<1>3. ASSUME NEW i \in Rows, row'[i].status = "succeeded"
      PROVE  row'[i].restarted
  <2>1. CASE i \in t.offers
    BY <1>1, <1>3, <2>1
  <2>2. CASE i \notin t.offers /\ i \in DOMAIN t.writes
    BY <1>1, <1>3, <1>t, <2>2 DEF RestartTxn
  <2>3. CASE i \notin t.offers /\ i \notin DOMAIN t.writes
    BY <1>1, <1>3, <2>3 DEF RestartInv, SuccessNeedsRestart
  <2>4. QED
    BY <2>1, <2>2, <2>3
<1>4. SuccessNeedsRestart'
  BY <1>3 DEF SuccessNeedsRestart
<1>5. ASSUME NEW u \in Sessions PROVE RestartTxn(u, txn[u].writes)'
  <2>1. CASE u = s
    BY <2>1, NoTxnType DEF Commit, RestartInv, TypeInv, RestartTxn
  <2>2. CASE u # s
    <3>1. txn'[u] = txn[u] /\ RestartTxn(u, txn[u].writes)
          /\ DOMAIN txn[u].writes \subseteq Rows
      BY <2>2, WriteSetFacts DEF Commit, RestartInv, TypeInv, TxnType
    <3>2. ASSUME NEW i \in DOMAIN txn[u].writes, txn[u].writes[i] = "succeeded"
          PROVE  row'[i].restarted
      <4>1. u \in Requests /\ row[i].restarted
        BY <3>1, <3>2 DEF RestartTxn
      <4>2. ~(i \in DOMAIN t.writes /\ t.writes[i] = "awaiting_confirmation")
        BY <1>t, <2>2, <4>1 DEF RestartTxn
      <4>3. QED
        BY <1>2, <3>1, <4>1, <4>2
    <3>3. QED
      BY <3>1, <3>2 DEF RestartTxn
  <2>3. QED
    BY <2>1, <2>2
<1>6. QED
  BY <1>4, <1>5 DEF RestartInv

LEMMA RestartNext ==
  ASSUME RestartInv, [Next]_vars, \A u, v \in Requests : u = v
  PROVE  RestartInv'
PROOF
<1>t. TypeInv /\ TypeInv' /\ \A s \in Sessions : RestartTxn(s, txn[s].writes)
  BY NextTypes DEF RestartInv
<1>1. ASSUME NEW s \in Sessions, Work(s) PROVE RestartInv'
  <2>1. UNCHANGED row /\ \A u \in Sessions : txn'[u].writes = txn[u].writes
    BY <1>1, <1>t, WorkEffect
  <2>2. QED
    BY <1>t, <2>1 DEF RestartInv, SuccessNeedsRestart, RestartTxn
<1>2. ASSUME NEW s \in Sessions, Rollback(s) PROVE RestartInv'
  <2>1. UNCHANGED row /\ \A u \in Sessions : txn'[u] = txn[u] \/ txn'[u] = NoTxn
    BY <1>2, <1>t DEF Rollback, TypeInv
  <2>2. \A u \in Sessions : RestartTxn(u, txn[u].writes)'
    BY <1>t, <2>1, NoTxnType DEF RestartTxn
  <2>3. QED
    BY <1>t, <2>1, <2>2 DEF RestartInv, SuccessNeedsRestart
<1>3. CASE Environment
  <2>1. \A i \in Rows : /\ row'[i].status = row[i].status
                        /\ row[i].restarted => row'[i].restarted
    <3>1. CASE \E i \in Rows : DeadlinePasses(i)
      BY <1>t, <3>1 DEF DeadlinePasses, TypeInv, RowType
    <3>2. CASE \E d \in Devices : Reboot(d)
      <4>1. \A i \in Rows : row'[i] = row[i] \/ row'[i] = [row[i] EXCEPT !.restarted = TRUE]
        BY <3>2 DEF Reboot
      <4>2. QED
        BY <1>t, <4>1 DEF TypeInv, RowType
    <3>3. QED
      BY <1>3, <3>1, <3>2 DEF Environment
  <2>2. \A s \in Sessions : txn'[s].writes = txn[s].writes
    <3>1. \A s \in Sessions : txn'[s] = txn[s] \/ txn'[s] = [txn[s] EXCEPT !.restarted = TRUE]
      BY <1>3 DEF Environment, DeadlinePasses, Reboot
    <3>2. QED
      BY <1>t, <3>1 DEF TypeInv, TxnType
  <2>3. \A s \in Sessions : DOMAIN txn[s].writes \subseteq Rows
    BY <1>t, WriteSetFacts DEF TypeInv, TxnType
  <2>4. \A s \in Sessions : RestartTxn(s, txn[s].writes)'
    BY <1>t, <2>1, <2>2, <2>3 DEF RestartTxn
  <2>5. SuccessNeedsRestart'
    BY <2>1 DEF RestartInv, SuccessNeedsRestart
  <2>6. QED
    BY <1>t, <2>4, <2>5 DEF RestartInv
<1>4. CASE UNCHANGED vars
  BY <1>t, <1>4 DEF vars, RestartInv, SuccessNeedsRestart, RestartTxn
<1>5. QED
  BY <1>t, <1>1, <1>2, <1>3, <1>4, RestartReports, RestartAdmin, RestartCommits
  DEF Next, Finish

(* A device that reports one thing at a time: no deployment succeeds       *)
(* unless the device started again after the boot in which it said that it *)
(* would restart, however many sweeps overlap with its reports             *)
(* (report_deployment_event, _resolve_confirmation).                       *)
THEOREM SuccessesFollowRestarts ==
  ASSUME \A u, v \in Requests : u = v
  PROVE  Spec => []SuccessNeedsRestart
PROOF
<1>1. RestartInv => SuccessNeedsRestart
  BY DEF RestartInv
<1>2. RestartInv /\ [Next]_vars => RestartInv'
  BY RestartNext
<1>3. QED
  BY RestartInit, <1>1, <1>2, PTL DEF Spec

(***************************************************************************)
(* The handlers, when transactions do not overlap                          *)
(***************************************************************************)
(* The fleet as three functions: the status of each deployment, each       *)
(* rollout, the status of each release; and what a transaction t makes of  *)
(* each of them when it commits.                                           *)
statuses == [i \in Rows |-> row[i].status]

StNext(st, t) ==
  [i \in Rows |-> IF i \in t.offers THEN "offered"
                  ELSE IF i \in DOMAIN t.writes THEN t.writes[i] ELSE st[i]]
RoNext(ro, t) ==
  [r \in Rollouts |-> IF r \in t.pauses THEN [ro[r] EXCEPT !.status = "paused"]
                      ELSE IF r \in DOMAIN t.rolls THEN t.rolls[r] ELSE ro[r]]
ReNext(re, t) ==
  [v \in Releases |-> IF v \in DOMAIN t.rels THEN t.rels[v] ELSE re[v]]

Active == InFlight \cup {"requested"}

(* The properties of the fleet.  That a device has one active deployment   *)
(* per release is inductive in this form only: of two deployments the      *)
(* older one is over, whatever became of the newer one, because a request  *)
(* looks at the newest.                                                    *)
FlightOf(st, r) == {i \in RowsOf(r) : st[i] \in InFlight}

SafeFleet(st, ro, re) ==
  /\ \A r \in Rollouts : ro[r].status # "none" => ro[r].release \in Releases
  /\ \A i \in Rows : st[i] # "none" => ro[i[1]].status # "none"
  /\ \A i, j \in Rows :
       i[2] = j[2] /\ ro[i[1]].release = ro[j[1]].release /\ i[1] < j[1] /\ st[j] # "none"
         => st[i] \notin Active
  /\ \A i \in Rows :
       /\ st[i] \in NotStarted => re[ro[i[1]].release] = "published"
       /\ st[i] \in Early \cup {"requested"} => ro[i[1]].status # "cancelled"
  /\ \A r \in Rollouts : Cardinality(FlightOf(st, r)) <= MaxConcurrent

(* A change of status that must be followed by a look at the threshold,    *)
(* and what the look assures.                                              *)
IsFailure(old, new) ==
  /\ new # old
  /\ \/ new \in {"failed", "rolled_back"}
     \/ old = "awaiting_confirmation" /\ new = "timed_out"

BelowThreshold(st, r) ==
  LET all == {j \in RowsOf(r) : st[j] # "none"}
      bad == {j \in all : st[j] \in TerminalFailure}
  IN Cardinality(bad) * 100 < Threshold * Cardinality(all)

(* A transaction is about to commit a fleet as good as the one it read,    *)
(* and has looked, or is to look, at each rollout in which it fails a      *)
(* deployment.                                                             *)
SerialTxn(st, ro, re, t) ==
  /\ SafeFleet(StNext(st, t), RoNext(ro, t), ReNext(re, t))
  /\ t.pc = "idle" => t = NoTxn
  /\ t.pc = "loaded" =>
       /\ t.offers = {} /\ t.pauses = {}
       /\ t.settle # {} => DOMAIN t.rolls = {}
       /\ \A i \in Rows : IsFailure(st[i], StNext(st, t)[i]) => i[1] \in t.settle
  /\ t.pc = "working" =>
       \A i \in Rows : /\ IsFailure(st[i], StNext(st, t)[i])
                        /\ RoNext(ro, t)[i[1]].status = "active"
                        => BelowThreshold(StNext(st, t), i[1])

SerialInv ==
  /\ TypeInv
  /\ SafeFleet(statuses, rollout, release)
  /\ \A s \in Sessions : SerialTxn(statuses, rollout, release, txn[s])

LEMMA RowsFinite == \A r : IsFiniteSet(RowsOf(r))
PROOF
<1>1. IsFiniteSet(Rollouts)
  BY FirmwareAssumption, FS_Interval DEF Rollouts
<1>2. IsFiniteSet(Rows)
  BY <1>1, FirmwareAssumption, FS_Product DEF Rows
<1>3. QED
  BY <1>2, FS_Subset DEF RowsOf

LEMMA FlightFinite ==
  ASSUME NEW st, NEW r
  PROVE  IsFiniteSet(FlightOf(st, r)) /\ Cardinality(FlightOf(st, r)) \in Nat
PROOF BY RowsFinite, FS_Subset, FS_CardinalityType DEF FlightOf

LEMMA SmallerFlight ==
  ASSUME NEW st, NEW st2, NEW r,
         \A i \in RowsOf(r) : st2[i] \in InFlight => st[i] \in InFlight
  PROVE  Cardinality(FlightOf(st2, r)) <= Cardinality(FlightOf(st, r))
PROOF
<1>1. FlightOf(st2, r) \in SUBSET FlightOf(st, r)
  BY DEF FlightOf
<1>2. QED
  BY <1>1, FlightFinite, FS_Subset

(* Deployments only move forward, releases and rollouts only withdraw.     *)
LEMMA CalmStep ==
  ASSUME NEW st, NEW ro, NEW re, NEW st2, NEW ro2, NEW re2, SafeFleet(st, ro, re),
         \A i \in Rows :
           \/ st2[i] = st[i]
           \/ /\ st[i] \in Active
              /\ st2[i] \notin NotStarted
              /\ st2[i] \in InFlight => st[i] \in InFlight
              /\ st2[i] \in Early => st[i] \in Early,
         \A r \in Rollouts :
           /\ ro2[r].release = ro[r].release
           /\ ro[r].status = "none" <=> ro2[r].status = "none"
           /\ \/ ro2[r].status = "cancelled" => ro[r].status = "cancelled"
              \/ \A i \in RowsOf(r) : st2[i] \notin Early \cup {"requested"},
         \A i \in Rows : ro[i[1]].release \in Releases =>
           \/ re2[ro[i[1]].release] = re[ro[i[1]].release]
           \/ re[ro[i[1]].release] # "published"
           \/ st2[i] \notin NotStarted
  PROVE  SafeFleet(st2, ro2, re2)
PROOF
<1>f. /\ Early \subseteq InFlight /\ NotStarted \subseteq Early \cup {"requested"}
      /\ "none" \notin Active /\ Active = InFlight \cup {"requested"}
      /\ "requested" \in NotStarted
      /\ \A i \in Rows : i[1] \in Rollouts /\ i \in RowsOf(i[1])
  BY StatusFacts DEF NotStarted, Active, Rows, RowsOf
<1>1. \A i \in Rows : st2[i] # "none" => ro2[i[1]].status # "none"
  BY <1>f DEF SafeFleet
<1>2. \A i \in Rows : /\ st2[i] \in Active => st[i] \in Active
                      /\ st2[i] # "none" => st[i] # "none"
  BY <1>f
<1>3. ASSUME NEW i \in Rows, NEW j \in Rows, i[2] = j[2],
             ro2[i[1]].release = ro2[j[1]].release, i[1] < j[1], st2[j] # "none"
      PROVE  st2[i] \notin Active
  BY <1>2, <1>3, <1>f DEF SafeFleet
<1>4. ASSUME NEW i \in Rows, st2[i] \in NotStarted
      PROVE  re2[ro2[i[1]].release] = "published"
  BY <1>4, <1>f DEF SafeFleet
<1>5. ASSUME NEW i \in Rows, st2[i] \in Early \cup {"requested"}
      PROVE  ro2[i[1]].status # "cancelled"
  <2>1. st[i] \in Early \cup {"requested"}
    BY <1>5, <1>f
  <2>2. QED
    BY <1>5, <1>f, <2>1 DEF SafeFleet
<1>6. ASSUME NEW r \in Rollouts PROVE Cardinality(FlightOf(st2, r)) <= MaxConcurrent
  <2>1. \A i \in RowsOf(r) : st2[i] \in InFlight => st[i] \in InFlight
    BY DEF RowsOf
  <2>2. Cardinality(FlightOf(st2, r)) <= Cardinality(FlightOf(st, r))
    BY <2>1, SmallerFlight
  <2>3. Cardinality(FlightOf(st, r)) <= MaxConcurrent
    BY DEF SafeFleet
  <2>4. QED
    BY <2>2, <2>3, FlightFinite, FirmwareAssumption
<1>7. \A r \in Rollouts : ro2[r].status # "none" => ro2[r].release \in Releases
  BY DEF SafeFleet
<1>8. QED
  BY <1>1, <1>3, <1>4, <1>5, <1>6, <1>7 DEF SafeFleet

LEMMA NoTxnSerial ==
  ASSUME NEW st, NEW ro, NEW re, SafeFleet(st, ro, re),
         st = [i \in Rows |-> st[i]], ro = [r \in Rollouts |-> ro[r]],
         re = [v \in Releases |-> re[v]]
  PROVE  SerialTxn(st, ro, re, NoTxn)
PROOF
<1>1. StNext(st, NoTxn) = st
  BY NoTxnType DEF StNext
<1>2. RoNext(ro, NoTxn) = ro
  BY NoTxnType DEF RoNext
<1>3. ReNext(re, NoTxn) = re
  BY NoTxnType DEF ReNext
<1>4. NoTxn.pc = "idle"
  BY NoTxnType
<1>5. QED
  BY <1>1, <1>2, <1>3, <1>4 DEF SerialTxn

LEMMA SerialInit == Init => SerialInv
PROOF
<1> SUFFICES ASSUME Init PROVE SerialInv
  OBVIOUS
<1>1. TypeInv
  BY InitTypes
<1>2. \A i \in Rows : statuses[i] = "none"
  BY DEF Init, NoRow, statuses
<1>3. ASSUME NEW r \in Rollouts PROVE Cardinality(FlightOf(statuses, r)) <= MaxConcurrent
  <2>1. FlightOf(statuses, r) = {}
    BY <1>2, StatusFacts DEF FlightOf, RowsOf
  <2>2. QED
    BY <2>1, FS_EmptySet, FirmwareAssumption
<1>r. \A r \in Rollouts : rollout[r].status = "none"
  BY DEF Init
<1>4. SafeFleet(statuses, rollout, release)
  BY <1>2, <1>3, <1>r, StatusFacts DEF SafeFleet, NotStarted
<1>5. \A s \in Sessions : txn[s] = NoTxn
  BY DEF Init
<1>6. SerialTxn(statuses, rollout, release, NoTxn)
  BY <1>1, <1>4, NoTxnSerial DEF statuses, TypeInv
<1>7. QED
  BY <1>1, <1>4, <1>5, <1>6 DEF SerialInv

(***************************************************************************)
(* Loading: what each handler is about to commit                           *)
(***************************************************************************)
LEMMA SerialLoad ==
  ASSUME SerialInv, \A u, v \in Sessions : u = v,
         NEW s \in Sessions, NEW t \in TxnType, Load(s, t),
         t.offers = {}, t.pauses = {}, t.settle # {} => DOMAIN t.rolls = {},
         SafeFleet(StNext(statuses, t), RoNext(rollout, t), ReNext(release, t)),
         \A i \in Rows : IsFailure(statuses[i], StNext(statuses, t)[i]) => i[1] \in t.settle
  PROVE  SerialInv'
PROOF
<1> DEFINE u == [t EXCEPT !.pc = "loaded"]
<1>1. /\ u.pc = "loaded" /\ u.writes = t.writes /\ u.rolls = t.rolls /\ u.rels = t.rels
      /\ u.offers = t.offers /\ u.pauses = t.pauses /\ u.settle = t.settle
  BY DEF TxnType
<1>2. /\ txn' = [txn EXCEPT ![s] = u]
      /\ rollout' = rollout /\ release' = release /\ row' = row
  BY DEF Load
<1> HIDE DEF u
<1>3. TypeInv'
  BY LoadTypes DEF SerialInv
<1>4. statuses' = statuses
  BY <1>2 DEF statuses
<1>5. /\ StNext(statuses, u) = StNext(statuses, t) /\ RoNext(rollout, u) = RoNext(rollout, t)
      /\ ReNext(release, u) = ReNext(release, t)
  BY <1>1 DEF StNext, RoNext, ReNext
<1>6. SerialTxn(statuses, rollout, release, u)
  BY <1>1, <1>5 DEF SerialTxn
<1>7. \A v \in Sessions : txn'[v] = u
  BY <1>2 DEF SerialInv, TypeInv
<1>8. QED
  BY <1>2, <1>3, <1>4, <1>6, <1>7 DEF SerialInv

(* A transaction that only moves deployments on.                           *)
LEMMA WritesOnly ==
  ASSUME SerialInv, \A u, v \in Sessions : u = v, NEW s \in Sessions,
         NEW t \in TxnType, Load(s, t),
         t.rolls = <<>>, t.rels = <<>>, t.offers = {}, t.pauses = {},
         \A i \in DOMAIN t.writes :
           /\ row[i].status \in Active /\ t.writes[i] \notin NotStarted
           /\ t.writes[i] \in InFlight => row[i].status \in InFlight
           /\ t.writes[i] \in Early => row[i].status \in Early
           /\ IsFailure(row[i].status, t.writes[i]) => i[1] \in t.settle
  PROVE  SerialInv'
PROOF
<1>1. DOMAIN t.rolls = {} /\ DOMAIN t.rels = {}
  OBVIOUS
<1>2. RoNext(rollout, t) = rollout
  BY <1>1 DEF RoNext, SerialInv, TypeInv
<1>3. ReNext(release, t) = release
  BY <1>1 DEF ReNext, SerialInv, TypeInv
<1>4. \A i \in Rows : StNext(statuses, t)[i] =
                        IF i \in DOMAIN t.writes THEN t.writes[i] ELSE statuses[i]
  BY DEF StNext
<1>5. \A i \in Rows : statuses[i] = row[i].status
  BY DEF statuses
<1>6. SafeFleet(StNext(statuses, t), rollout, release)
  <2> DEFINE st2 == StNext(statuses, t)
  <2>1. \A i \in Rows :
           \/ st2[i] = statuses[i]
           \/ /\ statuses[i] \in Active
              /\ st2[i] \notin NotStarted
              /\ st2[i] \in InFlight => statuses[i] \in InFlight
              /\ st2[i] \in Early => statuses[i] \in Early
    BY <1>4, <1>5
  <2> HIDE DEF st2
  <2>2. SafeFleet(st2, rollout, release)
    BY <2>1, CalmStep DEF SerialInv
  <2>3. QED
    BY <2>2 DEF st2
<1>7. \A i \in Rows : IsFailure(statuses[i], StNext(statuses, t)[i]) => i[1] \in t.settle
  BY <1>4, <1>5 DEF IsFailure
<1>8. QED
  BY <1>1, <1>2, <1>3, <1>6, <1>7, SerialLoad

LEMMA SerialReport ==
  ASSUME SerialInv, \A u, v \in Sessions : u = v, NEW s \in Sessions,
         NEW i \in Rows, NEW status \in Status \ {"none"}, Report(s, i, status),
         row[i].status \in InFlight, status \notin NotStarted,
         status \in InFlight \cup Terminal,
         status \in Early => row[i].status \in Early
  PROVE  SerialInv'
PROOF
<1> DEFINE w == [j \in {i} |-> status]
<1> DEFINE st == IF status \in Terminal THEN {i[1]} ELSE {}
<1>1. w \in WriteSets /\ st \in SUBSET Rollouts
  BY WriteSetFacts DEF Rows
<1>2. IsFailure(row[i].status, status) => i[1] \in st
  BY StatusFacts DEF IsFailure
<1>3. \A j \in DOMAIN w : j = i /\ w[j] = status
  OBVIOUS
<1> DEFINE t == [NoTxn EXCEPT !.writes = w, !.settle = st]
<1>4. Load(s, t)
  BY DEF Report
<1> HIDE DEF w, st
<1>5. /\ t \in TxnType /\ t.writes = w /\ t.settle = st
      /\ t.rolls = <<>> /\ t.rels = <<>> /\ t.offers = {} /\ t.pauses = {}
  BY <1>1, NoTxnType DEF TxnType, NoTxn
<1> HIDE DEF t
<1>6. \A j \in DOMAIN t.writes :
           /\ row[j].status \in Active /\ t.writes[j] \notin NotStarted
           /\ t.writes[j] \in InFlight => row[j].status \in InFlight
           /\ t.writes[j] \in Early => row[j].status \in Early
           /\ IsFailure(row[j].status, t.writes[j]) => j[1] \in t.settle
  BY <1>2, <1>3, <1>5 DEF Active
<1>7. QED
  BY <1>4, <1>5, <1>6, WritesOnly

LEMMA SerialDevice ==
  ASSUME SerialInv, \A u, v \in Sessions : u = v, Device
  PROVE  SerialInv'
PROOF
<1> SUFFICES ASSUME NEW s \in Requests,
      \/ \E i \in Rows : ReportEvent(s, i) \/ \E back \in BOOLEAN : ReportConfirmed(s, i, back)
      \/ \E d \in Devices : Poll(s, d)
    PROVE SerialInv'
  BY DEF Device
<1>s. s \in Sessions
  BY DEF Sessions
<1>1. ASSUME NEW i \in Rows, ReportEvent(s, i) PROVE SerialInv'
  <2>1. PICK e \in ForwardEvents : row[i].status = e[1] /\ Report(s, i, StatusAfter(e))
    BY <1>1 DEF ReportEvent
  <2>2. /\ e[1] \in InFlight /\ StatusAfter(e) \in Status \ {"none"}
        /\ StatusAfter(e) \notin NotStarted
        /\ StatusAfter(e) \in InFlight \cup Terminal
        /\ StatusAfter(e) \in Early => e[1] \in Early
    BY StatusFacts DEF ForwardEvents, StatusAfter, NotStarted
  <2>3. QED
    BY <1>s, <2>1, <2>2, SerialReport
<1>2. ASSUME NEW i \in Rows, NEW back \in BOOLEAN, ReportConfirmed(s, i, back)
      PROVE  SerialInv'
  <2> DEFINE status == IF back THEN "rolled_back" ELSE "succeeded"
  <2>1. /\ status \in Status \ {"none"} /\ status \notin NotStarted
        /\ status \in Terminal /\ status \notin Early /\ "awaiting_confirmation" \in InFlight
    BY StatusFacts DEF NotStarted
  <2>2. row[i].status = "awaiting_confirmation" /\ Report(s, i, status)
    BY <1>2 DEF ReportConfirmed
  <2> HIDE DEF status
  <2>3. QED
    BY <1>s, <2>1, <2>2, SerialReport
<1>3. ASSUME NEW d \in Devices, Poll(s, d) PROVE SerialInv'
  <2>1. PICK dead \in SUBSET Rows :
          /\ Load(s, [NoTxn EXCEPT !.writes = [i \in dead |-> "timed_out"]])
          /\ \A i \in dead : row[i].status = "offered"
    <3> DEFINE mine == {i \in Rows : i[2] = d /\ row[i].status \in InFlight}
    <3> DEFINE dead == {i \in mine : \A j \in mine : j[1] >= i[1] => Overdue(j)}
    <3>1. Load(s, [NoTxn EXCEPT !.writes = [i \in dead |-> "timed_out"]])
      BY <1>3 DEF Poll
    <3>2. \A i \in mine : i[1] >= i[1]
      BY FirmwareAssumption DEF Rows, Rollouts
    <3>3. \A i \in dead : row[i].status = "offered"
      BY <3>2 DEF Overdue
    <3>4. dead \in SUBSET Rows
      OBVIOUS
    <3>5. QED
      BY <3>1, <3>3, <3>4
  <2> DEFINE w == [i \in dead |-> "timed_out"]
  <2>2. /\ w \in WriteSets
        /\ \A i \in DOMAIN w : row[i].status = "offered" /\ w[i] = "timed_out"
    BY <2>1, WriteSetFacts, StatusFacts
  <2> DEFINE t == [NoTxn EXCEPT !.writes = w]
  <2>3. Load(s, t)
    BY <2>1
  <2> HIDE DEF w
  <2>4. /\ t \in TxnType /\ t.writes = w
        /\ t.rolls = <<>> /\ t.rels = <<>> /\ t.offers = {} /\ t.pauses = {}
    BY <2>2, NoTxnType DEF TxnType, NoTxn
  <2> HIDE DEF t
  <2>5. /\ "offered" \in Active /\ "timed_out" \notin NotStarted /\ "timed_out" \notin InFlight
        /\ "timed_out" \notin Early /\ ~IsFailure("offered", "timed_out")
    BY StatusFacts DEF Active, NotStarted, IsFailure
  <2>6. QED
    BY <1>s, <2>2, <2>3, <2>4, <2>5, WritesOnly
<1>4. QED
  BY <1>1, <1>2, <1>3

LEMMA SerialSweep ==
  ASSUME SerialInv, \A u, v \in Sessions : u = v, NEW s \in Sweepers, Sweep(s)
  PROVE  SerialInv'
PROOF
<1> DEFINE overdue == {i \in Rows : row[i].status \in HasDeadline /\ row[i].late}
<1> DEFINE w == [i \in overdue |-> "timed_out"]
<1> DEFINE r == {i[1] : i \in overdue}
<1>1. w \in WriteSets /\ r \in SUBSET Rollouts /\ CatchUp \in BOOLEAN
  BY WriteSetFacts, StatusFacts DEF Rows, CatchUp
<1> DEFINE t == [NoTxn EXCEPT !.writes = w, !.settle = r, !.sweep = CatchUp]
<1>2. Load(s, t)
  BY DEF Sweep
<1>3. \A i \in DOMAIN w : row[i].status \in HasDeadline /\ w[i] = "timed_out" /\ i[1] \in r
  OBVIOUS
<1> HIDE DEF w, r
<1>4. /\ t \in TxnType /\ t.writes = w /\ t.settle = r
      /\ t.rolls = <<>> /\ t.rels = <<>> /\ t.offers = {} /\ t.pauses = {}
  BY <1>1, NoTxnType DEF TxnType, NoTxn
<1> HIDE DEF t
<1>5. /\ HasDeadline \subseteq Active /\ "timed_out" \notin NotStarted
      /\ "timed_out" \notin InFlight /\ "timed_out" \notin Early
  BY StatusFacts DEF Active, NotStarted, HasDeadline
<1>6. \A i \in DOMAIN t.writes :
           /\ row[i].status \in Active /\ t.writes[i] \notin NotStarted
           /\ t.writes[i] \in InFlight => row[i].status \in InFlight
           /\ t.writes[i] \in Early => row[i].status \in Early
           /\ IsFailure(row[i].status, t.writes[i]) => i[1] \in t.settle
  BY <1>3, <1>4, <1>5
<1>7. QED
  BY <1>2, <1>4, <1>6, WritesOnly DEF Sessions

(* A withdrawal: deployments are cancelled, a rollout changes its status,  *)
(* or a release does; nothing of what is withdrawn waits for a device.     *)
LEMMA SerialWithdraw ==
  ASSUME SerialInv, \A u, v \in Sessions : u = v, NEW s \in Sessions,
         NEW t \in TxnType, Load(s, t), t.offers = {}, t.pauses = {}, t.settle = {},
         \A i \in DOMAIN t.writes : row[i].status \in Active /\ t.writes[i] = "cancelled",
         \A r \in DOMAIN t.rolls :
           /\ t.rolls[r].release = rollout[r].release
           /\ t.rolls[r].status # "none" /\ rollout[r].status # "none"
           /\ t.rolls[r].status = "cancelled" =>
                \A i \in RowsOf(r) :
                  row[i].status \in Early \cup {"requested"} => i \in DOMAIN t.writes,
         \A v \in DOMAIN t.rels :
           \/ release[v] # "published"
           \/ \A i \in Rows : Target(i) = v /\ row[i].status \in NotStarted
                                => i \in DOMAIN t.writes
  PROVE  SerialInv'
PROOF
<1> DEFINE st2 == StNext(statuses, t)
           ro2 == RoNext(rollout, t)
           re2 == ReNext(release, t)
<1>f. /\ "cancelled" \notin NotStarted /\ "cancelled" \notin InFlight /\ "cancelled" \notin Early
      /\ "cancelled" # "requested" /\ ~(\E old : IsFailure(old, "cancelled"))
  BY StatusFacts DEF NotStarted, IsFailure
<1>1. \A i \in Rows : /\ statuses[i] = row[i].status
                      /\ st2[i] = IF i \in DOMAIN t.writes THEN "cancelled" ELSE statuses[i]
  BY DEF StNext, statuses
<1>2. \A r \in Rollouts : ro2[r] = IF r \in DOMAIN t.rolls THEN t.rolls[r] ELSE rollout[r]
  BY DEF RoNext
<1>3. \A v \in Releases : re2[v] = IF v \in DOMAIN t.rels THEN t.rels[v] ELSE release[v]
  BY DEF ReNext
<1> HIDE DEF st2, ro2, re2
<1>4. \A i \in Rows :
        \/ st2[i] = statuses[i]
        \/ /\ statuses[i] \in Active
           /\ st2[i] \notin NotStarted
           /\ st2[i] \in InFlight => statuses[i] \in InFlight
           /\ st2[i] \in Early => statuses[i] \in Early
  BY <1>1, <1>f
<1>5. \A r \in Rollouts :
        /\ ro2[r].release = rollout[r].release
        /\ rollout[r].status = "none" <=> ro2[r].status = "none"
        /\ \/ ro2[r].status = "cancelled" => rollout[r].status = "cancelled"
           \/ \A i \in RowsOf(r) : st2[i] \notin Early \cup {"requested"}
  <2> SUFFICES ASSUME NEW r \in Rollouts
               PROVE  /\ ro2[r].release = rollout[r].release
                      /\ rollout[r].status = "none" <=> ro2[r].status = "none"
                      /\ \/ ro2[r].status = "cancelled" => rollout[r].status = "cancelled"
                         \/ \A i \in RowsOf(r) : st2[i] \notin Early \cup {"requested"}
    OBVIOUS
  <2>1. CASE r \notin DOMAIN t.rolls
    BY <1>2, <2>1
  <2>2. CASE r \in DOMAIN t.rolls
    <3>1. ro2[r] = t.rolls[r]
      BY <1>2, <2>2
    <3>2. ASSUME t.rolls[r].status = "cancelled", NEW i \in RowsOf(r)
          PROVE  st2[i] \notin Early \cup {"requested"}
      BY <1>1, <1>f, <2>2, <3>2 DEF RowsOf
    <3>3. QED
      BY <2>2, <3>1, <3>2
  <2>3. QED
    BY <2>1, <2>2
<1>6. ASSUME NEW i \in Rows, rollout[i[1]].release \in Releases
      PROVE  \/ re2[rollout[i[1]].release] = release[rollout[i[1]].release]
             \/ release[rollout[i[1]].release] # "published"
             \/ st2[i] \notin NotStarted
  BY <1>1, <1>3, <1>6, <1>f DEF Target
<1>7. SafeFleet(st2, ro2, re2)
  BY <1>4, <1>5, <1>6, CalmStep DEF SerialInv
<1>8. \A i \in Rows : ~IsFailure(statuses[i], st2[i])
  BY <1>1, <1>f DEF IsFailure
<1>9. QED
  BY <1>7, <1>8, SerialLoad DEF st2, ro2, re2

LEMMA SerialPublish ==
  ASSUME SerialInv, \A u, v \in Sessions : u = v, NEW s \in Sessions, NEW v \in Releases,
         PublishRelease(s, v) \/ RevokeRelease(s, v)
  PROVE  SerialInv'
PROOF
<1>1. CASE PublishRelease(s, v)
  <2> DEFINE w == [u \in {v} |-> "published"]
             t == [NoTxn EXCEPT !.rels = w]
  <2>1. Load(s, t) /\ release[v] # "published"
    BY <1>1 DEF PublishRelease
  <2>2. w \in RelSets /\ DOMAIN w = {v}
    BY RelSetFacts DEF ReleaseStatus
  <2> HIDE DEF w
  <2>3. /\ t \in TxnType /\ t.writes = NoTxn.writes /\ t.rels = w /\ t.rolls = NoTxn.rolls
        /\ t.offers = {} /\ t.pauses = {} /\ t.settle = {}
    BY <2>2, NoTxnType DEF TxnType, NoTxn
  <2> HIDE DEF t
  <2>4. DOMAIN t.writes = {} /\ DOMAIN t.rolls = {}
    BY <2>3, NoTxnType
  <2>5. QED
    BY <2>1, <2>2, <2>3, <2>4, SerialWithdraw
<1>2. CASE RevokeRelease(s, v)
  <2> DEFINE open == {i \in Rows : Target(i) = v /\ row[i].status \in NotStarted}
             w == [u \in {v} |-> "revoked"]
             x == [i \in open |-> "cancelled"]
             t == [NoTxn EXCEPT !.rels = w, !.writes = x]
  <2>1. Load(s, t)
    BY <1>2 DEF RevokeRelease
  <2>2. w \in RelSets /\ DOMAIN w = {v}
    BY RelSetFacts DEF ReleaseStatus
  <2>3. x \in WriteSets /\ DOMAIN x = open /\ \A i \in open : x[i] = "cancelled"
    BY WriteSetFacts, StatusFacts
  <2> HIDE DEF w, x
  <2>4. /\ t \in TxnType /\ t.writes = x /\ t.rels = w /\ t.rolls = NoTxn.rolls
        /\ t.offers = {} /\ t.pauses = {} /\ t.settle = {}
    BY <2>2, <2>3, NoTxnType DEF TxnType, NoTxn
  <2> HIDE DEF t
  <2>5. DOMAIN t.rolls = {}
    BY <2>4, NoTxnType
  <2>6. NotStarted \subseteq Active
    BY StatusFacts DEF NotStarted, Active
  <2>7. QED
    BY <2>1, <2>2, <2>3, <2>4, <2>5, <2>6, SerialWithdraw
<1>3. QED
  BY <1>1, <1>2

LEMMA SerialRollout ==
  ASSUME SerialInv, \A u, v \in Sessions : u = v, NEW s \in Sessions, NEW r \in Rollouts,
         PauseRollout(s, r) \/ ResumeRollout(s, r) \/ CancelRollout(s, r)
  PROVE  SerialInv'
PROOF
<1>r. rollout[r] \in RolloutType
  BY DEF SerialInv, TypeInv
<1>1. ASSUME NEW from \in {"active", "paused"}, NEW to \in {"active", "paused"},
             NEW promote \in SUBSET Rollouts, MoveRollout(s, r, from, to, promote)
      PROVE  SerialInv'
  <2> DEFINE w == [q \in {r} |-> [rollout[r] EXCEPT !.status = to]]
             t == [NoTxn EXCEPT !.rolls = w, !.promote = promote]
  <2>1. Load(s, t) /\ rollout[r].status = from
    BY <1>1 DEF MoveRollout
  <2>2. /\ w \in RollSets /\ DOMAIN w = {r}
        /\ w[r].status = to /\ w[r].release = rollout[r].release
    BY <1>r, RollSetFacts DEF RolloutType
  <2> HIDE DEF w
  <2>3. /\ t \in TxnType /\ t.writes = NoTxn.writes /\ t.rels = NoTxn.rels /\ t.rolls = w
        /\ t.offers = {} /\ t.pauses = {} /\ t.settle = {}
    BY <2>2, NoTxnType DEF TxnType, NoTxn
  <2> HIDE DEF t
  <2>4. DOMAIN t.writes = {} /\ DOMAIN t.rels = {}
    BY <2>3, NoTxnType
  <2>5. QED
    BY <2>1, <2>2, <2>3, <2>4, SerialWithdraw
<1>2. CASE CancelRollout(s, r)
  <2> DEFINE open == {i \in RowsOf(r) : row[i].status \in Cancellable}
             w == [q \in {r} |-> [rollout[r] EXCEPT !.status = "cancelled"]]
             x == [i \in open |-> "cancelled"]
             t == [NoTxn EXCEPT !.rolls = w, !.writes = x]
  <2>1. Load(s, t) /\ rollout[r].status # "none"
    BY <1>2 DEF CancelRollout
  <2>2. /\ w \in RollSets /\ DOMAIN w = {r}
        /\ w[r].status = "cancelled" /\ w[r].release = rollout[r].release
    BY <1>r, RollSetFacts DEF RolloutType
  <2>3. x \in WriteSets /\ DOMAIN x = open /\ \A i \in open : x[i] = "cancelled"
    BY WriteSetFacts, StatusFacts DEF RowsOf
  <2> HIDE DEF w, x
  <2>4. /\ t \in TxnType /\ t.writes = x /\ t.rels = NoTxn.rels /\ t.rolls = w
        /\ t.offers = {} /\ t.pauses = {} /\ t.settle = {}
    BY <2>2, <2>3, NoTxnType DEF TxnType, NoTxn
  <2> HIDE DEF t
  <2>5. DOMAIN t.rels = {}
    BY <2>4, NoTxnType
  <2>6. Cancellable = Early \cup {"requested"} /\ Cancellable \subseteq Active
    BY StatusFacts DEF Cancellable, Active
  <2>7. QED
    BY <2>1, <2>2, <2>3, <2>4, <2>5, <2>6, SerialWithdraw
<1>3. QED
  BY <1>1, <1>2 DEF PauseRollout, ResumeRollout

(* A new rollout asks for a device only if the newest deployment of this   *)
(* release for the device failed, and then every older one is over too.    *)
LEMMA SerialCreate ==
  ASSUME SerialInv, \A u, w \in Sessions : u = w, NEW s \in Sessions, NEW r \in Rollouts,
         NEW v \in Releases, NEW D \in SUBSET Devices, CreateRollout(s, r, v, D)
  PROVE  SerialInv'
PROOF
<1> DEFINE new == {<<r, d>> : d \in {d \in D : Requestable(d, v)}}
           it == [status |-> "active", release |-> v]
           w == [q \in {r} |-> it]
           x == [i \in new |-> "requested"]
           t == [NoTxn EXCEPT !.rolls = w, !.writes = x, !.promote = {r}]
           st2 == StNext(statuses, t)
           ro2 == RoNext(rollout, t)
           re2 == ReNext(release, t)
<1>1. Load(s, t) /\ release[v] = "published"
  BY DEF CreateRollout
<1>2. /\ new \in SUBSET Rows
      /\ \A i \in new : i[1] = r /\ Requestable(i[2], v)
  BY DEF Rows
<1>3. it \in RolloutType /\ it.status = "active" /\ it.release = v
  BY DEF RolloutType
<1>4. \A q \in Rollouts : rollout[q].status = "none" <=> q >= r
  BY DEF CreateRollout
<1> HIDE DEF it, new
<1>5. w \in RollSets /\ DOMAIN w = {r} /\ w[r] = it
  BY <1>3, RollSetFacts
<1>6. x \in WriteSets /\ DOMAIN x = new /\ \A i \in new : x[i] = "requested"
  BY <1>2, WriteSetFacts, StatusFacts
<1> HIDE DEF w, x
<1>7. /\ t \in TxnType /\ t.writes = x /\ t.rels = NoTxn.rels /\ t.rolls = w
      /\ t.offers = {} /\ t.pauses = {} /\ t.settle = {}
  BY <1>5, <1>6, NoTxnType DEF TxnType, NoTxn
<1> HIDE DEF t
<1>8. /\ \A i \in Rows : statuses[i] = row[i].status
      /\ \A i \in Rows : st2[i] = IF i \in new THEN "requested" ELSE statuses[i]
      /\ \A q \in Rollouts : ro2[q] = IF q = r THEN it ELSE rollout[q]
  BY <1>5, <1>6, <1>7 DEF StNext, RoNext, statuses
<1>9. re2 = release
  BY <1>7, NoTxnType DEF ReNext, SerialInv, TypeInv
<1> HIDE DEF st2, ro2, re2
<1>10. /\ \A i \in Rows : i[1] \in Rollouts /\ i[2] \in Devices
       /\ Rollouts \subseteq Int
       /\ "requested" \in NotStarted /\ "requested" \notin InFlight
       /\ Active = InFlight \cup {"requested"} /\ "none" \notin Active
       /\ NotStarted \subseteq Active /\ Early \subseteq Active
  BY StatusFacts DEF Rows, Rollouts, NotStarted, Active
<1>s. SafeFleet(statuses, rollout, release)
  BY DEF SerialInv
<1>11. ASSUME NEW i \in Rows, statuses[i] # "none" PROVE i[1] < r /\ ro2[i[1]] = rollout[i[1]]
  <2>1. rollout[i[1]].status # "none"
    BY <1>11, <1>s DEF SafeFleet
  <2>2. i[1] \in Int /\ r \in Int /\ i[1] \in Rollouts
    BY <1>10
  <2>3. i[1] < r
    <3>1. ~(i[1] >= r)
      BY <1>4, <2>1, <2>2
    <3>2. QED
      BY <2>2, <3>1
  <2>4. i[1] # r
    BY <2>2, <2>3
  <2>5. QED
    BY <1>8, <2>2, <2>3, <2>4
<1>12. SafeFleet(st2, ro2, release)
  <2>1. \A q \in Rollouts : ro2[q].status # "none" => ro2[q].release \in Releases
    BY <1>3, <1>8, <1>s DEF SafeFleet
  <2>2. \A i \in Rows : st2[i] # "none" => ro2[i[1]].status # "none"
    <3> SUFFICES ASSUME NEW i \in Rows, st2[i] # "none" PROVE ro2[i[1]].status # "none"
      OBVIOUS
    <3>1. CASE i \in new
      BY <1>2, <1>3, <1>8, <1>10, <3>1
    <3>2. CASE i \notin new
      BY <1>8, <1>11, <1>s, <3>2 DEF SafeFleet
    <3>3. QED
      BY <3>1, <3>2
  <2>3. ASSUME NEW i \in Rows, NEW j \in Rows, i[2] = j[2],
               ro2[i[1]].release = ro2[j[1]].release, i[1] < j[1], st2[j] # "none"
        PROVE  st2[i] \notin Active
    <3>1. CASE statuses[j] # "none"
      <4>1. j[1] < r /\ i[1] < r /\ i[1] # r
        BY <1>10, <1>11, <2>3, <3>1
      <4>2. st2[i] = statuses[i] /\ ro2[i[1]] = rollout[i[1]] /\ ro2[j[1]] = rollout[j[1]]
        BY <1>2, <1>8, <1>10, <1>11, <3>1, <4>1
      <4>3. QED
        BY <1>s, <2>3, <3>1, <4>2 DEF SafeFleet
    <3>2. CASE statuses[j] = "none"
      <4>1. j[1] = r /\ Requestable(j[2], v)
        BY <1>2, <1>8, <2>3, <3>2
      <4>2. /\ st2[i] = statuses[i] /\ ro2[i[1]] = rollout[i[1]]
            /\ rollout[i[1]].release = v
        BY <1>2, <1>3, <1>8, <1>10, <2>3, <4>1
      <4>3. CASE statuses[i] \in Active
        <5> DEFINE past == {k \in Rows : k[2] = j[2] /\ Target(k) = v /\ row[k].status # "none"}
        <5>1. i \in past
          BY <1>8, <1>10, <2>3, <4>2, <4>3 DEF Target
        <5>2. \A k \in past : k[1] <= i[1]
          <6>1. ASSUME NEW k \in past PROVE ~(i[1] < k[1])
            <7>1. /\ statuses[k] # "none" /\ rollout[i[1]].release = rollout[k[1]].release
                  /\ i[2] = k[2] /\ k \in Rows
              BY <1>8, <2>3, <4>2 DEF Target
            <7>2. QED
              BY <1>s, <4>3, <7>1 DEF SafeFleet
          <6>2. ASSUME NEW k \in past PROVE k[1] <= i[1]
            <7>1. k[1] \in Int /\ i[1] \in Int
              BY <1>10
            <7>2. QED
              BY <6>1, <7>1
          <6>3. QED
            BY <6>2
        <5>3. Retriable(row[i].status)
          BY <4>1, <5>1, <5>2 DEF Requestable
        <5>4. QED
          BY <1>8, <4>3, <5>3, StatusFacts DEF Retriable, Active
      <4>4. QED
        BY <4>2, <4>3
    <3>3. QED
      BY <3>1, <3>2
  <2>4. ASSUME NEW i \in Rows
        PROVE  /\ st2[i] \in NotStarted => release[ro2[i[1]].release] = "published"
               /\ st2[i] \in Early \cup {"requested"} => ro2[i[1]].status # "cancelled"
    <3>1. CASE i \in new
      BY <1>1, <1>2, <1>3, <1>8, <1>10, <3>1
    <3>2. CASE i \notin new
      <4>1. st2[i] = statuses[i]
        BY <1>8, <3>2
      <4>2. CASE statuses[i] = "none"
        BY <1>10, <4>1, <4>2
      <4>3. CASE statuses[i] # "none"
        BY <1>11, <1>s, <4>1, <4>3 DEF SafeFleet
      <4>4. QED
        BY <4>2, <4>3
    <3>3. QED
      BY <3>1, <3>2
  <2>5. ASSUME NEW q \in Rollouts PROVE Cardinality(FlightOf(st2, q)) <= MaxConcurrent
    <3>1. \A i \in RowsOf(q) : st2[i] \in InFlight => statuses[i] \in InFlight
      BY <1>8, <1>10 DEF RowsOf
    <3>2. Cardinality(FlightOf(st2, q)) <= Cardinality(FlightOf(statuses, q))
      BY <3>1, SmallerFlight
    <3>3. Cardinality(FlightOf(statuses, q)) <= MaxConcurrent
      BY <1>s DEF SafeFleet
    <3>4. QED
      BY <3>2, <3>3, FlightFinite, FirmwareAssumption
  <2>6. QED
    BY <2>1, <2>2, <2>3, <2>4, <2>5 DEF SafeFleet
<1>13. \A i \in Rows : ~IsFailure(statuses[i], st2[i])
  BY <1>8 DEF IsFailure
<1>14. QED
  BY <1>1, <1>7, <1>9, <1>12, <1>13, SerialLoad DEF st2, ro2, re2

LEMMA SerialAdmin ==
  ASSUME SerialInv, \A u, v \in Sessions : u = v, Admin
  PROVE  SerialInv'
PROOF BY SerialPublish, SerialRollout, SerialCreate DEF Admin, Sessions

(***************************************************************************)
(* Flushing, committing, giving up, and the environment                    *)
(***************************************************************************)
(* Offers for the free slots do not exceed the limit.                      *)
LEMMA PromotionRespectsLimit ==
  ASSUME NEW t, NEW st, NEW st2, NEW r \in Rollouts, NEW offers \in SUBSET RowsOf(r),
         \A i \in Rows : StatusSeen(t, i) = st[i],
         \A i \in RowsOf(r) : st2[i] = IF i \in offers THEN "offered" ELSE st[i],
         Cardinality(FlightOf(st, r)) <= MaxConcurrent, Promotes(t, r, offers)
  PROVE  Cardinality(FlightOf(st2, r)) <= MaxConcurrent
PROOF
<1> DEFINE queued == {i \in RowsOf(r) : StatusSeen(t, i) \in {"requested"}}
           a == Cardinality(FlightOf(st, r))
           q == Cardinality(queued)
           slots == MaxConcurrent - a
<1>1. FlightOf(st, r) = {i \in RowsOf(r) : StatusSeen(t, i) \in Occupying}
  BY DEF FlightOf, RowsOf, Occupying
<1>2. /\ offers \subseteq queued
      /\ Cardinality(offers) = IF slots <= 0 THEN 0
                               ELSE IF slots < q THEN slots ELSE q
  BY <1>1 DEF Promotes
<1>3. /\ IsFiniteSet(queued) /\ IsFiniteSet(offers)
      /\ q \in Nat /\ Cardinality(offers) \in Nat /\ a \in Nat
  BY RowsFinite, FlightFinite, FS_Subset, FS_CardinalityType
<1>4. FlightOf(st2, r) = FlightOf(st, r) \cup offers
  BY StatusFacts DEF FlightOf
<1>5. FlightOf(st, r) \cap offers = {}
  <2>1. \A i \in offers : st[i] = "requested"
    BY <1>2 DEF RowsOf
  <2>2. QED
    BY <2>1, StatusFacts DEF FlightOf
<1>6. Cardinality(FlightOf(st2, r)) = a + Cardinality(offers)
  <2>1. Cardinality(FlightOf(st, r) \cap offers) = 0
    BY <1>5, FS_EmptySet
  <2>2. Cardinality(FlightOf(st, r) \cup offers) =
          a + Cardinality(offers) - Cardinality(FlightOf(st, r) \cap offers)
    BY <1>3, FlightFinite, FS_Union
  <2>3. QED
    BY <1>3, <1>4, <2>1, <2>2
<1> HIDE DEF queued, q
<1>7. QED
  BY <1>2, <1>3, <1>6, FirmwareAssumption

LEMMA SerialWork ==
  ASSUME SerialInv, \A u, v \in Sessions : u = v, NEW s \in Sessions, Work(s)
  PROVE  SerialInv'
PROOF
<1> DEFINE t == txn[s]
           active == {r \in Rollouts : RolloutSeen(t, r) = "active"}
           pauses == {r \in t.settle \cap active : TooManyFailures(t, r)}
           open == {r \in active \ pauses : t.sweep \/ r \in t.settle \cup t.promote}
           st1 == StNext(statuses, t)
           ro1 == RoNext(rollout, t)
           re1 == ReNext(release, t)
<1>1. PICK offers \in SUBSET {i \in Rows : i[1] \in open /\ StatusSeen(t, i) = "requested"} :
        /\ \A r \in open : Promotes(t, r, offers \cap RowsOf(r))
        /\ txn' = [txn EXCEPT ![s] = [t EXCEPT !.pc = "working", !.offers = offers,
                     !.pauses = pauses, !.settle = {}, !.promote = {}, !.sweep = FALSE]]
  BY DEF Work
<1>2. t.pc = "loaded" /\ rollout' = rollout /\ release' = release /\ row' = row
  BY DEF Work
<1>3. /\ pauses \subseteq t.settle /\ pauses \subseteq Rollouts
      /\ \A r \in pauses : RolloutSeen(t, r) = "active"
      /\ \A r \in t.settle \cap Rollouts :
           RolloutSeen(t, r) = "active" /\ r \notin pauses => ~TooManyFailures(t, r)
  OBVIOUS
<1>4. \A i \in offers : i \in Rows /\ i[1] \in open /\ StatusSeen(t, i) = "requested"
  OBVIOUS
<1> DEFINE u == [t EXCEPT !.pc = "working", !.offers = offers,
                   !.pauses = pauses, !.settle = {}, !.promote = {}, !.sweep = FALSE]
<1>t. t \in TxnType
  BY DEF SerialInv, TypeInv
<1> HIDE DEF pauses, open
<1>5. /\ u.pc = "working" /\ u.writes = t.writes /\ u.rolls = t.rolls /\ u.rels = t.rels
      /\ u.offers = offers /\ u.pauses = pauses
  BY <1>t DEF TxnType
<1>6. \A v \in Sessions : txn'[v] = u
  BY <1>1 DEF SerialInv, TypeInv
<1> HIDE DEF u, active
<1>7. /\ t.offers = {} /\ t.pauses = {}
      /\ t.settle # {} => DOMAIN t.rolls = {}
      /\ SafeFleet(st1, ro1, re1)
      /\ \A i \in Rows : IsFailure(statuses[i], st1[i]) => i[1] \in t.settle
  <2>1. SerialTxn(statuses, rollout, release, t)
    BY DEF SerialInv
  <2>2. QED
    BY <1>2, <2>1 DEF SerialTxn
<1> DEFINE st2 == StNext(statuses, u)
           ro2 == RoNext(rollout, u)
           re2 == ReNext(release, u)
<1>8. /\ \A i \in Rows : /\ st1[i] = StatusSeen(t, i)
                         /\ st2[i] = IF i \in offers THEN "offered" ELSE st1[i]
      /\ re2 = re1
  BY <1>5, <1>7 DEF StNext, ReNext, StatusSeen, statuses
<1>9. \A r \in Rollouts : /\ ro1[r].status = RolloutSeen(t, r)
                          /\ r \notin pauses => ro2[r] = ro1[r]
                          /\ r \in pauses => /\ ro2[r].status = "paused"
                                             /\ ro2[r].release = ro1[r].release
  <2> SUFFICES ASSUME NEW r \in Rollouts
               PROVE  /\ ro1[r].status = RolloutSeen(t, r)
                      /\ r \notin pauses => ro2[r] = ro1[r]
                      /\ r \in pauses => /\ ro2[r].status = "paused"
                                         /\ ro2[r].release = ro1[r].release
    OBVIOUS
  <2>1. ro1[r] = IF r \in DOMAIN t.rolls THEN t.rolls[r] ELSE rollout[r]
    BY <1>7 DEF RoNext
  <2>2. ro2[r] = IF r \in pauses THEN [rollout[r] EXCEPT !.status = "paused"] ELSE ro1[r]
    BY <1>5, <2>1 DEF RoNext
  <2>3. r \in pauses => ro1[r] = rollout[r]
    BY <1>3, <1>7, <2>1
  <2>4. rollout[r] \in RolloutType
    BY DEF SerialInv, TypeInv
  <2> HIDE DEF ro1, ro2, t
  <2>5. r \in pauses => /\ ro2[r].status = "paused"
                        /\ ro2[r].release = ro1[r].release
    BY <2>2, <2>3, <2>4 DEF RolloutType
  <2>6. ro1[r].status = RolloutSeen(t, r)
    BY <2>1 DEF RolloutSeen
  <2>7. QED
    BY <2>2, <2>5, <2>6
<1> HIDE DEF t, st1, ro1, re1, st2, ro2, re2
<1>10. /\ "offered" \in Active /\ "requested" \in Active /\ "offered" \in NotStarted
       /\ "requested" \in NotStarted /\ "offered" \notin TerminalFailure
       /\ "requested" \notin TerminalFailure /\ "none" \notin Active
       /\ \A i \in Rows : i[1] \in Rollouts /\ i \in RowsOf(i[1])
       /\ \A old : ~IsFailure(old, "offered") /\ ~IsFailure(old, "none")
  BY StatusFacts DEF Active, NotStarted, IsFailure, Rows, RowsOf
<1>11. SafeFleet(st2, ro2, re2)
  <2>1. \A i \in Rows : /\ st2[i] # "none" => st1[i] # "none"
                        /\ st2[i] \in Active => st1[i] \in Active
                        /\ st2[i] \in NotStarted => st1[i] \in NotStarted
                        /\ st2[i] \in Early \cup {"requested"} =>
                             st1[i] \in Early \cup {"requested"}
    BY <1>4, <1>8, <1>10
  <2>2. \A r \in Rollouts : /\ ro2[r].release = ro1[r].release
                            /\ ro2[r].status = "none" <=> ro1[r].status = "none"
                            /\ ro2[r].status = "cancelled" => ro1[r].status = "cancelled"
    BY <1>3, <1>9
  <2>3. ASSUME NEW r \in Rollouts PROVE Cardinality(FlightOf(st2, r)) <= MaxConcurrent
    <3>1. Cardinality(FlightOf(st1, r)) <= MaxConcurrent
      BY <1>7 DEF SafeFleet
    <3>2. CASE r \in open
      <4> DEFINE mine == offers \cap RowsOf(r)
      <4>1. \A i \in RowsOf(r) : st2[i] = IF i \in mine THEN "offered" ELSE st1[i]
        BY <1>8 DEF RowsOf
      <4>2. Promotes(t, r, mine) /\ mine \in SUBSET RowsOf(r)
        BY <1>1, <3>2
      <4>3. \A i \in Rows : StatusSeen(t, i) = st1[i]
        BY <1>8
      <4> HIDE DEF mine
      <4>4. QED
        BY <3>1, <4>1, <4>2, <4>3, PromotionRespectsLimit
    <3>3. CASE r \notin open
      <4>1. \A i \in RowsOf(r) : i \notin offers
        BY <1>4, <3>3 DEF RowsOf
      <4>2. FlightOf(st2, r) = FlightOf(st1, r)
        BY <1>8, <4>1 DEF FlightOf, RowsOf
      <4>3. QED
        BY <3>1, <4>2
    <3>4. QED
      BY <3>2, <3>3
  <2>4. \A r \in Rollouts : ro2[r].status # "none" => ro2[r].release \in Releases
    BY <1>7, <2>2 DEF SafeFleet
  <2>5. \A i \in Rows : st2[i] # "none" => ro2[i[1]].status # "none"
    BY <1>7, <1>10, <2>1, <2>2 DEF SafeFleet
  <2>6. ASSUME NEW i \in Rows, NEW j \in Rows, i[2] = j[2],
               ro2[i[1]].release = ro2[j[1]].release, i[1] < j[1], st2[j] # "none"
        PROVE  st2[i] \notin Active
    BY <1>7, <1>10, <2>1, <2>2, <2>6 DEF SafeFleet
  <2>7. ASSUME NEW i \in Rows
        PROVE  /\ st2[i] \in NotStarted => re2[ro2[i[1]].release] = "published"
               /\ st2[i] \in Early \cup {"requested"} => ro2[i[1]].status # "cancelled"
    BY <1>7, <1>8, <1>10, <2>1, <2>2 DEF SafeFleet
  <2>8. QED
    BY <2>3, <2>4, <2>5, <2>6, <2>7 DEF SafeFleet
<1>12. ASSUME NEW i \in Rows, IsFailure(statuses[i], st2[i]), ro2[i[1]].status = "active"
       PROVE  BelowThreshold(st2, i[1])
  <2> DEFINE r == i[1]
             all == {j \in RowsOf(r) : StatusSeen(t, j) # "none"}
             bad == {j \in all : StatusSeen(t, j) \in Failure}
  <2>1. r \in Rollouts /\ i \in RowsOf(r) /\ st2[i] = st1[i] /\ st1[i] # "none"
    BY <1>8, <1>10, <1>12
  <2>2. r \in t.settle /\ r \notin pauses /\ RolloutSeen(t, r) = "active"
    BY <1>7, <1>9, <1>12, <2>1
  <2>3. ~TooManyFailures(t, r)
    BY <1>3, <2>1, <2>2
  <2>4. all # {}
    BY <1>8, <2>1
  <2>5. ~(Cardinality(bad) * 100 >= Threshold * Cardinality(all))
    BY <2>3, <2>4 DEF TooManyFailures
  <2>6. all = {j \in RowsOf(r) : st2[j] # "none"}
    BY <1>4, <1>8 DEF RowsOf
  <2>7. bad = {j \in {j \in RowsOf(r) : st2[j] # "none"} : st2[j] \in TerminalFailure}
    BY <1>4, <1>8, <1>10 DEF RowsOf, Failure
  <2>8. Cardinality(bad) \in Nat /\ Cardinality(all) \in Nat /\ Threshold \in Nat
    BY RowsFinite, FS_Subset, FS_CardinalityType, FirmwareAssumption
  <2> HIDE DEF all, bad
  <2>9. Cardinality(bad) * 100 < Threshold * Cardinality(all)
    BY <2>5, <2>8
  <2>10. QED
    BY <2>6, <2>7, <2>9 DEF BelowThreshold
<1>13. SerialTxn(statuses, rollout, release, u)
  BY <1>5, <1>11, <1>12 DEF SerialTxn, st2, ro2, re2
<1>14. TypeInv'
  BY WorkTypes DEF SerialInv
<1>15. statuses' = statuses
  BY <1>2 DEF statuses
<1>16. QED
  BY <1>2, <1>6, <1>13, <1>14, <1>15 DEF SerialInv

(* A commit makes the fleet that the transaction prepared.                 *)
LEMMA CommitEffect ==
  ASSUME SerialInv, NEW s \in Sessions, Commit(s)
  PROVE  /\ statuses' = StNext(statuses, txn[s])
         /\ rollout' = RoNext(rollout, txn[s])
         /\ release' = ReNext(release, txn[s])
PROOF
<1>1. \A i \in Rows : statuses'[i] = StNext(statuses, txn[s])[i]
  BY WrittenFacts DEF statuses, StNext
<1>2. statuses' = StNext(statuses, txn[s])
  BY <1>1 DEF statuses, StNext
<1>3. rollout' = RoNext(rollout, txn[s]) /\ release' = ReNext(release, txn[s])
  BY DEF Commit, RoNext, ReNext
<1>4. QED
  BY <1>2, <1>3

LEMMA SerialEnd ==
  ASSUME SerialInv, TypeInv', \A u, v \in Sessions : u = v,
         NEW s \in Sessions, Commit(s) \/ Rollback(s)
  PROVE  SerialInv'
PROOF
<1>1. \A v \in Sessions : txn'[v] = NoTxn
  BY DEF SerialInv, TypeInv, Commit, Rollback
<1>2. SafeFleet(statuses', rollout', release')
  <2>1. CASE Commit(s)
    <3>1. SafeFleet(StNext(statuses, txn[s]), RoNext(rollout, txn[s]),
                    ReNext(release, txn[s]))
      BY DEF SerialInv, SerialTxn
    <3>2. QED
      BY <2>1, <3>1, CommitEffect
  <2>2. CASE Rollback(s)
    <3>1. statuses' = statuses /\ rollout' = rollout /\ release' = release
      BY <2>2 DEF Rollback, statuses
    <3>2. QED
      BY <3>1 DEF SerialInv
  <2>3. QED
    BY <2>1, <2>2
<1>3. /\ statuses' = [i \in Rows |-> statuses'[i]]
      /\ rollout' = [r \in Rollouts |-> rollout'[r]]
      /\ release' = [v \in Releases |-> release'[v]]
  BY DEF TypeInv, statuses
<1>4. SerialTxn(statuses', rollout', release', NoTxn)
  BY <1>2, <1>3, NoTxnSerial
<1>5. QED
  BY <1>1, <1>2, <1>4 DEF SerialInv

LEMMA SerialEnvironment ==
  ASSUME SerialInv, TypeInv', Environment
  PROVE  SerialInv'
PROOF
<1>1. statuses' = statuses
  <2>1. \A i \in Rows : row'[i].status = row[i].status
    <3>1. CASE \E i \in Rows : DeadlinePasses(i)
      BY <3>1 DEF DeadlinePasses, SerialInv, TypeInv, RowType
    <3>2. CASE \E d \in Devices : Reboot(d)
      <4>1. \A i \in Rows : row'[i] = row[i] \/ row'[i] = [row[i] EXCEPT !.restarted = TRUE]
        BY <3>2 DEF Reboot
      <4>2. QED
        BY <4>1 DEF SerialInv, TypeInv, RowType
    <3>3. QED
      BY <3>1, <3>2 DEF Environment
  <2>2. QED
    BY <2>1 DEF statuses
<1>2. rollout' = rollout /\ release' = release
  BY DEF Environment, DeadlinePasses, Reboot
<1>3. ASSUME NEW s \in Sessions PROVE SerialTxn(statuses, rollout, release, txn'[s])
  <2>1. \/ txn'[s] = txn[s]
        \/ txn'[s] = [txn[s] EXCEPT !.restarted = TRUE] /\ DOMAIN txn[s].writes # {}
    BY DEF Environment, DeadlinePasses, Reboot
  <2>2. SerialTxn(statuses, rollout, release, txn[s]) /\ txn[s] \in TxnType
    BY DEF SerialInv, TypeInv
  <2>3. CASE txn'[s] = [txn[s] EXCEPT !.restarted = TRUE] /\ DOMAIN txn[s].writes # {}
    <3> DEFINE t == txn[s]
               u == txn'[s]
    <3>1. /\ u.pc = t.pc /\ u.writes = t.writes /\ u.rolls = t.rolls /\ u.rels = t.rels
          /\ u.offers = t.offers /\ u.pauses = t.pauses /\ u.settle = t.settle
      BY <2>2, <2>3 DEF TxnType
    <3>2. t.pc # "idle"
      BY <2>2, <2>3, NoTxnType DEF SerialTxn
    <3> HIDE DEF t, u
    <3>3. /\ StNext(statuses, u) = StNext(statuses, t) /\ RoNext(rollout, u) = RoNext(rollout, t)
          /\ ReNext(release, u) = ReNext(release, t)
      BY <3>1 DEF StNext, RoNext, ReNext
    <3>4. SerialTxn(statuses, rollout, release, t)
      BY <2>2 DEF t
    <3>5. SerialTxn(statuses, rollout, release, u)
      BY <3>1, <3>2, <3>3, <3>4 DEF SerialTxn
    <3>6. QED
      BY <3>5 DEF u
  <2>4. QED
    BY <2>1, <2>2, <2>3
<1>4. QED
  BY <1>1, <1>2, <1>3 DEF SerialInv

LEMMA SerialNext ==
  ASSUME SerialInv, [Next]_vars, \A u, v \in Sessions : u = v
  PROVE  SerialInv'
PROOF
<1>1. TypeInv'
  BY NextTypes DEF SerialInv
<1>2. CASE UNCHANGED vars
  BY <1>1, <1>2 DEF vars, SerialInv, statuses
<1>3. QED
  BY <1>1, <1>2, SerialDevice, SerialAdmin, SerialSweep, SerialWork, SerialEnd,
     SerialEnvironment DEF Next, Finish

LEMMA SerialImplies ==
  SerialInv => LimitRespected /\ OneDeploymentPerRelease /\ NothingWithdrawnIsOffered
PROOF
<1> SUFFICES ASSUME SerialInv
             PROVE  LimitRespected /\ OneDeploymentPerRelease /\ NothingWithdrawnIsOffered
  OBVIOUS
<1>1. SafeFleet(statuses, rollout, release) /\ \A i \in Rows : statuses[i] = row[i].status
  BY DEF SerialInv, statuses
<1>2. LimitRespected
  <2>1. \A r \in Rollouts : InFlightOf(r) = FlightOf(statuses, r)
    BY <1>1 DEF InFlightOf, FlightOf, RowsOf
  <2>2. QED
    BY <1>1, <2>1 DEF LimitRespected, SafeFleet
<1>3. OneDeploymentPerRelease
  <2> SUFFICES ASSUME NEW i \in Rows, NEW j \in Rows, i[2] = j[2], Target(i) = Target(j),
                      statuses[i] \in Active, statuses[j] \in Active
               PROVE  i = j
    BY <1>1 DEF OneDeploymentPerRelease, Active
  <2>1. /\ statuses[i] # "none" /\ statuses[j] # "none"
        /\ i[1] \in Int /\ j[1] \in Int
    BY StatusFacts DEF Active, Rows, Rollouts
  <2>2. ~(i[1] < j[1]) /\ ~(j[1] < i[1])
    BY <1>1, <2>1 DEF SafeFleet, Target
  <2>3. i[1] = j[1]
    BY <2>1, <2>2
  <2>4. QED
    BY <2>3 DEF Rows
<1>4. NothingWithdrawnIsOffered
  BY <1>1 DEF NothingWithdrawnIsOffered, SafeFleet, Target
<1>5. QED
  BY <1>2, <1>3, <1>4

(* One transaction at a time: no rollout ever has more deployments under   *)
(* way than it allows, whichever of the handlers offers them               *)
(* (_promote_queued, from all of its callers).                             *)
THEOREM SlotsAreRespected ==
  ASSUME \A u, v \in Sessions : u = v
  PROVE  Spec => []LimitRespected
PROOF
<1>1. SerialInv /\ [Next]_vars => SerialInv'
  BY SerialNext
<1>2. QED
  BY SerialInit, <1>1, SerialImplies, PTL DEF Spec

(* One transaction at a time: a device has at most one deployment of a     *)
(* release that is not over, over all the rollouts of that release         *)
(* (request_deployment looks at the newest one only).                      *)
THEOREM OneActiveDeployment ==
  ASSUME \A u, v \in Sessions : u = v
  PROVE  Spec => []OneDeploymentPerRelease
PROOF
<1>1. SerialInv /\ [Next]_vars => SerialInv'
  BY SerialNext
<1>2. QED
  BY SerialInit, <1>1, SerialImplies, PTL DEF Spec

(* One transaction at a time: nothing of a revoked release waits for a     *)
(* device, nothing of a cancelled rollout is before its restart            *)
(* (revoke_release, cancel_rollout, _promote_queued).                      *)
THEOREM WithdrawnStaysWithdrawn ==
  ASSUME \A u, v \in Sessions : u = v
  PROVE  Spec => []NothingWithdrawnIsOffered
PROOF
<1>1. SerialInv /\ [Next]_vars => SerialInv'
  BY SerialNext
<1>2. QED
  BY SerialInit, <1>1, SerialImplies, PTL DEF Spec

(* Only a commit changes the status of a deployment.                       *)
LEMMA OnlyCommitsWrite ==
  ASSUME TypeInv, [Next]_vars, NEW i \in Rows, row'[i].status # row[i].status
  PROVE  \E s \in Sessions : Commit(s)
PROOF
<1>1. CASE Environment
  <2>1. CASE \E j \in Rows : DeadlinePasses(j)
    BY <2>1 DEF DeadlinePasses, TypeInv, RowType
  <2>2. CASE \E d \in Devices : Reboot(d)
    <3>1. row'[i] = row[i] \/ row'[i] = [row[i] EXCEPT !.restarted = TRUE]
      BY <2>2 DEF Reboot
    <3>2. QED
      BY <3>1 DEF TypeInv, RowType
  <2>3. QED
    BY <1>1, <2>1, <2>2 DEF Environment
<1>2. CASE Device
  BY <1>2 DEF Device, ReportEvent, ReportConfirmed, Report, Poll, Load
<1>3. CASE Admin
  BY <1>3 DEF Admin, PublishRelease, RevokeRelease, CreateRollout, PauseRollout,
     ResumeRollout, MoveRollout, CancelRollout, Load
<1>4. CASE \E s \in Sweepers : Sweep(s)
  BY <1>4 DEF Sweep, Load
<1>5. ASSUME NEW s \in Sessions, Work(s) \/ Rollback(s) PROVE row' = row
  BY <1>5 DEF Work, Rollback
<1>6. CASE UNCHANGED vars
  BY <1>6 DEF vars
<1>7. QED
  BY <1>1, <1>2, <1>3, <1>4, <1>5, <1>6 DEF Next, Finish

(* One transaction at a time: a failure that a device reports, or that its *)
(* silence after a restart amounts to, leaves no rollout active above its  *)
(* threshold (_maybe_auto_pause).                                          *)
THEOREM FailuresPauseRollouts ==
  ASSUME \A u, v \in Sessions : u = v
  PROVE  Spec => FailurePauses
PROOF
<1> DEFINE A == \A i \in Rows :
      /\ row'[i].status # row[i].status
      /\ \/ row'[i].status \in {"failed", "rolled_back"}
         \/ row[i].status = "awaiting_confirmation" /\ row'[i].status = "timed_out"
      => LET all == {j \in RowsOf(i[1]) : row'[j].status # "none"}
             bad == {j \in all : row'[j].status \in TerminalFailure}
         IN rollout'[i[1]].status = "active" =>
              Cardinality(bad) * 100 < Threshold * Cardinality(all)
<1>1. SerialInv /\ [Next]_vars => A
  <2> SUFFICES ASSUME SerialInv, [Next]_vars, NEW i \in Rows,
                      row'[i].status # row[i].status,
                      \/ row'[i].status \in {"failed", "rolled_back"}
                      \/ row[i].status = "awaiting_confirmation" /\ row'[i].status = "timed_out",
                      rollout'[i[1]].status = "active"
               PROVE  LET all == {j \in RowsOf(i[1]) : row'[j].status # "none"}
                          bad == {j \in all : row'[j].status \in TerminalFailure}
                      IN Cardinality(bad) * 100 < Threshold * Cardinality(all)
    OBVIOUS
  <2>1. PICK s \in Sessions : Commit(s)
    BY OnlyCommitsWrite DEF SerialInv
  <2>2. /\ statuses' = StNext(statuses, txn[s])
        /\ rollout' = RoNext(rollout, txn[s])
    BY <2>1, CommitEffect
  <2>3. \A j \in Rows : statuses[j] = row[j].status /\ statuses'[j] = row'[j].status
    BY DEF statuses
  <2>4. IsFailure(statuses[i], statuses'[i])
    BY <2>3 DEF IsFailure
  <2>5. SerialTxn(statuses, rollout, release, txn[s]) /\ txn[s].pc = "working"
    BY <2>1 DEF SerialInv, Commit, Flushed
  <2>6. BelowThreshold(statuses', i[1])
    BY <2>2, <2>4, <2>5 DEF SerialTxn
  <2>7. /\ {j \in RowsOf(i[1]) : row'[j].status # "none"} =
           {j \in RowsOf(i[1]) : statuses'[j] # "none"}
        /\ {j \in {j \in RowsOf(i[1]) : row'[j].status # "none"} :
              row'[j].status \in TerminalFailure} =
           {j \in {j \in RowsOf(i[1]) : statuses'[j] # "none"} :
              statuses'[j] \in TerminalFailure}
    BY <2>3 DEF RowsOf
  <2>8. QED
    BY <2>6, <2>7 DEF BelowThreshold
<1>2. SerialInv /\ [Next]_vars => SerialInv'
  BY SerialNext
<1>3. QED
  BY SerialInit, <1>1, <1>2, PTL DEF Spec, FailurePauses
==============================================================================
