# Verification of the EMS management platform

TLA+ specifications of the parts of this platform whose correctness depends on
the order in which operators, devices, the optimizer and the Celery worker act,
the TLC configurations that check them on small instances, and proofs for every
instance of what matters most.

    tlc -workers 2 -config ClosedLoop_session.cfg MC_ClosedLoop
    tlc -workers 2 -config Firmware_serial.cfg MC_Firmware
    tlc -workers 2 -config Services.cfg MC_Services
    tlapm ClosedLoop_proofs.tla     (and Firmware_proofs, Devices_proofs, Members_proofs, Stations_proofs,
                                     Services_proofs, Sums_proofs, Energy_proofs)

`PROJECT.json` lists the components, the runs, the definition-by-definition map
to the source, the hazards of the code and the property that guards each one, and
for every property a mutated definition that breaks it.

## 1. Inventory

The platform is a FastAPI application, a PostgreSQL database and Celery workers.
There is no shared memory: processes meet in database rows. Concurrency is
therefore transactions (READ COMMITTED, sessions with autoflush off), row locks
where a handler takes them, and what a session has read before it got a lock.
Every module says in its first comment which lock its handlers hold, because that
decides what is one action and what is two.

| component | state | operations | lock | module |
|---|---|---|---|---|
| Closed-loop control (`control_service`, `command_dispatch_service`) | control, policies, approvals, commands, verifications, outcomes, `Station.execution_mode` | policy, mode, emergency stop, approve, dispatch, deliver, answer, read back, reconcile | station | `ClosedLoop`, `ControlSession` |
| Optimizer (`optimization_service`) | runs, plans, intervals | solve, publish, fall back, retire the previous plan | station | `ClosedLoop` (publication), `Optimizer` (what a plan may be) |
| Recommendations (`recommendation_service`) | preferences, control revision | apply a preset | station | `ClosedLoop`, `StationSetup` |
| Firmware fleet (`firmware_service`) | releases, rollouts, deployments | publish, revoke, create, pause, resume, cancel; offer, report; sweep | none | `Firmware` |
| Device identity (`device_service`, `device_deps`) | device, credentials, activation code | enrol, activate, allocate, transfer, reset, rotate, revoke | device, in some | `DeviceIdentity` |
| Inverter configuration (`inverter_config_service`) | desired revisions, reports, write commands | save, report, deliver, accept, confirm | device or station | `InverterConfig` |
| Telemetry (`device_service`, `aggregation_service`, `workers/tasks.py`) | samples, aggregates, queue of hours | ingest, aggregate, drain, purge | `SKIP LOCKED` on the queue | `Telemetry`, `EnergyAccounting` |
| Admin jobs (`workers/tasks.py`, admin routes) | jobs, execution rows | trigger, publish, claim, finish | target, job | `AdminJobs` |
| EV charging (`ev_service`) | connector, observations, sessions, consent | observe, require, change privacy, retain | station | `EvSessions`, `EnergyAccounting` |
| Health (`health_service`) | evaluations, state, alerts | evaluate, evaluate the past, give feedback | station | `HealthAlerts`, `HealthRules` |
| Notifications (`notification_service`) | notifications, deliveries | materialize, route, escalate, send | delivery, `SKIP LOCKED` | `Notifications` |
| Mobile sessions (`mobile_auth_service`) | user, registration, sessions, tokens | register, sign in, refresh, sign out, revoke, purge | user, session | `MobileSessions` |
| Organizations (`organization_service`, `membership_service`, routes) | memberships, invitations, status, web sessions | change, remove, invite, accept, suspend | memberships of the organization | `Accounts` |
| Station set-up (`station_service`, `tariff_service`, `romanian_tariff_service`, routes) | configuration, preferences, tariff versions | edit, preset, price pair, complete | station, in some | `StationSetup` |
| Market prices (`opcom_service`, retention) | import runs, current prices | poll, import, file, archive | advisory lock of the day | `MarketPrices` |
| Forecasts (`weather_service`, `pv_forecast_service`, `consumption_forecast_service`) | cache, forecasts, plan inputs | fetch, issue, choose, label | none | `Forecasts` |
| Solar inputs (`solar_service`) | inverter, inputs, samples | report, configure, snapshot | inverter, for reports | `SolarInputs` |
| Deye Cloud (`deye_cloud_service`) | connection, synthetic device, samples | connect, select, import, disconnect, poll | none | `DeyeCloud` |
| Home Assistant, inbound | bridge, observations | pair, map, ingest, disconnect, purge | bridge | `HomeAssistantBridge` |
| Home Assistant, MQTT | connection, mapping | consent, test, poll, back off, erase | connection | `HomeAssistantMqtt` |
| Scheduling | Celery beat, execution rows | start a task | | fairness of `ClosedLoop` and `Firmware`; `AdminJobs` |
| Dashboards, web pages, mobile read API, assistant, simulator | none of their own | queries | | not modelled |

How they interact: devices post telemetry, poll for commands and firmware, and
answer; telemetry feeds the aggregates, which feed the load forecast, the budgets of
the optimizer and the health rules; the optimizer publishes plans, which control
approves and dispatches; a change of configuration or preferences ends the control
session; health opens alerts, which become notifications. The composition that
matters for safety, plan, approval, command, device and read-back, is one module
(`ClosedLoop`), because its parts hold the same station lock and share rows.

What is hard in each, and what makes it correct:

* **Closed-loop control.** The operator may stop the station at any point between
  the approval of a plan and the physical write of a setpoint; the optimizer may
  replace the plan; answers, failures and read-backs come late or never; the
  worker repairs all of this every two minutes. Correct means: a command that a
  device may still execute was authorised in the current session of control; a
  command that ended stays ended; a failure suspends; nothing is left pending.
* **Firmware fleet.** Device reports, operators and the sweep change the same
  rows with blind updates. Correct means: the limit of concurrent installations
  is kept, a device installs one thing at a time, success is only ever declared
  after a restart into the new version, failures pause the rollout, and every
  deployment ends.
* **Device identity.** Handlers overlap and answers are lost. Correct means: one
  usable credential, for the station the device is on, and a unit that can always
  fetch its new secret.
* **Inverter configuration.** Revisions, reports and writes race under two different
  locks. Correct means: only the newest revision is accepted, and one that counts as
  executed is backed by a report.
* **Telemetry.** Late samples, aggregation and purge overlap. Correct means: every
  sample ends in the aggregates of its hour and of the next, and stays there.
* **Admin jobs.** Delivery at least once and workers that die. Correct means: the work
  of a job is done once at most, and a target has one active job.
* **EV charging.** Observations out of order, retention, consent withdrawn. Correct
  means: sessions follow one another and agree with the connector; no vehicle is named
  without consent.
* **Health and notifications.** Windows evaluated late or twice, operators who close
  incidents, workers that die while they send. Correct means: incidents do not overlap
  and respect the cooldown; a routed notice is carried by some delivery.
* **Accounts and sessions.** Two administrators act on each other; two refreshes use one
  token. Correct means: an organization keeps an administrator; a live session has one
  token.
* **Set-up and prices.** Forms that were opened long ago; imports that race. Correct
  means: no edit is made over a version its editor did not see, a moment has one tariff,
  the current prices are those of the newest import that succeeded.
* **Integrations.** Network waits between a read and a write; messages late and repeated.
  Correct means: what is shown was observed under the mapping and the consent in force.

The hazards, at their lines, are in `PROJECT.json`.

## 2. Plan

Done: everything in the table above that names a module. The order was control and
firmware first, then what decides who a device is and what it is told, then the data
that plans are made from, then the integrations.

The proofs followed the same order; section 7 lists them. Every safety property of the passing
runs has a theorem, and so has every equality that `EnergyChecks` evaluates.

Left:

1. `Firmware` with transactions that overlap: what remains true of the number of installations.
2. The composition of `InverterConfig` with the execution mode that `ClosedLoop` leaves
   behind (finding 1 shows why it matters), and of `HealthAlerts` with `Notifications`.
3. The morning briefing and the weekly reports; older claim codes; web sessions.

## 3. Closed-loop control

`ClosedLoop.tla` models one station. The map of `PROJECT.json` gives the lines of
each definition.

**State.** `control` is the `StationControl` row, `execMode` the column
`Station.execution_mode`. `policies`, `plans` and `approvals` are the rows by
version; a plan record also carries what its optimization run recorded (sound or
fallback, the configuration version). A command is identified by device, plan and
slot, which is what its idempotency key says; `status`, `executedAt`, `ver` and
`evidence` are its columns and those of its verification row. `outcome` is the
`PlanOutcome` of an interval. `cfg` stands for the newest configuration and
preference versions, `gate` for what `device_gate` and the authentication see of
a device, `inputs` for whether the measured data pass the other checks of
`policy_check`; the environment changes these three at will.

**Atomicity.** Every handler locks the station row first and holds it until
commit, so a handler is one action. What was read before the lock is not covered
by it: a web request resolves the station in its access dependency and
`lock_station` does not repopulate the object, and the worker's pass loads every
station when it starts. `ClientLoad` and `WorkerLoad` are these reads; `client` and
`worker` keep what was read. Assigning an attribute the value that was read sends
no UPDATE, which is what `Written` says. The worker's pass holds the lock over
several actions (`WorkerLock`, one `Reconcile` for each command, `Dispatch`); other
handlers wait (`LockFree`) and time does not advance meanwhile. Configuration
changes and gates do not take the lock and go on.

**Abstractions.** Power, state of charge, budgets and windows appear only through
`inputs`; the snapshot hash of an approval is the pair of configuration and policy;
a retry or a contradiction of an answer already given changes nothing, so it is no
step; a request that raises rolls back (`ClientFails`); the station is active, and
the two-day window of `reconcile_station` is longer than modelled time.

**Bounds.** `MaxPlan`, `MaxPolicy`, `MaxConfig`, `NumSlots`, `MaxTime` bound what the
environment creates; at `MaxRevision` operators send no more requests (four
revisions are: a policy is saved, control goes live, it is suspended, and one more
change of mode). They bound the environment, never the worker or a device.

**Fairness.** `FairSpec` is weak fairness of the worker's actions: Celery beat starts
the task every two minutes and each pass ends. Operators, devices, the optimizer and
the clock owe nothing.

**Abstract specification.** `ControlSession` is what the component promises: commands
are opened only in a live session, each at most once, and the end of a session closes
all of its commands. A session is a revision of `StationControl`. `RefinesSessions`
is the refinement, with open commands being the created, delivered and accepted ones.

### What the runs show

| run | instance | checks |
|---|---|---|
| `ClosedLoop_session` | 1 device, 1 request at a time, 1 plan of 2 intervals, 2 configurations, 3 ticks | types; live control has a live station; refinement of `ControlSession` |
| `ClosedLoop_readback` | 2 devices, intervals of 2 ticks, policies that expire inside an interval or late, 4 ticks | verification rows agree with commands; a verified outcome is backed by a read-back; open commands belong to the current approval and end before the policy; a failure suspends and withdraws |
| `ClosedLoop_plans` | 2 plans that replace each other | one active plan; commands are handed out only for the active plan and inside their interval |
| `ClosedLoop_live` | fairness of the worker | every failure is noticed; nothing stays pending |
| `ClosedLoop_stale` | 2 requests, no plan needed | finding 1 |

The bounds are enough for the cases the properties are about: intervals of two ticks
give a measurement before and after the application inside one interval, and a policy
that ends in the middle of one; a read-back wait of two ticks lets a mismatch of one
interval arrive when the command of the next is already accepted; two plans let an
approval race a publication; two devices separate the device that accepted a plan from
the one its policy names.

### Findings

1. `ClosedLoop_stale`: a suspension, the emergency stop included, whose request read the
   station before a concurrent change of mode committed leaves
   `Station.execution_mode = 'live'` although control is suspended. Closed-loop
   commands stay blocked (`OpenUnderCurrentApproval` holds), but
   `inverter_config_service.supports_write` reads that column.

The model also shows, without contradicting what the code promises: a command that the worker
itself expires while control is live may end `superseded`, because `cancel_pending` selects by the
status in the database before the session flushed; after a missing read-back
every pass for two days suspends control again, because `read_back_at` stays empty;
`approve_plan` may record an approval of a plan that was superseded while the request
waited for the lock, which is harmless because dispatch and delivery look at the
active plan (`HandedOutForActivePlan`).

### What is proved

`ClosedLoop_proofs.tla`, for any devices, clients, bounds and delays that satisfy
`ConstantsAssumption`:

* `TypeCorrect`: `Spec => []TypeOK`.
* `OpenCommandsAreApproved`: `Spec => []OpenUnderCurrentApproval`.

`OpenUnderCurrentApproval` is not inductive. A command becomes open in three ways:
`Dispatch` creates it and `ListPendingCommands` and `AcknowledgeCommand` move it
between open statuses. All three ask `ExecutionAuthorized`, which compares the approval
with the current revision, mode, policy and device. The invariant breaks only if control
changes and the command stays open, or if its approval changes. So the strengthening
`SessionInv` adds what makes this impossible: types, and that the revision of control is
positive. An open command has an approval that carries the current revision, hence one
that is not the "none" of revision zero, and `approve_plan` gives no second approval to
the same plan and policy. The proof has one lemma
for `CancelPending` and `Suspend` (they leave no open command when control changes) and
one step for each action.

* `LiveStations`: `Spec => []LiveControlHasLiveStation`. What breaks it is a request that
  assigns the mode it thinks the station has. `StationInv` adds what the requests know: a request
  never holds a revision of control that is newer than the current one, and one that holds the
  current revision also holds the current execution mode. The stale suspension of finding 1 does
  not contradict it: it leaves a live station under a control that is not live, never the
  opposite.
* `FailuresAlwaysSuspend`: the action property `FailureSuspends`, from the same steps.
* `ControlImplementsSessions`: `Spec => RefinesSessions`, the refinement of `ControlSession`.
  The steps are first described by what all of them have in common (`StepFacts`: how control
  moves, what a request does to commands, in which order a command proceeds); from these facts each
  step is shown to open a command, to end a session with all of its commands, or to stutter. A
  command that is opened is new because its plan and slot are, and a session that is entered
  under live control is entered with no open command (`SessionInv`).
* `OnePlanIsActive` and `OnlyActivePlansHandedOut`: with one active plan at most (`PlanInv`) the newest
  plan of a set of active statuses is the plan that has one (`LatestPlanIsTheOne`), which is what the
  checks before a delivery compare a command with.
* `OpenCommandsEndInTerm`: `TermInv` says that the horizon of an approved plan ends before the
  approval and before the policy it was given under, neither of which is written again, and that
  open commands lie inside the horizon of their plan; it rests on `SessionInv` and `OneActivePlan`.
* `VerificationsAgree` and `OutcomesAreBacked`: `VerInv` is the agreement of a verification row with
  its command plus where the times of application and measurement lie; a command that is read back
  never leaves that status (`VerifiedStays`), so an outcome based on it stays true.

Only model-checked: liveness (`FailureIsNoticed`, `NothingStaysPending`), which is out of the
prover's reach.

## 4. Firmware fleet updates

`Firmware.tla` models the releases, the rollouts and one deployment for each device of
a rollout (a rollout requests at most one).

**State.** `release`, `rollout` and `row` are the status columns, with the release of a
rollout. Two flags of a deployment stand for columns that are only ever compared:
`late` for "now is past `offer_expires_at` or `confirmation_deadline_at`", whichever its
status looks at, and `restarted` for "the boot id the device has now is not
`boot_id_before`". The attempt number is the number of the rollout.

**Atomicity.** `firmware_service` takes no row lock. `txn` holds one transaction for each
session, in three steps. The action of the handler (`ReportEvent`, `Poll`,
`CancelRollout`, `Sweep`, ...) reads rows and decides what to write. `Work` flushes these
writes and then reads again, as `_maybe_auto_pause` and `_promote_queued` do after their
flush: what the others committed and what the session wrote itself. `Commit` publishes.
An UPDATE names the row and not the status it was based on, so a write that is based on
an old read overwrites; a flushed row makes the others wait (`Waits`). A handler that
raises, or whose connection breaks, writes nothing (`Rollback`).

**Abstractions.** Compatibility and the permission to downgrade are the choice of the set
of devices in `CreateRollout`. The order of the queue is left open. The device is external:
it reports any event its status allows, restarts at any time and knows the boot it runs.
One rollout is created at a time, because the unique key of the attempt rejects the second
of two that request the same device. The several reads of one handler before its first
flush are one step. A sweep that dies is a sweep that did not run. The status `completed`
of a rollout and the status `restarting` of a deployment are never set by the code.

**Fairness.** `FairSpec`: deadlines pass, requests end, and the sweep runs again and again
and gets the row locks it waits for (strong fairness of its steps, since another session
may hold a row each time it looks; PostgreSQL grants row locks in the order of the queue).
Devices and administrators owe nothing.

### What the runs show

| run | instance | checks |
|---|---|---|
| `Firmware_serial` | 2 devices, 2 rollouts of a release, limit 1, one session that serves requests and sweeps | types; the limit of a rollout, the restarting devices included; one live deployment of a release for a device, over all rollouts; nothing revoked or cancelled waits for a device; a reported failure pauses at the threshold |
| `Firmware_concurrent` | 2 devices, 1 rollout, limit 1, a request session beside the sweep, fairness | no success without a restart; offers and confirmations that are overdue end; a free slot is used |
| `Firmware_cancel` | 1 device, 2 request sessions | finding 2 |
| `Firmware_stuck` | 1 device, fairness | finding 3 |

Two rollouts let a device be requested again after a failure, or while it waits; two
devices and a limit of one make one wait for the other; a threshold of 50 (60) per cent
makes one failure of two pause (not pause) the rollout. One session at a time is what the
invariants of `Firmware_serial` need: with two, the code exceeds the limit (both count the
same free slot), rewrites a deployment that ended (a report read before the sweep
committed), and two failures that do not see each other both miss the automatic pause.
No document of the repository promises these under concurrency, except the one of finding 2.

### Findings

2. `Firmware_cancel`: `cancel_rollout` cancels a deployment whose device reported its restart
   after the deployment was read, although its comment says that such a device runs to its
   own end. The confirmation is then refused.
3. `Firmware_stuck`: `FirmwareDeployment` says that a deployment stuck before its restart times
   out through `offer_expires_at`; the code looks at it only while the status is `offered`.
   A device that falls silent in `downloading`, `verified` or `installing` keeps its slot until
   an administrator cancels the rollout.

`SuccessNeedsRestart` is checked with one request session beside the sweep. With two it
fails: a device that restarts twice and sends a second `restarting` while it confirms the
first restart can end with a success whose `boot_id_before` is the boot that confirmed.
The device agent is not part of the repository; that it sends one report at a time is
assumed of it.

The model also shows, without contradicting any document: a poll that finds an offer
expired times it out without the automatic pause and the promotion that the sweep does
(`FailurePauses` leaves this case out); the pause happens at the threshold although the
docstring says "exceeds"; a device in rollouts of two releases may have two deployments in
flight; a deployment that was cancelled or rejected is never requested again.

## 5. The services

Seventeen components share no state with each other in the model, so they are one run: `MC_Services`
has a variable `focus`, chosen at the start, that names the component that moves; the others
stand still in one of their initial states. The behaviours under a focus are all those of that
component's own specification, and the states of the run are the sum of the components' states,
not their product. Where a component has several initial states, `ServicesInit` pins it while another
one moves. Time, wherever it matters, is a small counter of the unit that the code's comparison needs:
instants, hours, days, windows or slots.

Each paragraph below says what the rows and steps are, what is abstracted, and what is checked.

**`DeviceIdentity`.** `device` is the row, `credentials` the active credential rows, `held` the secret
the unit has stored, `calls` what a session without a lock has read. Activation, transfer and reset
lock the row and are one action; enrolment, allocation, revocation and the authentication that clears a
pending secret are a read and a write. Answers to the unit may be lost. `CredentialsFollowDevice`: an
active device has one usable credential, issued for the station it is on, and an inactive one none. It
is checked with one call at a time: `allocate_device` takes no lock, so with two the second
administrator overwrites the first. `SecretWaitsForUnit` is finding 5.

**`InverterConfig`.** Revisions and reports by version, the write command of each revision. Saving and
reporting hold the device lock, delivery and answers the station lock; the two groups do not exclude
each other, so a save (`saving`) and a request of the command protocol (`serving`) are two steps each,
with what they read in between. `AcceptedIsNewest` and `ExecutedIsConfirmed` say that the row locks of
the last flush are enough. A value is equal or not to another; the range checks are left out.

**`EvSessions`.** Every writer holds the station lock; only the privacy route reads the EVSE before it
waits. Observations come in any order and more than once. `SessionsFollowConnector` orders the sessions
and ties the open one to the connector; `VehicleDataNeedsConsent` says that no row names a vehicle while
consent is withdrawn, whatever raced with the withdrawal.

**`HealthRules` and `HealthAlerts`.** `HealthRules` has one operator for each rule, from readings on
both sides of its thresholds to a verdict. `HealthAlerts` takes as `possible` the set of verdicts that
one of the rules can reach, now and about the past, and models the windows, which are evaluated late,
twice or never, the life of an incident and the feedback of operators. `IncidentsAreApart`: incidents do
not overlap and keep the cooldown that the end of the earlier one started. Not promised, and not so: an
incident of the rule on commands has no later finding once the command is a day old and stays open
(`health_service.py:449`), and the incident on the state of charge cannot recover when the reserve is
within four points of the maximum (`health_service.py:297`).

**`Notifications`.** The outbox of one member on one channel; a worker materializes and routes in one
transaction and sends each delivery in another, and may die after the provider took the message.
Preferences are read when they are used. `RoutedIsCarried`: a notice that was routed while the channel
was on is in a delivery, because `routed_at` is set once. It is checked with one worker: two runs that
overlap can let a notice join a digest that the other run has just sent, and that notice is not sent
again (TLC shows it with `Senders = {w1, w2}`; no document of the repository speaks of overlapping runs).

**`AdminJobs`.** The route, the broker that delivers again, the workers that claim, commit, mark and
die. `JobsRunOnce`: the work is committed once at most, `succeeded` means done, and a target has one
active job. A worker that dies after its claim leaves the job running; that is the behaviour of the code
and listed as a hazard. Proved (section 7).

**`MarketPrices`.** One day of delivery: the poll by slots, an administrator's import and file, the
archive. An import holds the advisory lock of the day while it fetches, so it is two actions; the archive
reads and then writes. `CurrentPricesAreSound`: the current intervals are those of the newest import that
succeeded, not archived, and synthetic prices never replace real ones.

**`Telemetry`.** Time in hours, one sample an hour; a transaction is what it reads and what it writes at
its commit. Batches, the periodic aggregation, the drain of the queue and the purge overlap.
`SamplesAreIntegrated`: a sample too old for the periodic task is in the aggregates of its hour and of the
next, or the hour is queued. `AggregatesKeepSamples`: nothing is deleted that an aggregation may still need.

**`Accounts`.** Memberships, invitations, the status of an organization, its web sessions. A request
loads a membership, waits for the lock on all of them and reads it again. `LastAdminStays`: no
interleaving removes the last active administrator. Proved.

**`MobileSessions`.** A refresh finds its token without a lock and then waits. `SessionsAreSingle`: a live
session has one usable token, an installation one live session, a user at most `MAX_SESSIONS`.

**`StationSetup`.** Versions of the configuration, the preferences and the tariffs; a form carries what
its editor saw. `HistoryIsLinear`: no edit over a version its editor did not see, and a moment of a tariff
has one version. Only the unique key stops the slower of two editors of the configuration.

**`Forecasts`.** The weather cache, the issues of the three forecasts, and the labels of quality that an
optimization run records, as `policy_check` later reads them. Values are left out: an interval is known or
not, real, synthetic or estimated. Finding 4 is about the labels; the types are checked in `Services`.

**`Optimizer`.** What a solution may be (the hard constraints, in whole units) and the battery under plans
that are replaced while they are carried out. The objective and the soft penalties only choose among the
solutions, so any solution may be published. `BudgetsHold`: the plans together stay within the budget of a
day and of a month of the station's own calendar, up to what no plan could know, the interval under way and
those that aggregation misses.

**`SolarInputs`.** Reports that are late, repeated or partial, and a snapshot of three queries without a
lock. `TotalsLeaveNothingBehind`: no total mixes in an input that a report stored before the snapshot left
out. Checked for reports of the device (`CloudReported = FALSE`) and clocks that are not ahead.

**`DeyeCloud`.** Nothing is locked and handlers wait for the network between a read and a commit; an UPDATE
carries only the columns that changed (`MergedRow`). `PolledIsComplete`: a connection that is polled has an
account, a remote station and an active device, however long a poll of an earlier connection takes. With
two pages that overlap it does not hold, and nothing promises it.

**`HomeAssistantBridge`.** Every handler locks the row; the wire loses answers and keeps samples.
`ObservationsFitMapping`: what is shown was observed under the mapping and pairing in force. Proved.

**`HomeAssistantMqtt`.** Consent, the exchange under the row lock of the link, back-off, erasure.
`ContextIsWhole`: a value stands beside its own time, and no exchange outlives its consent. A purge that
falls between the columns of a poll can leave a fresh sample marked as unavailable until the next report.

**`EnergyAccounting` and `EnergyChecks`.** Pure functions: integrals of power with a hold, splits,
averages, roll-ups, counters, prices, invoices, and the energy, cost and savings of a charging session.
`EnergyChecks` compares them with reference definitions over all inputs within small bounds, as named
assumptions that TLC evaluates at the start of `Services`: an integral is a sum over instants, a split adds
up, a roll-up loses only the gaps, a counter's delta is its advance or unknown, meters telescope, cost is a
sum over instants and the portions of a segment add up, no saving is claimed without prices.
`Energy_proofs` proves each for every input (section 7). Power is an
integer and prices are in hundredths, so that VAT is exact; the rounding of stored decimals is left out.

| run | instance | checks |
|---|---|---|
| `Services` | the constants of `Services.cfg`: as a rule one resource, two actors that overlap on it, two or three versions of what they change | `ServicesTypeOK` and the properties named above |
| `Identity_overlap` | 1 unit, 2 sites, 2 calls | finding 5 |
| `Forecasts_labels` | plans of 2 intervals | finding 4 |

The bounds are what the properties need to be reachable, and each is shown to be enough by a mutant of the
code that breaks the property under the very same configuration. Three desired revisions and two reports
are one to make a snapshot match, one to be written and one that supersedes it, and the read-back that
confirms; two versions of the configuration let one of two editors be too late; a lookback of two hours and
a retention of six, of which the last three hours are refused as in the code, leave hours that are
too late for the periodic task, accepted, and soon purged; two deliveries
and two workers let a job be taken twice; two tokens beyond the first let an old token come back.

### Findings

4. `Forecasts_labels`: a run whose forecasts, prices and state of charge are all real publishes a plan
   that `policy_check` refuses as one of untrusted inputs. The optimizer labels inputs `real`, `synthetic`
   or `estimated`; the policy asks for `measured`. No plan that the optimizer publishes can be approved.
5. `Identity_overlap`: a request that authenticated with the old credential before a transfer committed
   clears the secret of the new credential, although the unit never fetched it.

`ClosedLoop` models the check of finding 4 as the choice `inputs`, which is what the documents intend; with
the labels of today that choice would always be "untrusted".

## 6. Fairness

Only `ClosedLoop_live`, `Firmware_concurrent` and `Firmware_stuck` assume any. In both modules it is the
Celery beat schedule (`celery_app.py`): the pass of every two minutes and the sweep run again and again, and
a transaction that began ends. The services are checked for safety only.

## 7. What is proved

Each theorem holds for all constants that satisfy the named assumptions of its module, and, where
the table says so, for one actor at a time. That hypothesis is the instance of the run (one session,
one call, one worker) and not an artefact of the proof: section 4 and section 5 say what the code
does when two overlap, and the properties are then false.

| theorem | property | hypothesis | argument |
|---|---|---|---|
| `ClosedLoop_proofs` (ten theorems) | all safety properties of the `ClosedLoop` runs that hold | | section 3 |
| `FirmwareTypeCorrect` | `TypeOK` | | types of the rows and of what a transaction is to write |
| `SuccessesFollowRestarts` | `SuccessNeedsRestart` | one request session, any sweeps | `RestartInv`: who is to record a success holds a row whose device has restarted, and only requests record successes or restarts, so nobody else can reset the flag of that row in between |
| `SlotsAreRespected`, `OneActiveDeployment`, `WithdrawnStaysWithdrawn`, `FailuresPauseRollouts` | `LimitRespected`, `OneDeploymentPerRelease`, `NothingWithdrawnIsOffered`, `FailurePauses` | one session | `SerialInv`: the rows are safe, and so are the rows as they will be after the commit of the transaction under way (`StNext`, `RoNext`, `ReNext`). Without the second half nothing is known when the commit comes. A transaction that fails a deployment still has to look at its rollout, or has looked |
| `VehiclesNeedConsent` | `VehicleDataNeedsConsent` | | inductive with the types: a vehicle is written only under the lock, from the consent read under it |
| `ConnectorsKeepTheirSessions` | `SessionsFollowConnector` | | `ConnectorInv`: no session begins or ends after the last observation that was applied |
| `AcceptedSettingsAreNewest`, `ExecutedSettingsAreConfirmed` | `AcceptedIsNewest`, `ExecutedIsConfirmed` | | `ConfigInv`: what a save and a request of the protocol have read still holds where it matters, though they hold different locks: an open command of the newest revision is among those the save will replace, and a request writes the newest revision or one that is replaced already |
| `CredentialsStayWithDevice` | `CredentialsFollowDevice` | one call | `IdentityInv`: what the call read of the station and the status is still so; an active device is assigned |
| `PolledConnectionsAreComplete` | `PolledIsComplete` | one page, any polls | `CloudInv`: the page that waits for the network has read the account, the remote station and the status that the row still has, or a poll has set the status `error` |
| `ObservationsAreWhole` | `ContextIsWhole` | | `MqttInv`: one exchange at most holds a link, and what the link shows was reported at that time or is blank |
| `RoutedNoticesAreCarried` | `RoutedIsCarried` | one worker | `OutboxInv`: a digest is not settled before it is due, and a digest that is settled was due before the routing under way began; so a notice that is routed now never joins one |
| `IncidentsStayApart` | `IncidentsAreApart` | | `AlertInv`: the quiet time of every closed incident is over or covered by the one cooldown the row has |
| `MobileSessionsAreSingle` | `SessionsAreSingle` | | `SessionInv`, with `NewestAreFew` about the cardinality of the newest sessions: revoking all but the newest `MAX_SESSIONS - 1` before one is inserted keeps the limit |
| `SamplesAreNotForgotten`, `AggregatesOnlyGrow` | `SamplesAreIntegrated`, `AggregatesKeepSamples` | | `TelemetryInv`: the hours that may be aggregated again (`Reopenable`) still have all their samples, also after the purge that is decided on; before `SettledBefore` every sample is in the aggregates or the hour is queued |
| `PricesStaySound` | `CurrentPricesAreSound` | | `MarketInv`: the current run is the newest that succeeded, and no synthetic run follows a real one |
| `NothingIsLeftBehind` | `TotalsLeaveNothingBehind` | | `SolarInv`: no stored sample is newer than the watermark of its inverter, and a snapshot never compares with a watermark older than the samples it found |
| `SetupHistoryIsLinear` | `HistoryIsLinear` | | `SetupInv`: the versions of a tariff are a chain that only its last element leaves open; a configuration that was checked follows a version that exists, so it is the next one or taken |
| `BudgetsAreKept` | `BudgetsHold` | | `OptimizerInv`: what was discharged and what the newest plan still lets be discharged (`Committed`) are kept within the budgets together, up to `Unseen`. A plan that replaces another one sees all that was spent but for the interval under way and those the aggregates miss (`MostIsSeen`), so either nothing of it falls into a day and the old bound stands, or it fits what was left of that day (`PlanFits`); of the months, only the one the horizon begins in has a past. `BudgetsHold` by itself is not inductive: it says nothing of the plan that is being carried out |
| `JobsRunOnceAlways` | `JobsRunOnce` | | a job leaves the status `queued` only once, so among the workers beyond their claim each has a job of its own (`ClaimsAreUnique`); such a worker's job has no effect before its commit and one after it (`ClaimsAreTrue`), which is what makes the mark it writes true |
| `AccountsTypeCorrect`, `LastAdministratorStays` | types, `LastAdminStays` | | a change that may take an administrator away is guarded by `MayStepDown` on the row read under the lock; the others keep every administrator |
| `ServicesTyped` | `ServicesTypeOK` | | the types of the seventeen components, each with what its types rest on: what a caller has read, a form shows or a message names is typed like the row it came from (`CallType`, `MqttFits`, `RevisionsOnly`), and a counter is within its bound because a guard or a lock says so (`TriesLeft`, `MarketTyped`, `CountsHold`). One component moves while the others stand, so a component's specification is implied by that of the services under its focus |
| `ShownFitsMapping` | `ObservationsFitMapping` | | with the types it is inductive: whatever changes the version, the mapping or the switch empties the observations |

The theorems of `Energy_proofs` bear the names of the assumptions of `EnergyChecks` and say the same of
every input, so they have no run of their own.

| theorem | for every | argument |
|---|---|---|
| `IntegralIsPointwise`, `SplitIsConsistent`, `AverageIsBetween` | finite set of samples with integer values, hold, start and end | the segments are apart, and a unit lies in a segment just when a sample holds in it (`AllSegments`); so a sum over segments of value times length is a sum over units |
| `RollupLosesOnlyTails`, `ReadsStayInside` | width of intervals and finite set of them that are apart (for a reader: aligned) | the row of an interval sees only the samples of the hold before it and its own, and holds the same values as all the samples do (`HeldIsNewest`, `RowSamples`); rows then add up because their units are apart |
| `InputQuartersAddUp` | finite set of reports of an input, with values or without, and intervals that tile the range | a report without a value ends the value before it; units without a value weigh nothing |
| `CounterDeltaIsAdvance` | turn, first value and advance shorter than a turn | arithmetic modulo the turn |
| `MeterTelescopes`, `MeasuredNeedsMeter` | sequence of observations in the order of time | the sum of the differences telescopes (`SumOfSteps`); the worst quality of a set is `measured` only if nothing else is in it |
| `PriceFollowsMarket` | version of a tariff with charges and VAT that are not negative, any market price | arithmetic |
| `PortionsAddUp` | segment of an energy that is not negative, finite set of edges | the last part takes what the integer division of the others leaves; their shares never exceed the whole because the lengths add up to it (`LengthsFit`) |
| `CostIsPointwise` | price that changes only at edges, energy that is even over its segment | a part has one price (`PartHasOnePrice`) and the parts cover the segment (`PartsCover`) |
| `SavingsNeedPrices`, `PricesGiveSavings` | observations whose power is not negative, any prices, edges, start and maximal power | what is priced of a segment never exceeds its energy, so equal sums have equal terms (`SumsEqual`), and a segment priced in full leaves no energy in a part without a price |

`CostIsPointwise` is about one segment and says when all of it is priced; that a session's cost is known
just then is how `SessionCost` is defined.

Edges may be any finite set: where the theorems need that the price is constant between them they say so
(`ChangesAtEdges`), as the code's `split_prices` has it from the intervals of the market and the versions
of the tariff. Powers that are not negative are what an observation may carry (`energy_operations.py:89`); the integrals
need no such hypothesis.

`PolledIsComplete` needs no hypothesis on the polls: one that ends under a later connection writes
only the columns it changed (`MergedRow`).

**Assumptions.** The proofs rest on the assumptions the modules name, which TLC evaluates on the runs.
Most say that a bound is a natural number. Those that say something of the code: `FirmwareAssumption` has a
finite fleet; `EvAssumption` has a clock that can reach its first day; `TelemetryAssumption` asks that
raw samples are kept longer than the periodic task looks back (the setting is in days, 90, the lookback is
three hours) and that samples are refused at least two hours before they are purged, against the three
hours of `device_service.py:295`. The last is needed: with a margin of one hour `AggregatesKeepSamples` is
false, because a late sample makes an hour be aggregated again whose carried-in sample was purged.

Some bounds exclude instances in which nothing could happen and a type would be empty: there is a unit
and an installation (`IdentityAssumption`, `MobileAssumption`), a window, a moment and an attempt
(`HealthAssumption`, `SolarAssumption`, `NotificationAssumption`), and the hours of digests lie in the time
that is modelled.

**Numbers and sums.** The provers have no induction over an operator. `Sums_proofs` gets it from sets: a set
of naturals that is not empty has a smallest element (from the well-foundedness of `<`), so `FirstExists`,
`LastExists` and `SmallestAndLargest`, and `AllNumbers` and `AllElements` are induction with a set in the place
of the predicate. A sum over a set is a fold of the community modules, a recursive function of the subsets:
`SumsExist` and `SumsAreUnique` show that there is exactly one such function, by induction on the sizes of the
subsets, and `SumStep` that it takes one element at a time, in any order (`SumWithout`). Everything else
follows: `SumOfUnion`, `SumByParts` (a sum over parts that are apart), `SumOfImage`, `SumCompares`,
`SumIsBounded`, `SumOfSteps` (telescoping). The proofs of budgets (`TotalIsSum` and the other `Total` lemmas of
`Stations_proofs`) and of energy and money use these laws and never the fold.

**Only model-checked.** No safety property of a passing run and no assumption of `EnergyChecks` is left.
The liveness properties (`FailureIsNoticed`,
`NothingStaysPending`, `DeadlinesBite`, `CapacityIsUsed`) are out of the prover's reach, as is ENABLED. The five
runs that expect a violation show counterexamples and have nothing to prove.

## 8. What is not modelled

* Parts of modelled components: the older claim codes of a device; the approval of register profiles; the
  EV requirements and the estimate of the sources of a charge; the weekly reports, the day cards, the
  morning briefing and the verification of an address; web sign-in and the reset of a password; the loop of
  the weather task over stations (each station is one transaction of `Forecasts`); draft releases, artifacts
  and signatures of firmware.
* Numerics: the geometry of the sun, the regressions behind forecasts, the objective of the linear program,
  the rounding of stored decimals.
* Task bookkeeping: the rows of periodic tasks only report (`AdminJobs` has the execution row of a job).
* Read-only parts: dashboards, charts, the assistant, fleet diagnostics, the mobile read API, web pages.
* The simulator, which is a test device.
