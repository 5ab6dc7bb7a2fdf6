# TLA+ models of my_smart_home

This directory is kept beside the code of a smart home: Home Assistant and
Node-RED on a Raspberry Pi, and a control plane of small brokers that lets
assistants observe and repair it. The models are about the parts of that code
whose correctness depends on the order of steps taken by several actors. They
are checked by TLC on small instances, and the core is proved by TLAPS for
every value of its constants.

Paths below are relative to `src/`; `RS` is
`scripts/raspberry-mcp/runtime-source` and `FN` is `nodered/tools/functions`.

## 1. Inventory

| Component | State it keeps | Operations | Status |
|---|---|---|---|
| Task control (`RS/task-control`, `RS/legacy-control`) | two SQLite registries, one `coordinator.lock`, a revocation file | create, send, workspace send, observe, probe, reconcile, revoke; fixed-thread send and observe | modelled in part, proved |
| Vehicle refresh coordinator (`FN/vehicle-refresh-*`, `vehicle-primary-*`, `vehicle-lifecycle-evidence-*`) | one persistent record: leases, deadlines, provider backoff, awaited evidence | command, wake accepted, cache probe accepted, error, backoff sync, evidence, 5 s tick | modelled in part, proved |
| Engine bypass arbiter (`FN/security-light-engine-bypass-*`) | enabled, owned automatically, failure kept by the lighting | automatic enable/recover, manual on/off, start | modelled, proved |
| Vehicle lifecycle and arrival (`FN/vehicle-lifecycle-*`) | trip phase, dedupe marks | normalise, movement, arrival | planned |
| People location and lifecycle (`FN/people-*`) | per person phase, dedupe marks | facts, decide, recheck, finalise | planned |
| Arrival context (`FN/arrival-context-*`) | cycle, pending, emitted marks | start, promote, update, emit | planned |
| Notification hubs (`FN/notification-hub-*`, `resident-notifications-*`) | attempt counters, delivery state | validate, send, retry, ack, fail | modelled in part, proved |
| Alarm and its disarming on arrival (`FN/alarm-arrival-*`, tabs `alarme_casa` and `alarme_desarme_chegada` of `nodered/flows.json`) | last intention, retries; pending token, delivery in flight, cooldown | intend, call, retry; ask, accept, answer, expire | modelled in part, proved |
| Startup gates (`FN/startup-*`) | latest pending message and its revision | buffer, release, consume | planned |
| Native event delivery (`RS/native-events`) | subscriptions with leases, events and archive, batches and their outcomes, handover grant, clock marks | subscribe, renew, continue, hand over, cancel, poll, post, retire | modelled in part, proved |
| Component repair, repair control | jobs, phases, owner lease, admission | admit, prepare, run, reconcile | planned |
| Node-RED reader binding | single-use authority in a durable store | admit, use, revoke | planned |
| MQTT observation and maintenance | windows, receiver ledger, maintenance journal | cut, hand off, acknowledge, resume | planned late |
| IA bridge, safe updaters, host request bridges | job queue, update journal, request/result files | | planned late |
| Everything else (monitors, projections, frontends, installers, vendored integrations) | see the notes in `PROJECT.json` | | not modelled, reason given there |

How they interact. Home Assistant publishes states and takes service calls;
Node-RED flows react to both, keep their state in a context store that is
written to disk every thirty seconds, and talk to each other through context
and MQTT. Node-RED delivers messages asynchronously, node by node, so two
messages that arrive together run through a flow in lockstep. The brokers of
the control plane are separate processes; each keeps its state in SQLite or in
files, takes a lock for a call, and starts short-lived children for I/O. The
Codex daemon, the car's provider and the notification services are other
people's software: their replies may be lost, late or wrong.

What is hard, and where it shows (the full list, with lines, is `hazards` in
`PROJECT.json`):

* an effect outside the process between two local commits: crash, lost reply,
  timeout with late delivery;
* two adapters with separate databases that have to act as one;
* a decision made on something read before a hop, a callback or an unlock;
* a flow whose record is held by several messages at once;
* evidence that ages: a bounded list, a recorded absence, a lease;
* a retry that may repeat what was done, or revert what was wanted since.

## 2. Task control: what is modelled

`task_control.py` takes `coordinator.lock` without waiting, opens `task_store.py`'s
database and serves one tool call; the older `codex_control.py` does the same
with its own database under the same lock. A call that dispatches

1. reads the gates (own registry, the other adapter's registry, live status of
   the fixed threads, policy and revocation) and runs a preflight,
2. commits an intent row,
3. checks policy and revocation again (`rpc()`, dynamic adapter only) and starts
   a child (`task_rpc.cjs`), which connects, checks the daemon and then sends one
   request to it,
4. commits a receipt made from the reply, from a failed verification of it, or
   from no reply at all.

`TaskStore.tla` has one action for each stretch in which nobody else can
interfere: 1 and 2 are `CreateIntent`, `SendIntent`, `WorkspaceIntent`,
`LegacyIntent` (or `SendRefused` when a preflight fails), 3 is `Dispatch` and,
some time later, `ChildSends`, 4 is `FinishCreate`, `FinishSend`, `FinishLegacy`.
The policy may close between `Dispatch` and `ChildSends`, and nobody looks again.
`Crash` may come between any two of them: the kernel drops the lock, the rows
stay, nothing is replayed, and the child goes on. A call that times out kills its child (`Release`), so
that what it has not sent yet is never sent. What was sent stays on `wire` until the daemon takes it (`StartThread`, `StartTurn`,
`SteerTurn`) or it is lost or refused (`Drop`), whether or not anyone is still
waiting for the answer.

| Variable | Code |
|---|---|
| `tasks`, `sends`, `creation_results` | tables of the same name in `task_store.py` |
| `jobs` | table `jobs` of `codex_control.py` |
| `broker` | the process that holds `coordinator.lock`: step, operation, reply received |
| `revoked`, `enabled` | file `revoked`; root policy and its lease |
| `wire` | operations whose child runs, or whose request is not yet taken by the daemon |
| `sent` | those of `wire` whose child has handed the request to the socket |
| `inputs` | how many times the daemon carried out an operation's request |
| `threads`, `turns` | the daemon's threads and turns |

A `turn` in a row is the operation that started it (`clientUserMessageId` is the
operation id) or a turn of another client that a message joined. Calls that only
look and record are single steps, `Observe`, `LegacyObserve`, `Reconcile`, `Revoke`, where
an answer of the daemon cannot have been overtaken when it is written down: a turn only moves
forward, and what was true of it is still allowed of an earlier look. A thread that could not be found may turn
up, so a call about one is two steps: `Probe`, and `ObserveCreation` or `ReconcileCreation` with the answer it
got. `Observed` and `Answers` say what the daemon may truthfully answer: any
present turn may also be off the page of 32 the child asks for, and a thread
without a turn may not have been written out yet.

Assumed of the daemon, which is not part of the repository: it takes a request
that reached it at most once, it numbers what it starts truthfully, it refuses a
steer whose expected turn is not active, and a thread with a turn is not lost.
Nothing is assumed of when it answers.

Left out: the budget of 48 sends a day and the spacing of a minute
(`admission()`), the caps of the tables, prompts and answer sanitising, the
binding of a task to a sealed profile, reply boundaries and acknowledgement
evidence of workspace messages, the read-only listing. None of them removes a
behaviour the properties speak of: they only make an admission or a receipt
fail, which the model allows at any time (`SendRefused`, the failing branches
of the `Finish` actions, a call not made).

### Modules

* `SerialDispatch` – the promise: an operation is opened while nothing else is
  open, takes effect at most once and only while open, and is closed for good.
* `TaskStore` – the coordinator, its properties, its inductive invariant and the
  refinement mapping to `SerialDispatch`. Definitions named `Bad...` are faulty
  variants of the one that follows; each is refuted by the run named in
  `PROJECT.json`, which shows that the property can fail.
* `MCTaskStore` – the receiver of native turns for TLC.
* `TaskStoreProofs` – type correctness and the inductive invariant.
* `TaskStoreTheorems` – the safety and action properties, and the refinement.

### Runs

| Run | Instance | Shows | Distinct states |
|---|---|---|---|
| `task_threads` | 2 tasks, 2 messages, 1 project thread, 2 foreign turns | a thread that is not yet durable: probes, write-off, a message racing both; receipts and acknowledgements of started and steered turns; uncertainty survives | 1 834 380 |
| `task_adapters` | 1 task, 2 messages, 1 older job | both adapters are one serial dispatcher, revocation and policy; the lock always comes back | 24 174 |

Bounds. Two operations of a kind are what a violation of mutual exclusion, of
at-most-once or of the single chain needs; a third could only repeat the part
of one of them, since operations of a kind are treated alike. The two adapters
meet in one job, one task and one message. Two foreign turns are needed for a
message that joins one turn, sees it end, and finds another. `EndStates` keeps two
of the three ends where the kind of end matters and one where it does not.
Nothing is capped in the actions: every operation has one row and at most one
request, so the state space is finite by itself. The theorems hold without
any of these bounds.

No run turns deadlock checking off: the policy can always change.

Fairness. Only `Finish` is weakly fair, and only in `FairSpec`. The child ends
itself after twelve seconds (`task_rpc.cjs`, `protocol_timeout`) and is killed after
fifteen (`subprocess.run(..., timeout=15)`), in both adapters, so a call that
reached `broker.step # "idle"` always gets to write its receipt, unless it
crashes, which frees the lock as well. Nothing is assumed of the daemon.

### Properties

| Property | In words |
|---|---|
| `AtMostOnce` | no operation's request is carried out twice |
| `SerialDispatching` | over both adapters one operation at a time has a request in transit or a turn running |
| `IntentFirst` | nothing reached the daemon without a row that says it may have |
| `OneChain` | all unfinished work of both registries is one task, its message, or one job |
| `ReceiptsTrue` | a receipt that names a turn is about this operation and true |
| `AcknowledgedIsOver` | what was acknowledged has ended as recorded, or was and will never be sent |
| `LostIsFinal` | a task written off as lost has no message and gets none |
| `UncertainStaysUncertain` | what is not known is never released or reclassified by another call |
| `NoRequestAfterRevocation` | no child is started after a revocation has returned |
| `LateRequestIsUncertain` | what may still reach the daemon is on record as of unknown fate |
| `ImplementsSerialDispatch` | refinement of the abstract dispatcher |
| `LockReturns` | the lock comes back |

`SerialDispatching` needs more than the lock: after a crash the lock is free while
the request is still on the wire, and it is the BUSY rows of both databases,
read under the lock by both adapters, that keep everybody else out. That an
uncertain operation blocks everything until it is resolved by hand is the price
and is intended (`UncertainStaysUncertain`).

The code does not promise more of the policy than it can: a request whose child was started a moment
before the policy closed is sent all the same, and so is one whose broker died and was revoked afterwards. That is
why no property says that nothing leaves while the policy is closed; `LateRequestIsUncertain` says
what becomes of such a request. In the same way a thread may turn up again between the probe that misses it
and the write-off; `LostIsFinal` says that its task gets no message nevertheless.

## 3. Engine bypass: what is modelled

A switch in the dashboard lets the arrival lighting do without the car's
engine state while the provider cannot be reached. The vehicle coordinator turns
it on when a call fails or the provider publishes a backoff, and asks for its
release when telemetry is new again; it owns only what it turned on itself.

`EngineBypass.tla` follows a command node by node, because Node-RED does:
`DeriveFacts` reads switch and owner, `ChooseBranch` and `CheckOwner` route on what
was read, one of five nodes writes, `Output` publishes. Each delivery is one turn
of the event loop, and all wait in the first-in first-out `queue`, so two commands
that arrive together both read before either writes. Commands come from the
MQTT `topic`, in order; the broker drops those published while Node-RED is away (`Lose`).
The output node and the two nodes behind it, which only publish and keep
the failure, are one action, since nothing else reads what they write before
the queue is empty again. The coordinator is represented by two fields of
its record, `vehicle.failed` and `vehicle.pending`, and by the four places that
change them (`CallFails`, `ProviderBackoff`, `ConfirmEvidence`, `Tick`); the races within
it are those of `VehicleRefresh` (section 4). The key of the context store in the
lighting flow, `security_light_engine_communication_failed`, is `switch.failed`. `saved`
is the disk copy of both, written every thirty seconds and before a clean stop.

| Run | Instance | Shows | Distinct states |
|---|---|---|---|
| `bypass_serial` | ON and OFF pressed twice, 2 failures, 1 loss, 1 restart | owner, switch and dashboard consistent; a manual ON survives recoveries; an automatic ON is released after one | 1 464 883 |
| `bypass_unasked` | only OFF pressed, 3 failures, 1 loss, 1 restart | every ON is automation's; lighting, dashboard and coordinator agree when nothing is under way, as long as nobody presses and nothing is lost | 3 463 516 |
| `bypass_overlap` | as above, two commands in the queue | finding: a recovery overrides a manual ON right behind it | |
| `bypass_latch` | one press, one failure | finding: the failure outlives the recovery when the switch is in manual hands | |

Bounds. Two presses give every order of ON and OFF around one episode, two
failures a repeated one and one after a recovery, one restart a disk copy that
is older than memory. `MaxQueue = 1` is an assumption and not only a bound: a command enters
when the one before has been worked off, which takes a few turns of the event
loop. It nearly always holds, and the run with `MaxQueue = 2` shows what
happens when it does not. `RecoveryReleases` is about progress: the event loop
goes on (`Node`), the broker delivers (`Receive`), the ticker repeats every five seconds
(`Tick`), each under weak fairness. It exempts what no fairness brings back: a
recovery is announced once, so that a lost OFF, or one overtaken by a crash or
restart, is never repeated. `QuietMeansAgreed` likewise speaks of behaviours in
which nobody pressed and nothing was lost (`Undisturbed`).

| Property | In words |
|---|---|
| `AutomaticIsOn` | automation owns only a switch that is on |
| `PublishedFollowsSwitch` | when the queue is empty, the dashboard shows the switch |
| `ManualOnPreserved` | a recovery turns off only what automation owns at that moment |
| `UnaskedOnIsAutomatic` | without a manual ON, every ON is automation's |
| `QuietMeansAgreed` | without anybody at the dashboard, nobody holds on to a failure that is over |
| `RecoveryReleases` | an automatic ON is released after a recovery |
| `BypassOnlyDuringFailure` | the switch has an effect only during a failure; fails, see below |

Findings.

* `bypass_overlap`: the owner is read in the first node and trusted three
  deliveries later. A manual ON that enters right behind a recovery writes after the
  read and before the recovery's write, which then says OFF.
* `bypass_latch`: any failure sets the kept failure of the lighting, but only the
  release of an automatic ON clears it. After a failure that found the switch manually
  on, or during which it was pressed, the lighting goes on treating the
  engine state as unreliable and, with the switch on, as bypassed, with the API healthy
  again. It survives restarts, and ends with the next automatic release.

With `MaxQueue = 2` four more properties fail, which no document promises. An
automatic ON decided on facts from before a manual OFF belongs to nobody
(`UnaskedOnIsAutomatic`). The startup trigger may publish a state from before the
first command (`PublishedFollowsSwitch`), and on a first start may even turn an
automatic ON off without its owner (`AutomaticIsOn`). With either, `QuietMeansAgreed` fails too. They
are listed as hazards that no property covers: the theorems say what holds of behaviours in which commands enter one by one.

## 4. Vehicle refresh: what is modelled

The provider of the car's data answers from a cache unless the car is woken, and
limits how often that may happen. One persistent record decides when: leases of the
calls under way, the deadline of the next wake, the provider's backoff, and whether
telemetry newer than the last wake (evidence) is still awaited.

`VehicleRefresh.tla` has the record as an object in `heap`, because the code treats it as
one: a command loads it (`vehicle-refresh-state-load.js`), keeps its reference over
the deliveries of its chain, and stores it again at the end (`vehicle-refresh-output.js`).
Most handlers change the stored object in place (`Write`); two put another in its
place (`Replace`: the confirmation, and the disconnected path of the error handler).
`Enter` is the first part of a chain, up to the switches whose outcome it notes;
`Suppress`, `ProbeCache` and `Wake` are its end. Calls are numbered (`calls`), and a
number is free again when Home Assistant is done with its call. `Accept`, `AcceptAsError`, `Fail`, `Disconnect` and
`FailTrip` are the answers of Home Assistant and the error handlers that classify them,
`Limit` and `Release` the provider's notices, `Observe` followed by `Confirm` or `LeavePending` an evaluation
of vehicle data, which reads the failure at its start and the record at its end.
`Announce` is the five-second ticker. `Lose` and `Restart` leave a call in Home Assistant
running whose answer nobody hears. So may `Disconnect`, an error that says the connection is gone: the call it
belongs to either never left or goes on (`cut`), and the handler cannot tell.

Instants are kept as the ticks since, deadlines as the ticks left, and both stop where
nothing tells further values apart, so there is no horizon. A chain takes no time; a
tick stands for minutes.

`FailureReports.tla` is the abstract specification of what the bypass hears: every
failure is said when it is new, every recovery once, and a failure takes back a recovery
that has not been announced. `ReportsFailures` is the refinement.

| Run | Instance | Shows | Distinct states |
|---|---|---|---|
| `refresh_serial` | 1 command at a time, 2 intervals, lease 2, either with a forced command, a failing call, a backoff and a restart, or with a forced command, a failing call, 2 events that meet a chain under way and a command while an answer is overdue | one call in flight, automatic wakes apart, failures and recoveries reported | 4 118 827 |
| `refresh_retried` | two calls (readings of the cache or wakes) that fail or are cut off, one and a lost answer, or a lost answer, a failed trip call and a backoff | awaited evidence is asked for again | 301 646 |
| `refresh_evidence` | one notice of the provider | finding: used evidence clears a later failure | |

Bounds. Two intervals, so that the policy may shorten or lengthen one that is running; a
lease as long as the longer interval, so that a call may outlive the deadline of
the next; at most two calls at once. `Budgets` names sets of faults; a behaviour picks one, so that a run
covers several combinations without their product. `overlap` counts the messages that
find a chain under way, `late` the commands that come while an answer is overdue.

`OneCallInFlight` holds until one of the last two happens or a trip call fails, and exempts a call whose connection
broke: `vehicle-primary-refresh-error.js:23` gives up its lease although Home Assistant may go on with it, so a manual
wake may follow at once. `WaitingIsRetried` is stated for finitely many failures: a reading of the cache that fails is
made again (`cache_probe_completed` stays unset, line 104), and if all of them failed no wake would follow. And `ReportsFailures`
until an event meets a chain; `WakesSpaced` holds as long as no two commands overlap, whatever else
meets a chain. Beyond these conditions
the model shows what the code does, and no document promises otherwise: two
commands that overlap both make a call, and the second counts its interval from before the first; a failing trip call clears the flag of a wake in
flight (`vehicle-primary-refresh-error.js:102`), so that a manual one may follow at
once; a failure between `Observe` and `Confirm` is cleared without an announced recovery; a
command that loaded the record before it was replaced brings the old one back; a
late confirmation moves the deadline.

Fairness (`FairSpec`). Chains end (weakly fair, they are the event loop). The rest waits
until no chain is under way, and chains come again and again, so these are strongly
fair: time, the policy's commands, the answer of a call that is not lost, the
provider lifting its limit. Node-RED queues events and loses none, which justifies that. Nothing is
assumed of telemetry.

Left out: the policy that selects the interval and quiet hours (any interval of the
set is chosen), labels and notifications, a crash that loses up to thirty seconds of the
record (a restart writes it first).

## 5. Native event delivery: what is modelled

`RS/native-events` is one single-threaded worker in front of a SQLite registry. Clients
subscribe a webhook to notifications, or to both notifications and tasks; the worker
polls its sources, and sends at most one batch each ten minutes.

`EventDelivery.tla` has one action for each stretch between two I/O operations: `Poll` (retire old
leases and events, take in new ones, choose a batch and commit it as uncertain), `Post`,
`Reply` or `Silence`; `Subscribe` (admission, the intent of a handover, the challenge to the
webhook) followed by `SubscribeFresh`, `SubscribeAfter`, `SubscribeChanged` or `ChallengeFails`; `Renew`, `Unsubscribe`. `Crash` may come
anywhere; `Arrive` is the receiver's side, and may be later than the worker waits. `SetBack` is a wall clock
that is corrected; `Now` refuses every operation whose clock is behind the persisted mark.

A subscription to notifications may be continued by one to both topics: at the same
address by itself or shortly after it was cancelled, at another address with a grant
armed by root outside the repository (`Arm`). The successor inherits the start and what was sent.

| Run | Instance | Shows | Distinct states |
|---|---|---|---|
| `event_delivery` | 3 subscriptions (one narrow, one at its address, one elsewhere), 2 notifications and 1 task, 4 or 5 instants; handover with two events, with a cancellation, asked for again with a crash; clock set back; one subscription with all events | nobody is sent anything twice, nothing pending is lost in a handover, grants are good for one challenge | 1 230 169 |

Bounds. The three subscriptions are the three ways to continue. `MaxGroups = 1` makes a batch
too small for what waits, as twenty objects do in the code. The two notifications are
alike and permuted by symmetry. The window is longer than the spacing, so that a second
batch may still send an event of the first. `Budgets` names what may happen in a behaviour and the last
instant of it (`tick`), never after `Horizon`; that is long enough for a lease, a window and a marker to run out.

No liveness is stated: a lost reply makes a batch uncertain for good, which
is intended, so "everything is sent" is not promised.

`DeliveredOnce` is about the batches the receiver hears. None has an event in common with an earlier one of the
same subscription, or of the one it continues. Nor with one of another, with two exceptions the code has: the clock was set back
in between (`stepped`), so that a subscription starts at an earlier instant than others have ended and takes their events for new; or the
later one continues a cancelled subscription whose pending events a third one has sent meanwhile, which looks at its
own predecessor only (`registry.py:823`). The run has too few subscriptions for the latter; the theorem covers it.
`NoTopicStarves` is the one property that is about the choice
of members: a topic never keeps the oldest waiting event of both out of a batch.

Left out: the caps of the tables (8, 256, 4096), beyond which a source counts as not ready,
which `Poll` allows at any time; the limit of 144 attempts a day, which the spacing implies; secrets and
their rotation; the status projections; tolerance of one second for the clock, less than a tick.
A poll takes in at most one event: more are polls that do not send. A fresh start does
not fall on the instant of an event. A message lost on its way stays on `wire`.

## 6. The alarm and its disarming on arrival: what is modelled

Tab `alarme_casa` of `nodered/flows.json` registers an intention (arm or disarm) and calls the
panel. A call that fails is sent again after the delay of the policy, if its action is still the
intended one. `AlarmHouse.tla`: `Intend`, `Send`, `Accepted` or `Rejected`, `Retry`; `Rejected` may be
an error after the panel has obeyed. Registering an intention and looking one up are equally
many deliveries away from the call, so calls leave in the order of the two (`sends`), and the panel is
assumed to take them in that order (`calls`); `waiting` has no order, since each message brought its
own delay. The intention reaches the disk every thirty seconds (`Flush`); after a restart (`Interrupted`) nobody
pursues it (`abandoned`), which docs/ALARME_CASA_NODERED.md says.

Tab `alarme_desarme_chegada` stands in front. `ArrivalDisarm.tla` EXTENDS `AlarmHouse` and reaches it only through
`Intend`. `Arrive` reads the gates (pending, in flight, cooldown) and `Build` acts on them, so several
arrivals may be past the gates (`walking`). `Build` makes a token and one call to the mobile hub per
resident (`legs`): `Push`, then `Promote` by its acceptance, or `Fail`; an error that says the service
does not exist proves that nothing was pushed and is repeated (`Again`), another is
not. `Tap` is an answer, which reads the pending token and thereby decides what it will do; `Settle`
does it. Hence two answers may both have read before one has settled.

| Run | Instance | Shows | Distinct states |
|---|---|---|---|
| `arrival_disarm` | 2 residents; two arrivals over 3 ticks, two and a restart, one with 2 errors of the hub, or one among 2 other intentions, 2 errors of the panel, a restart and a write of the store | the panel is disarmed on a choice made in time, nobody is asked twice, the last intention is pursued until it is so | 1 110 647 |
| `arrival_second_answer` | 1 arrival | finding: a token that was answered takes a second answer | |

| Property | In words |
|---|---|
| `PanelFollowsIntent` | when no call or retry is under way, the panel is as last wanted |
| `IntentReached` | a call that fails is repeated until the panel is so, another action is wanted, or nobody pursues it |
| `DisarmWasConfirmed` | arrivals disarm only on a token somebody chose to disarm on in time |
| `PromptedOnce` | no phone is asked twice by one call to the hub |
| `AcceptedWasPushed` | a token nobody was asked about is never pending and starts no cooldown |
| `SecondAnswerIgnored` | an answered token takes no further answer; fails, see below |

Bounds. Two residents give every disagreement and every order of two acceptances and an answer;
two arrivals every overlap of two tokens. `Ttl` and `Cooldown` are longer than `Window` as in the code. Two
attempts at the panel and one repetition of a push are enough for one that is
allowed and one that is not; the shipped limit is none for the former (0) and twelve for the latter, and the
theorems hold for any. Legs take as long as they like: the hub's timeout of 180 s changes nothing here but
that nobody hears the answer, which is `Fail`. Deadlock checking is off: once the budgets
are spent and everything is settled, nothing happens any more.

Fairness. `Called`, `Answered` and `Retried` are weakly fair: the event loop delivers, Home Assistant answers
or the call fails, a delay ends. Nothing is assumed of residents or of the store.

Finding `arrival_second_answer`: both residents are asked about the same token in two calls. If one answers before
the other's call is accepted, the acceptance finds nothing pending, makes the
token pending again, and the other's answer is obeyed too: one keeps the alarm armed, the other
disarms it after all. The document says a second answer is ignored.

By the same way an acceptance that comes late may make an old token pending while a newer
one waits for its own acceptance, after which the newer prompt, which replaced
the older one on the phones, is answered in vain, and a third token may be
built within the delivery window. No document speaks of that; it ends with the TTL.

Left out: the isolated test mode of both tabs, the editing of the policies, announcements and
alerts, the hub's other channels and pairs of recipients, and somebody at the panel's own keypad.

## 7. What is proved

### Task control

For any sets of operations, threads and foreign turns that satisfy
`DistinctNames` (identifiers of different kinds differ), `ReceiverAssumption`
and `EndStatesAssumption`:

* `TypeCorrect`: `Spec => []TypeOK`.
* `InvariantHolds`: `Spec => []Invariant`.
* from these two, each safety and action property of the table above, and
  `RefinementHolds`, `Spec => Dispatcher!Spec`.

None of the properties is inductive alone. `AtMostOnce`, for instance, needs to
know that a request which is about to leave has not left before; that follows
from the intent row and what the lock holder has done with it, which must
survive a crash of the holder. `Invariant` therefore says, for each row, what it
implies about the wire and the daemon (`TaskSound`, `SendSound`, `JobSound`),
that what is on the wire has had no effect (`WireSound`), what the lock
holder's step and reply imply (`BrokerSound`), and `OneChain`, which makes an
action on one operation harmless to the others. The proof is one lemma per
action, and under it one step for each conjunct the action can disturb.
`SerialDispatching` and the refinement then follow without induction: an
operation that is outstanding is open, and by `OneChain` only one is.

The refinement maps an operation to `open` while its row is in one of the BUSY
states and `effects` to `inputs`; each action is one step of `SerialDispatch` or a
stutter. `ImplementsSerialDispatch` is a safety refinement: the abstract
specification has no fairness.

### Engine bypass

`EngineBypassProofs` proves, for every set of buttons, every `MaxQueue` and every other bound, `BypassTypes`, and for
behaviours in which a command only enters an empty queue (`OneByOne`, an action property, so that the condition is on
the behaviour and not on a constant) the rest: `OwnershipNeedsOn`, `UnaskedOwned` and `ManualOnKept` from the inductive invariant `IInv`, which says that what the first node read is still true wherever it is acted
on (`Current`), that the switch and its disk copy are consistent (`Consistent`), and that every
ON of the dashboard on its way was offered by the dashboard.

* `DashboardFollows` adds `Showing`: a delivery that is not yet decided finds the state of the switch shown, unless it
  is the one that restores it after a start, and a decided one carries the state that is to be shown.
* `AgreementKept` adds `Agreeing`, for as long as nobody presses and nothing is lost: what the coordinator has said last
  (`Told`) is what the last command on its way asks for; without one, what the delivery in the chain will leave behind (`Intends`); and
  without that, what the switch owns. So the agreement is a promise that is passed on from the topic to the queue to the
  switch, and no step may drop it: a recovery that arrives while automation owns nothing is the interesting case.

The code does not enforce `OneByOne`. With two commands in the queue `Current` is the part that breaks, and with it all but the types.

### Alarm and arrivals

`AlarmHouseProofs` proves for any limit of attempts, and any number of intentions, failures and
restarts: `AlarmTypeCorrect` and `AlarmFollowsIntent`. The inductive invariant `Pursued` says that while the last
intention is pursued, either the last call on its way (in `sends`, else in `calls`, else what the
panel was told) has its action (`LastRules`), or a message with it still waits to be repeated (`SomeWaits`). That
the *last* call decides is why `StillDesired` matters and why the order of calls is an assumption.

`ArrivalDisarmProofs` proves for any residents, windows, tries and budgets:

* `ArrivalsUseAlarm`: `Spec => AlarmSpec`, so that `ArrivalsFollowIntent` needs no second induction;
* `ArrivalTypeCorrect`, `ArrivalDisarmsOnChoice`, `ArrivalPromptsOnce`, `ArrivalAcceptsPushed`, from the invariant `Sound`: what the place of a call to
  the hub says of its push (`LegsSound`), that the pending token is of this process (`PendingIsNew`), and that
  an answer on its way to disarm was chosen in time (`AnswersSound`).

Assumed: `AttemptsAssumption` and `ArrivalAssumption`, which only give the constants their types.

### Native event delivery

`EventDeliveryProofs` proves for any set of events, any finite set of subscriptions with any topics and addresses and any lengths of time, every property of the run. Along the way:

* `SendsSpaced` and `AskedOnce` are inductive with little help (an armed grant was not asked on).
* `ArchivedTruly` needs `Booked`: a batch has its row before it is on the wire, and is posted once. That two batches
  are not equal follows from their distance.
* `OneActive` needs `Asking`: while a challenge is out nothing else changes the registry, so what the admission saw
  still holds when the answer comes, but for the clock. The property has two parts. At the highest instant reached at most one is live.
  On a clock that was set back two may be, one that had lapsed when the other was accepted; that lasts only until the clock is
  again where it has been, and until then the worker sends nothing, because `registry.py:814` refuses to choose between the two.
* `DeliveredOnce` needs `Once`, the same of the rows, and `Unrelated`: what others have sent was taken in before a live
  subscription that continues none started. That is where a start never falls on the instant of an event, and where `stepped` enters.
* `HandoverKeepsPending` follows from `Asking` and `Known`: a successor has no rows of its own and no predecessor yet.
* `NeitherTopicStarves` is about one poll: the oldest of the topic of an oldest event are the oldest of all (`OldestOfTopic`), and as soon
  as both topics wait the choice of a batch is bound to those. How many objects a batch takes does not matter.

Assumed: `DeliveryAssumption`, which gives the constants their types and keeps the spacing within the window.

### Vehicle refresh

`VehicleRefreshProofs` proves, for any number of commands, calls and intervals, any lease, backoff and window, and any
budgets of faults:

* `Types`. What a handler makes of a record is one; the deadlines never pass the longest of the intervals and the
  backoff, although five handlers add to them. A command that is to replace the stored object finds a free one
  because there is one object more than commands (`FreeObject`, by the pigeonhole theorem).
* `ReportsAll`: the commands the bypass hears are those of `FailureReports`. Inductive is `Settled`: until an event meets
  a chain under way one command runs at a time and holds the stored object, no evaluation of the telemetry runs beside
  it, and what an evaluation read of the failure is still in the record. Each handler then is a step of `Fail`,
  `Confirm` or `Announce`, or says nothing (`Silent`).
* `LastWordAgrees`, which no run states: what the bypass was told last is what the record says. It follows from the
  refinement and an invariant of `FailureReports` alone (`AgreedNext`), so that no handler is looked at again.
* `WakesKeepPace`. Inductive is `Paced`: no object that a command holds, nor the stored one, believes the last wake to be longer ago
  than it is (`wakeAge`), and a command that has decided on an automatic wake has found it at least an interval ago. This is why a confirmation,
  an error or a restart may rewrite the record and yet not shorten the distance.
* `OneCall`. Inductive is `Flight`: the lease of every call that still has one is in the record, to the tick; at most one call is
  unanswered or within its lease; and a command that is to make a call has found none. A lost answer, a
  restart and a tick keep this; an overlap, a late answer and a failed trip call are where it breaks.

Each of these holds up to the faults its property names; nothing is assumed of the faults themselves, and `RefreshBounds`
only gives the constants their types and demands a longest interval, which the code has in its policy.

Two definitions had to be rewritten to be reasoned about, `Outcome` here and `BranchOf` in `EngineBypass`: they
were a `CASE` whose guards overlap, of which TLA+ may choose any, while TLC chooses the first. So does the code,
where the tests stand one behind another; they are now nested `IF`s.

### Only model-checked

`LockReturns`, `RecoveryReleases`, `WaitingIsRetried` and `IntentReached`, which are liveness under fairness and out of
the prover's reach. The properties of the findings fail, and the runs show how. Every other property of a run is a theorem.

A note for whoever edits `TaskStore`: a row is updated with nested `EXCEPT`
(`[f EXCEPT ![x] = [@ EXCEPT !.a = v, !.b = w]]`) when more than one field changes,
the form the prover handles reliably.

## 8. Plan

In this order:

1. Lemmas on `EngineBypass` with two deliveries in the queue: what still holds when commands overlap, beyond the types.
2. `VehiclePrimary`: `VehicleRefresh` composed with `EngineBypass` in place of the two fields that stand
   for the coordinator there; `FailureReports` is the interface, and
   `LastWordAgrees` and `AgreementKept` are the two halves of its correctness.
3. `StartupGate`: the keep-latest buffer in front of eight flows and its revisions, composed
   with the flow behind it.
4. `TaskAdmission`: the sliding budget and the spacing over both registries, with
   lemmas on counting.
5. `ComponentJobs` and `OwnerLease` for component repair and repair control, with the
   lease as an abstract lock.
6. `ReaderBinding`: single-use authority in a durable store, to be proved.
7. `ArrivalContext` and `PeopleLifecycle`, in front of `ArrivalDisarm`.
8. `MqttWindows` for the receiver ledger and the maintenance journal.

For each: type invariant and inductive invariant as theorems where no liveness and
no recursion is involved, TLC for the rest.

## 9. Not modelled

Most of the repository by size is of other kinds: dashboards and the JSON of flows,
scripts that install or test flows, monitors that are pure functions of one report,
stateless projections and frontends, vendored integrations. `PROJECT.json` lists each with its reason. The
models cover the code whose correctness depends on the order of steps of several actors, as far as the
plan has got.
