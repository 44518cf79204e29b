# Formal model of Open MDM

Open MDM manages fleets of Android devices: an Express API over Postgres, an
Android agent, an EMQX broker between them, and a dashboard. This directory
holds TLA+ models of the parts where several actors share state over an
unreliable medium, the TLC runs that check them on small instances, and proofs,
checked by TLAPS, that hold for every size.

Paths below are relative to the repository: `api/` is `src/apps/api/src/`,
`agent/` is `src/apps/android-agent/app/src/main/java/com/openmdm/agent/`.

## Inventory

| Part | State | Operations | What makes it hard | Correct when | Model |
|---|---|---|---|---|---|
| Remote commands, API (`api/features/command`) | `device_commands` rows, `devices.online` | create, refresh and its poll, acks, presence, redelivery, flush, expiry | every await lets requests, unawaited handlers and loops interleave; the API may die anywhere | a row only moves forward, a final one stays; an answer to a refresh is fresh and final; a command is not forgotten | `CommandService` |
| MQTT in the API (`api/lib/mqtt.ts`) | the client, its unacknowledged publishes | publishJson, connect and message handlers | a publish may time out and still be delivered | | `MqttTransport` |
| MQTT in the agent (`agent/mqtt`) | the client, the buffered commands, the connection state | connect, disconnect, receive, ack | redelivery, buffer overflow, process death mid-command | what is claimed was done; a command is given up only to a named failure | `CommandAgent` |
| Broker (`src/dependencies/emqx`) | sessions, queues, retained messages | deliver, keep, drop, Last Will | duplicates, losses, no order | | `MqttTransport` (external) |
| Enrollment, API (`api/features/device`, `enrollment`) | `enrollment_challenges`, `devices` | challenge, create, admin edit and removal | a transaction of six statements at READ COMMITTED | no androidId twice, a pinned key is never replaced, a refused call burns no challenge, a challenge works once | `Enrollment` |
| Enrollment codes (`api/features/enrollment`) | `enrollment_otps` | generateOTP, issue, verifyOTP, consume | numbers drawn again, rows recycled, two statements without a transaction | a code works once, and stays good until it is used or expires | `EnrollmentCodes` |
| Enrollment, agent (`agent/work`, `ui`, `enrollment`, `data`) | the key pair, the stored identity and flags, the unique work | worker, screen, USB intent, all through performEnrollment | several attempts at once, a lost answer, cancellation, stops, services Android refuses, kills before the disk is written | one work at a time, one key, a QR ends with an enrolled device that reports and listens | `AgentEnrollment` |
| Screen state (`agent/mqtt/ScreenStateReporter.kt`) | `lastReported`, the retained topic, `devices.is_screen_on` | report, publish, handleScreen, heartbeat | deduplication before the PUBACK, coroutines out of order, two writers of one column | the dashboard ends up right | `ScreenState` |
| Reports and administration (`api/features/device`) | `device_telemetry`, `devices.blocked_at`, `last_heartbeat_at` | heartbeat, inventory, merge patch, block, unblock, remove | read-modify-write, deletion under a report that was let in | an acknowledged group is kept, a deleted device stays deleted | `DeviceReports` |
| USB enrollment of the dashboard (`src/apps/web`) | the ADB session, the steps done, the pending calls | connect, enroll step by step, disconnect, change page | callbacks of sessions and runs that are no longer shown | one run on a session for a mounted card, no dead session, no live one lost to the drop of another | `UsbEnrollment` |
| Device authentication | none of its own | JWT check per request, MQTT webhook | a block takes effect at the next CONNECT | | the JWT check in `DeviceReports` |
| Wi-Fi networks, agent APKs, QR, storage, lists | tables, objects | CRUD | | | not modelled |
| Rest of the dashboard, ADB tools | UI state | | | | not modelled |

## Modules

| Module | Role |
|---|---|
| `CommandLifecycle` | abstract: what the status column of a command promises |
| `MqttTransport` | messages in transit, the two connections, the faults |
| `CommandService` | `CommandService` and `CommandRepository` of the API, wired as in `main.ts` |
| `CommandAgent` | `DeviceMqttGateway`, `MqttConnectionService.handleCommand`, `CommandExecutor` |
| `CommandDelivery` | the composition of the three, its properties and its inductive invariant |
| `CommandDeliveryProofs`, `CommandRefinementProofs` | theorems about `CommandDelivery` |
| `DeviceRegistry` | abstract: an enrollment as one atomic decision |
| `Enrollment` | `DeviceService.create` and its neighbours, statement by statement |
| `EnrollmentProofs` | theorems about `Enrollment` |
| `ScreenState` | the screen power state from the display to the row |
| `ScreenStateProofs` | theorems about `ScreenState` |
| `OneTimeCodes` | abstract: a number is taken once, exactly when it is that of a good code |
| `EnrollmentCodes`, `EnrollmentCodesProofs` | `generateOTP` and `verifyOTP`, and theorems |
| `AgentEnrollment`, `AgentEnrollmentProofs` | the work, the screen and the USB intent of the agent, and theorems |
| `DeviceReports`, `DeviceReportsProofs` | reports and administration of devices, statement by statement, and theorems |
| `UsbEnrollment`, `UsbEnrollmentProofs` | the dashboard's USB card and its session, and theorems |
| `MC*` | small instances for TLC |

### Command delivery

One device is enough: devices share only the loop of the flush, which treats
rows one by one. An action of the service is one step between two awaits: one
SQL statement or one publish. `request[c]` is the program counter of the
admin's request for `c` (`create` for most, `refresh` for those of
`Refreshes`), then its answer. `worker` holds the redelivery loops: one per
status handler under way and one for `flushPendingForOnlineDevices`.

- `AssertCommandable`, `InsertCommand`, `PublishCommand`, `MarkPublished` are
  the awaits of `create`; `PollRefresh` and `GiveUpRefresh` those that
  `refresh` adds (`waitForCompletion`, `expire`).
- `HandleAck` is `handleAck` (one conditional UPDATE, `applyAck`),
  `HandleStatus` writes `devices.online` and starts a redelivery on `online`:
  `SweepOverdue`, `FindRows`, then `PublishRow` and `MarkRow` for each row.
- `ConnectApi` subscribes (which brings the retained status again) and starts
  the flush; `ConnectApiOnly` is the connection whose SUBSCRIBE fails, which is
  logged and starts neither. `CrashApi` loses whatever lives in memory, and any message whose
  handler had not reached Postgres. `FailStatement` is a SQL error: a request
  answers 500, a loop ends, a message is logged and gone.
- On the device, `Deliver` is the subscription's callback with its `tryEmit`,
  `AckReceipt`, `RefuseExpired`, `StartRun`, `Run`, `ReportHeartbeat`,
  `ReportTelemetry`, `AckOutcome` are the steps of `handleCommand` and of what
  it executes. `CrashDevice` empties the buffer and drops the command being
  handled; `DisconnectDevice` makes the broker publish the Last Will.
- `ConnectDevice` publishes `online`, then subscribes. If the SUBSCRIBE fails the
  device is online and `deaf` until it reconnects: `Unheard` is a command the
  broker hands to no callback (or, where its session kept an earlier
  subscription, to `Deliver`).
- Commands in transit are a bag, acks and statuses a set: QoS 1 keeps no order
  between a redelivered message and a new one, and handlers are concurrent.

The two sides have a clock each. `overdue` is what the API sees of
`lte(expiresAt, now)`; on the device `RefuseExpired` and `StartRun` are both open
whatever the API sees, because `isAfter` there is on another clock and on another
side of the very instant. A command whose row reads expired may thus be started;
its acks then change nothing (`ImplementsLifecycle`). Whether a device is enrolled
and not blocked is left open: `AssertCommandable` and the HTTP calls may refuse.

### Enrollment

`tx[a]` is one call of `create`: its inputs, the statement it is at, and the
row it enrolls. READ COMMITTED is modelled by what its statements see
(committed rows) and wait for: an UPDATE waits for a transaction that updated
the same row, an INSERT for one that inserted the same `android_id`. The locks
follow from the positions of the transactions (`HoldsChallenge`, `HoldsRow`,
`Inserted`), so there is no lock variable. The admin's edit of `androidId` and
removal of a device are single statements next to it. `Abort` is any failure
before COMMIT; `SignToken` comes after it, and may fail with the row committed.
The bad signature and the bad challenge are the same refusal.

### Screen state

`Receive` is `onReceive` with its deduplication on `lastReported`, `Launch` the
coroutine it starts, `PublishScreen` the retained publish, `Remember` the write
of `lastReported` once the PUBACK came. That write and the read in `report` are
not synchronised; a write seen late is a `Remember` that comes late.
`DeviceMqttGateway.disconnect()` is left out: the only time `publish()` finds no
client in a state that still reads CONNECTED is inside it. It runs in
`onDestroy`, whose `stop()` discards the reporter and what it remembers, and
before the connection of another identity, which is followed by a forced report.
`ReportConnected` is the collector of `connectionState`, a StateFlow, which
misses a drop that ends before it looks. `SetScreenOn` and `RecordHeartbeat`
are the two writers of `is_screen_on`. `sent` is a history variable.

### Enrollment codes

Every action is one SQL statement, committed on its own. Consumed rows are
history, and the partial unique index leaves one unconsumed row per code, so
`pending` maps a code to the issue that wrote its row last. `Issue` is one turn
of the loop with the upsert of `OtpRepository.issue`; `Consume` the one UPDATE
of `consume`; `FailVerify` a failure before, or between, the two statements of
`verifyOTP`. Time is the set of issues that have `lapsed`.

### Enrollment on the agent

An attempt is a coroutine of `EnrollWorker` (`Workers`) or of the screen
(`Screens`) inside `performEnrollment`. There may be several workers: `REPLACE`
enqueues a new work while the one it cancelled runs on to its next suspension,
and coroutines suspend at the three HTTP calls only. `EnsureKeyPair` and
`GenerateKeyPair` are the two halves of `ensureKeyPair`. What runs between two
suspensions and touches nothing another attempt changes is one step:
`SaveEnrollment` is `saveEnrollment` and the edits after it, `ReceiveChallenge`
includes the signature, which only proves the key it was read with if that is
still the key. `store` is what the process reads, `disk` what `apply()` has
written, and `KillProcess` goes back to it; `late` holds the keys of POSTs the
server may still handle after the agent gave up. `offered` is what the screen last
saw, as `AgentViewModel` follows the store and the work with a delay.

Android may end an attempt three more ways. `StopWork` is WorkManager's
`onStopJob`: the running work is cancelled and enqueued again, while its
coroutine runs on to its next suspension. `RefuseForeground` is `setForeground`
refused, which nothing in `doWork` catches: the work ends FAILED. `Arm` schedules
the heartbeat and starts the MQTT service, or only schedules the heartbeat
because the start throws; a restarted process may go without the service too
(`KillProcess`). None of these refusals touches a Device Owner (`owner`), which
the agent is if a QR provisioned it; that it may stop being one is left out.

The server is the decision of `DeviceRegistry` for the androidId of this device
(`Pins`, `Accepts`); the removal of the device by an administrator, saved
names, serials and ids are left out.

Two outcomes of the code are named rather than excluded. `LockedOut`: two first
attempts both found no key, and the server pinned the one that was replaced.
`Forgotten`: the process died after the work ended and before `apply()` reached
the disk.

### Reports and administration

`report[r]` is one request of a device from `requireDeviceAuth` to its answer;
`removal[a]` one call of `remove`, with the ids it has left. A stored fact is
known by the request it came from, so the merge of `patchTelemetry` is what it
does to each field; a patch may also name groups with no field (`empty`). `InsertTelemetry` meets the primary key and the foreign
key, `UpdateTelemetry` writes the groups of the patch over what was read and
answers ok even if the row is gone. `DeleteRow` and `DeleteAgain` are the two
DELETEs of `delete()`. `BlockMany` and `UnblockMany` are one statement, and what
`block` and `unblock` do between two reads.

### USB enrollment of the dashboard

The session is in `AdbProvider`, what the card knows in `useUsbEnrollment`. A
change of tab unmounts the card (`LeaveCard`): what it knew is gone (`Unmount`),
the asynchronous functions it started go on, and the callbacks of its mutations
still run. Leaving the dashboard unmounts the provider too: its sessions are
`strange`, and set nothing any more. `watched` are the sessions whose
`disconnected` has a callback; `Clear` is that callback. `closing` is each call of
`closeAdbSession`: a card left and entered again does not know of a pending one
and may close the session a second time. `Forgot` is the `onSuccess` of such a
call and `Opened` that of a connection: neither looks at the session it replaces.
A state
update and the effect it triggers are one step, and so is the validation of the
form with the launch. Sessions and runs are taken in turn, which loses nothing:
they are names.

## Runs

All runs take four minutes at most with two workers.

| Run | Instance | Shows |
|---|---|---|
| `delivery_two` | 2 commands of create, one status handler beside the flush, 1 lost connection of the device, buffer of 1 | `TypeOK`, the inductive invariant, the life cycle (refinement), `OnlyErrorsForget` |
| `delivery_refresh` | 1 refresh, 2 faults of any kind | the inductive invariant, fresh answers, closed rows, the life cycle, `OnlyErrorsForget` |
| `delivery_live` | 1 command, 2 faults but no SQL error and no failed SUBSCRIBE, buffer of 1 | `CommandsAreTaken` |
| `delivery_repeat` | 1 command, 1 lost connection | **violated**: `DoneIsNotRunAgain` |
| `enroll` | 2 calls, 2 challenges, 1 androidId and NULL, 2 keys | locks, uniqueness, pinned keys, unburned challenges, the registry (refinement), a challenge is reused by a race only, every call is answered |
| `enroll_once` | 2 calls, 1 challenge | **violated**: `ChallengeIsSingleUse` |
| `screen_mends` | 2 coroutines, 2 changes, 1 fault | the inductive invariant; what is remembered was sent; the row follows the retained message but for three writers; a heartbeat, and a reconnection, mend the state |
| `screen_retained` | 2 coroutines, 2 changes, no fault | **violated**: `ScreenIsRetained` |
| `codes` | 3 issues of 2 codes, 3 verifications, 2 draws | the inductive invariant; a code works once; a good code is not drawn over; one-time codes (refinement) |
| `agent` | 2 workers, 1 screen, 3 keys, 1 USB intent, 1 fault, Device Owner or not | work is owned by one worker, the stored identity has a row (`Inv`); no key is replaced by a retry; the work ends with the device set up, short of what Android refuses; a QR enrolls |
| `reports` | 2 devices, of which 1 reports and the other never did (`MCSpec`), 2 requests, 2 groups of 2 fields, 1 removal | nothing of a deleted device comes back, acknowledged patches are kept, what a patch merges is outdated by a race only, removals are complete |
| `usb` | 2 devices, 2 sessions, 2 pending closes, 2 runs of the steps | one run on a session for a mounted card; no live session is lost to the drop of another; steps are counted in order unless a run outlives its session; dead ones go |

Why the bounds are enough. The properties of delivery speak of one command at a
time; a second one matters to the buffer of `delivery_two`, which holds one beside
the command in `handleCommand`, to the loops, which hold one row while another changes, and to
the sweep. One copy in transit beside the one on the device gives the repeated
delivery; further copies repeat it. The two faults of `delivery_refresh`, of any kind and at any
point of the run, give a crash during the recovery from a drop. A status
handler and the flush are two loops at once, and the request a third publisher.
Two calls on one androidId are the waiter and the holder, and the one that
finds what the other left; two keys and two challenges separate the right
caller from the wrong, and the theorems hold for any number of calls. Three
issues of two codes draw a number again while it is good, lapsed or used, and
two draws exhaust the loop (`MAX_OTP_ISSUE_ATTEMPTS` is ten in the code). Two
workers are the replaced one and its successor, the screen a third attempt;
one fault loses an answer, closes the screen, stops the work or kills the process
at any point, while what Android refuses is not counted; a race of
`ensureKeyPair` leaves two keys, or three with a third attempt. Two requests of
one device are two patches of a group, of two groups, or a patch and an
inventory. Two sessions are the older one whose drop or close ends late and the
one of now, two closes those of a card that was left and entered again; two runs
the one that goes on and the next. Two changes of the display are what the deduplication
gets wrong. `PASS` runs switch the deadlock check off where the system really
stops: a finite number of commands or calls is made.

Symmetry is used only by `delivery_two` (two commands of create), `codes`
(issues, verifications and codes) and `reports` (requests, groups and fields),
which are interchangeable: runs that check no liveness property.

### Fairness

Weak fairness, on what runs by itself: awaited statements and publishes of a
request or loop that was started, handlers of messages that arrived,
reconnection (`reconnectPeriod` in `lib/mqtt.ts`, `automaticReconnect` and
`START_STICKY` on the device), QoS 1 delivery over a connection that is up, the
coroutines of the agent, and the periodic heartbeat of WorkManager. Never on
faults, on requests of an admin, on the display, or on time. In `Enrollment`,
on each call's own statements: Postgres runs what waits for no lock. In
`AgentEnrollment`, on WorkManager running an enqueued work, and on each coroutine
of its: it goes on, and an HTTP call ends, with an answer, a refusal or a
failure. Not on the screen and its attempts, on intents, on the disk, or on late
requests. In
`UsbEnrollment`, on the callback of a settled promise alone: not on persons,
devices or steps.

`CommandsAreTaken` is checked without SQL errors and failed SUBSCRIBEs: the code
logs both, and nothing brings a redelivery, or the subscription, back while the
connection stays up. A burst larger than the buffer is another case (see below). `CommandsAreTaken` stops at the acknowledgement on purpose: a device that
dies after acking receipt leaves the row `acknowledged` for ever, as the
diagram in `service.ts` allows.

### Properties that name their exceptions

Where the code allows an outcome that the reader would rather exclude, a
property says what alone leads to it; a run checks the rule and the theorem
proves it for every size.

| Property | What is excluded | Unless |
|---|---|---|
| `OnlyErrorsForget` | an open, timely command that nothing will deliver or find again (`Pursued`) | in that very step a statement fails, a burst meets a full buffer, the command reaches a device whose SUBSCRIBE failed, or the API connects and its SUBSCRIBE fails (`Forgets`) |
| `OnlyRacesReuse` | a challenge used twice | two calls are both past its check and before COMMIT (`NoRace`) |
| `OnlyRacesLockOut` (theorem only) | a pinned key that the agent no longer has | two attempts both found no key (`OneGenerator`) |
| `WorkEndsArmed` | a work that ends with the agent half set up | a USB enrollment fails (a toast says so), a person turns the enrollment off, or, off a Device Owner, Android refuses `setForeground` (whatever is missing) or the MQTT service (a device that reports and does not listen) |
| `RowFollowsTopic` | a retained state that is neither in the row nor on its way (`Tracked`) | a statement fails, a handler ends out of order, a heartbeat saw another state |
| `OnlyRacesOutdate` | a patch merged into what is no longer stored | another report of its groups is written between its SELECT and UPDATE |
| `LiveSessionIsKept` | a session that is up and that the dashboard loses | its provider ends, a `Déconnecter` succeeds, be it of an earlier session, or a connection that opens later replaces it |
| `StepsResume` | a step counted twice, skipped or out of order (`InOrder`) | a run goes on after its session (`NoStrayRun`) |

`OnlyRacesReuse`, `OnlyRacesLockOut` and `StepsResume` are implications between
two "always": their hypothesis is a state predicate that most behaviours satisfy,
and their conclusion fails without it. `OnlyRacesLockOut` follows from `Inv` and
`RetriesKeepKey`, which the run checks, so it is stated with its proof. What an
exception names is not prevented: a race of `ensureKeyPair` locks the agent out,
a run may outlive its session, and after a change of tab a second run may start
on the session of the first, of which `StepsAreOneByOne` says nothing.

## What the violated runs show

- **A command may run twice.** `service.ts:29-30` relies on the agent to dedupe
  by id; `handleCommand` does not.
- **A challenge can be used twice** by two concurrent calls: the check is a
  SELECT, and `markConsumed` is unconditional.
- **A change of the display can go unreported** while the connection stays up:
  it is compared with the last confirmed report, not the last one launched.

Other places where the code and what is said of it part, which the models
contain and no run is spent on:

- an overdue command is not expired until its device comes back or the API
  reconnects: `expireOverdue` has no timer, `service.ts:33` draws one;
- an expired refresh is handed to the device by the broker's session, against
  the comment of `CommandRepository.expire`;
- a command whose row reads expired may be started: the agent's check "mirrors
  the server's own TTL" (`MqttConnectionService.kt:112`), but by another clock and
  with `isAfter` where the sweep has `lte`;
- a failed SUBSCRIBE is only logged: the device then reads online and takes no
  command (`DeviceMqttGateway.kt:244`), the API does not flush (`lib/mqtt.ts:73`);
- `setForeground` and the start of the service are not caught in `doWork`
  (`EnrollWorker.kt:56`, 61, 73), though `MdmAgentApp` and `AgentViewModel` catch
  the same start: off a Device Owner the work may end FAILED, without retry;
- a burst can lose a command: the callback ignores what `tryEmit` answers, so the
  command that finds the buffer of 16 full is dropped after its PUBACK;
- of two patches of one group the second to write keeps, for the fields it does
  not name, those it had read: `patchTelemetry` says the others are kept;
- two first enrollments of one agent may each generate a key, and lock it out;
- a step of a run whose session dropped counts as done for the next device; the
  end of an older disconnection takes the session of now away, and an older
  connection that opens late replaces it.

## Proofs

`CommandDeliveryProofs` and `CommandRefinementProofs` hold for all finite or
infinite sets of commands, any number of handlers, any bounds, under the
assumptions the modules name (`TransportAssumption`: refreshes are commands and
`NoCommand` is not one; `ServiceAssumption`: the flush is not a handler;
`AgentAssumption`: the buffer has a capacity).

- `TypeCorrect`: `Spec => []TypeOK`.
- `Invariance`: `Spec => []Inv`. None of the properties is inductive alone.
  `RowComesFirst` says that whatever exists of a command - a request, a copy, a
  buffered one, a loop's row, an ack - its row exists; it is what lets an ack or
  a mark be a step of the life cycle. `SuccessIsEarned` follows a success from
  the run to the ack to the row. `AnswerMatchesRow` ties an answer to a row
  that can no longer change. `ExpiredIsOverdue` says who expires a row of
  `create`. Each has its own lemma: one step per action that can disturb it
  (`RowComesFirstStep`, `SuccessIsEarnedStep`, `AnswerMatchesRowStep`,
  `ExpiredIsOverdueStep`), over lemmas on what the statements do to a row
  (`RowSteps`) and what the answers say (`RequestSteps`).
- `RefreshAnswersAreFresh` and `AnsweredRefreshesAreClosed` follow from the
  invariant.
- `CommandsAreNotForgotten`: `Spec => OnlyErrorsForget`. Whatever takes
  the last carrier of a command away - a copy lost, a loop ended, a connection
  back, a row marked - leaves another one in the same step (`PursuitStep`).
- `EveryCommandIsPursued`: hence, where no fault is a SQL error or a failed
  SUBSCRIBE (`NoErrors`) and nothing is delivered to a full buffer
  (`[][NoBurst]_vars`), every command is pursued at every moment. The hypotheses
  are the four losses above.
- `LifecycleImplemented`: `Spec => ImplementsLifecycle`. Every step maps to a step
  of `CommandLifecycle` or leaves its variables alone.
- `FinalStatusStays`: `Spec => FinalStays`, proved of the steps of the life cycle
  (`FinalStep`) and inherited through the refinement.

`EnrollmentProofs` holds for any number of calls, challenges, androidIds and keys
(`EnrollmentAssumption`: the markers of absence are no values).

- `Invariance`: `Spec => []Inv`, with `TypeOK`; `LocksAreExclusive`, no two
  transactions hold one challenge or one row; `AndroidsAreUnique`, over committed
  rows and the inserts on their way, which is the unique index;
  `KeysMatch`, the row a call renews has the key the call brought, however
  the row changed since it was read; `RowsAreCommitted`, a call renews rows of
  accepted calls only, so a removed row never comes back. Locks are what makes
  the others inductive: an UPDATE that waited reads a row no one else is changing.
- The proofs go through `Acts`: `Effects` reduces each statement to how it
  moves one call (`Moves`) and what it does to the rows, and the steps of
  the invariant (`LocksStep`, `RowsStep`, `UniqueStep`, `KeysStep`) use that alone.
- `ChallengesAreKept`: what is refused, or fails before COMMIT, keeps its
  challenge; the exception is the call whose device was removed under it.
- `RegistryImplemented`: `Spec => ImplementsRegistry`. COMMIT is the point where
  a call is decided (`CommitDecides`); every other statement is a stutter.
- `KeysStayPinned`: `Spec => PinnedKeysStay`, from the steps of the registry and,
  for the ids that are not given again, `RowsAreCommitted`.
- `ReuseNeedsARace`: `Spec => OnlyRacesReuse`. Under `[]NoRace`, `ChallengesInUse` is
  inductive: the challenge of a call past its check is unused, and becomes used
  with its COMMIT, so that no later check passes.

`ScreenStateProofs` holds for any number of coroutines and any bounds.

- `Invariance`: `Spec => []Inv`; `OnlyPublishedIsRemembered` needs
  `AwaitedWasSent`, since what is remembered is what a coroutine awaited. The five
  things a step may do to the coroutines (`ReportEffects`) carry both.
- `RememberedIsPublished`: `Spec => []OnlyPublishedIsRemembered`.
- `RowIsFollowed`: `Spec => RowFollowsTopic`. A message that is published or brought
  back by a subscription is on the topic (`Appended`), and one that leaves it
  is at its handler (`Delivered`); `TrackedStep` takes the actions in turn.

`EnrollmentCodesProofs` holds for any codes, issues, verifications and number of
draws.

- `Invariance`: `Spec => []Inv`. `CodeWorksOnce` needs `RowsAgree`: an
  unconsumed row is of an issue nobody has used, so the next `Consume` gives
  it to one verification. `CodeStaysGood` needs `DrawsAgree`: an issue that
  answered draws no more, so only another issue could write over its row, and
  `Recyclable` keeps it from that while it is good.
- `CodesWorkOnce` and `CodesStayGood` are its conjuncts.
- `OneTimeCodesImplemented`: `Spec => ImplementsOneTimeCodes`. The upsert of an issue
  is where its number is read out (`IssueReadsOut`), `Consume` where a typed
  number is taken or refused (`ConsumeDecides`). `DrawsAgree` and
  `VerificationsAgree` say what a call that has not got there yet shows.

`AgentEnrollmentProofs` holds for any workers, screens and bounds.

- `Invariance`: `Spec => []Inv`: `WorkIsOwned` (a replaced worker is cancelled,
  so the one WorkManager knows is the only one that can end the work) and
  `EnrolledIsRegistered` (what an attempt, the store, the disk or a late request
  holds is covered by what the server pinned or the keystore generated). The
  second is proved in the form of `GroundedForm`, one attempt at a time.
- `KeyIsKept`: `Spec => RetriesKeepKey`, from the invariant and the step (`KeyStep`).
- `LockOutNeedsARace`: `Spec => OnlyRacesLockOut`. Under `[]OneGenerator`, `OneKey` is
  inductive: an attempt about to generate is the only one, and there is no key
  yet. What the server pinned is then that one key.
- `WorkArms`: `Spec => WorkEndsArmed`, action by action from the invariant: a step
  that ends the work is one of its owner, of a refusal or of the switch.

`DeviceReportsProofs` holds for any devices, requests, groups and fields
(`DeviceReportsAssumption`).

- `Invariance` and `PatchesAreKept` come from one inductive invariant, `IInv ==
  Inv /\ PatchIsKept`: a later UPDATE of another group leaves the stored one as
  it is (`UpdateStep`), and a patch that was answered still has its row as long
  as its device exists (`RowsAreKept`), because nothing but a deletion takes it.
- `RemovalsAreComplete`: what a removal has not deleted it has left or failed.
- `LostFieldsNeedARace`: `Spec => OnlyRacesOutdate`. A patch gets to its write by its
  SELECT (`Reading`), and the row of a device that keeps one is written by
  an UPDATE or an upsert alone (`Written`), which changes only its groups.

`UsbEnrollmentProofs` holds for any devices, sessions and runs.

- `Invariance`: `Spec => []Inv`. `StepsAreOneByOne` needs `RunIsFollowed`: a run
  of a mounted card on the present session is the one the card follows, which is
  what disables its button; and a session is never opened twice.
- `LiveSessionsAreKept`: `Spec => LiveSessionIsKept`: the callback of a dropped
  session takes no other.
- `EnrollmentResumes`: `Spec => StepsResume`. Under `[]NoStrayRun`, `Resumed` is
  inductive: a run of the present session has left what the card has not counted.

Every invariant and action property of the passing runs has its theorem. Only
model-checked is all liveness, fairness and ENABLED being out of the prover's
reach: `CommandsAreTaken`, `EnrollmentsAreAnswered`, `HeartbeatMendsScreen`,
`ReconnectMendsScreen`, `QrEnrolls` and `DeadSessionsGo`.

## Not modelled

The content of commands, results and reports; what a command does to Android;
signatures and tokens beyond accepting or refusing; the broker's
authentication webhook and ACL; the life of the agent's service within one
process (a second `onStartCommand`, `onDestroy` beside a new `connect`, a new
identity while the old connection is up); Wi-Fi networks, agent APKs, QR codes,
object storage, lists and pagination (one statement per request, or pure
functions); Better Auth accounts; the pages of the dashboard that only query and
show, which are most of its lines, and the ADB command lines.

## Plan

Done, in this order, each with its proofs: command delivery, enrollment, screen
state, enrollment codes, enrollment on the agent, reports and administration,
USB enrollment. Left:

1. `AgentConnection`: the life of the agent's service and MQTT client, and the
   identity it connects with.
2. The composition of `AgentEnrollment` with `Enrollment`, to put an administrator's
   removal of the device beside the agent's retries.
3. `refreshMany` and the listings, once they do more than repeat `refresh`.
