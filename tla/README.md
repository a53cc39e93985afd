# A verification of Proximity Unlock

TLA+ modules, TLC configurations and TLAPS proofs for the program in `src/`: a
Windows service that unlocks the desktop when a paired Android phone comes near
and proves, over Bluetooth, that it is the phone and that its owner has unlocked
it, and that locks the desktop when the phone has gone.

The reference is the code. Where a document says something else, the model
follows the code, and a run shows the difference (see *Where code and documents
differ*).

Tools: `tlc -config X.cfg M` checks the module `M` of a run, `tlapm M.tla` the
proofs of a module whose name ends in `Proofs`.


## 1. The system

### Components

| Component | Code | State | Operations |
|---|---|---|---|
| authorization manager | `internal/authorize` | the one pending grant, `disabled` | Grant, Peek, Consume, Cancel, Disable, Enable, Snapshot |
| ready event | `internal/authorize/event_windows.go` | an auto-reset Windows event | SetEvent from the service, wait in the provider |
| coordinator | `internal/coordinator` | config, active session, `locked`, prediction flags, `challengeBusy`, pairing, event log | session handlers, candidates, challenges, about thirty requests, PEEK/CONSUME/INVALID/SUCCESS |
| proximity state | `internal/proximity/state.go` | samples, absence, weak signal, proofs, failures, cooldown, manual hold | Observe, Record..., OnLock, OnUnlock, OnResume, Should... |
| prediction | `internal/proximity` (`predictionLocked`), `internal/protocol/advertisement.go` | motion samples | regression over a window |
| configuration | `internal/config` | `config.json` | load, migrate, validate, atomic save |
| secrets | `internal/secret` | LSA secrets: password, presence and pairing keys | store, load, delete |
| service host | `cmd/proximity-service` | the runtime, rebuilt on restart | control loop, session and power notifications |
| IPC | `internal/ipc` | none | one goroutine per connection of the auth and the control pipe |
| credential provider | `native/credential-provider` | what the last PEEK said, the pending autologon | PEEK for tiles, CONSUME for the password, report of the result |
| Bluetooth | `internal/ble`, `native/ble-broker` | scan loop, one exchange at a time, a bounded frame queue | advertisements up, one request/answer exchange |
| wire protocol | `internal/protocol` | replay guard | messages, signatures, fragments, pairing |
| phone | `android/app` | keys, counter, pairing, unlocked or not | GATT server, answers challenges |
| desktop monitor | `desktop/src-tauri/src/lib.rs`, `cmd/proximity-agent` | last status, fail-safe timer | polls the status, locks the workstation, announces the session |
| setup, tools | `cmd/setup`, `cmd/installer`, `cmd/proximityctl` | files, service registration, password | install, upgrade with rollback, new password, calibration |

### How they interact

```
 Windows --notifications (queue)--> service loop --Mark...-->  coordinator --OnLock/OnUnlock--> proximity state
    ^                                                          ^   |  |  ^
    | password                       agents --control pipe-----+   |  |  +-- advertisements, answers -- Bluetooth -- phone
    |                                (requests, status)            |  |
 LogonUI <--provider <--auth pipe (PEEK, CONSUME, ...)-------------+  +--Grant/Cancel--> authorization manager
    ^                                                                                        |
    +---------------------------- ready event (auto-reset) <---------------------------------+
```

A round: the phone advertises; `handleCandidate` records the sample and, when
`ShouldAttemptUnlock` (or the need of a proof on the open desktop) says so,
starts the one challenge goroutine; `authenticate` copies session and lock
state, exchanges challenge and signed answer with the phone (seconds), records
the proof, and for a locked desktop makes a grant and signals the event; the
credential provider wakes, PEEKs, CONSUMEs, gets the password and submits it to
Windows; Windows tells the service of the unlock some time later.

### What is hard

* Four kinds of goroutine and three mutexes: the coordinator's, the proximity
  state's, the manager's. A handler takes them one after the other
  (`MarkSessionActive`: coordinator, then proximity state, then manager), and
  others run in between.
* `authenticate` uses, after seconds, the session and lock state of its start.
* Windows' notifications come late, and are checked against the console session
  of the time they are handled.
* An answer may be late, a signal lost, a connection broken, a grant expire.
* The service may stop between two writes (secret, config file) and start from
  the file.
* Nobody but the phone's return retries: a slot not given back stops everything.
* The proximity state's answer depends on long sequences of calls and on times
  of half a second to minutes.

* A pairing is stored on two devices, one after the other, while goroutines
  that share its secret overtake one another.
* The phone's worker does not notice that a connection has gone, and its answer
  goes out on the next.
* `setup.exe` copies, registers and rolls back next to a service that stops in
  its own time, and may be killed at any step.

`PROJECT.json` lists under *hazards* each of these at its line, with the
property that would catch it, or the reason why none does.


## 2. The modules

| Module | Models | Size of state |
|---|---|---|
| `Authorize` | `Manager`: one operator per method, on `grant` and `disabled` | 2 variables |
| `Coordinator` | the unlocking path: coordinator, lock part of the proximity state, manager (by `INSTANCE Authorize`), with Windows, provider, phone and requests around them | 28 variables |
| `UnlockPromise` | what that path promises, with no goroutines, locks or clocks; `Coordinator` implements it | 2 variables |
| `MCCoordinator` | model values and symmetry for TLC | |
| `CoordinatorProofs` | `TypeCorrect`, `OneUseCorrect`, `InOnePlaceAlways`, `RefusedStaysBackAlways`, `GuardEndsForCauseAlways`, `ViewsAgreeAlways` | |
| `PromiseProofs` | `Implementation` (the refinement of `UnlockPromise`), `BoundToSessionAlways`, `FreshUseAlways`, `GrantDiesWithUnlockAlways` | |
| `Proximity` | `proximity.State`: one action per method, and time | 17 variables |
| `AutoLock` | locking an open desktop: the runtime monitor, the status, the session handlers, a service that stops and starts | 27 variables |
| `Config` | `config.json`: `Validate`, `Load` with its four migrations, `settingsFor`, the thresholds of `calibrate`; operators only | none |
| `Settings` | the configuration in the file, in memory and in the proximity state: requests, reload, a refused and a new password, stop and start | 13 variables |
| `Exchange` | one challenge and its answer after the other: connection, fragments, the phone's worker and counter, the replay guard | 16 variables |
| `Pairing` | QR codes, `completePairing` in goroutines, the key store, revocation, the phone's half | 14 variables |
| `Setup` | `setup.exe`: install, upgrade, repair, enable, disable, recover, uninstall, beside Windows' service control | 15 variables |
| `MCAutoLock`, `MCSettings`, `MCSetup` | intervals in ticks; changes, old files and levels; three files | |
| `MCProximity` | the settings of the modes, in ticks | |
| `ProximityProofs` | `TypeCorrect`, `ProofProtectsAlways`, `HoldNeedsAbsenceAlways`, `DueStaysDueAlways`, `CooldownIsEarnedAlways`, `RecentIsInWindow` | |
| `AutoLockProofs` | `TypeCorrect`, `DueIsLockedAlways`, `FailSafeLocksAlways`, `PauseHoldsAlways`, `FreshUnlockStaysAlways` | |
| `PairingProofs` | `PairedHasKeyAlways`, `OldCodesAreRefusedAlways`, `KeysAgreeAlways` | |
| `ExchangeProofs` | `AcceptsOnlyItsAnswerAlways`, `HonestAnswerStandsAlways`, `PhoneSeesWholeAlways` | |
| `SettingsProofs` | `StartsAgainAlways`, `HysteresisHoldsAlways`, `CalibrationIsAcceptedAlways`, `SettingsFollowAlways` | |
| `SetupProofs` | `InvAlways`, `NothingIsLostAlways`, `ServiceHasItsFileAlways`, `ProviderHasItsFileAlways`, `UpgradeIsWholeAlways`, `ServiceComesBackAlways`, `UninstallClearsAlways` | |

`Coordinator` and `Proximity` meet in the operations `OnLock`, `OnUnlock`,
`OnResume`, `ResetDeviceEvidence` and `ObserveRSSI`: `Coordinator` has of the
proximity state the two flags that other components race for (`locked` and
`manualHold`) and leaves the evidence open (a challenge *may* start when the
flags allow it, a hold *may* begin or end); `Proximity` has the evidence in
full. So everything shown about `Coordinator` holds whatever the signal does.
In the same way `Coordinator` has of an exchange that it ends, with an answer or
without, and `Exchange` has how; `Coordinator` has that a phone is paired and its
key stored, and `Pairing` how they come to be; `Coordinator` has the credential
flag of the configuration, and `Settings` the rest. `Settings` uses `Config`.

### Coordinator: state and code

| Variables | Code |
|---|---|
| `console`, `winLocked`, `notices` | Windows: the console session, its lock, notifications under way |
| `readyEvent` | the event of `NewReadyEvent` |
| `password`, `savedValid` | the LSA secret; `CredentialValid` in `config.json` |
| `activeSession`, `locked` | `Coordinator.activeSession/sessionActive`, `.locked` |
| `unlockPending`, `pendingAge`, `guardActive` | `predictionUnlockPending`, `...PendingAt`, `predictionGuardActive` |
| `paired`, `presence`, `paused`, `doppler`, `credentialValid` | the configuration in memory; the presence key in the secret store |
| `proximityLocked`, `manualHold` | `proximity.State.locked`, `.manualHold` |
| `grant`, `disabled` | `authorize.Manager` |
| `mark`, `ctl`, `att`, `cp` | program counters and frames: the Mark handlers, one control request, the challenge goroutine, the provider's call |
| `history`, `refused`, `overtaken`, `crossed` | not in the code; read by properties only: what became of each proof and of a refused password, an unlock since `authenticate` copied the lock state, two session handlers of different kinds at once |

One step is what one goroutine does under one mutex:

| Code | Steps |
|---|---|
| `serviceHandler.Execute`, `MarkSessionActive`, `MarkLocked`, `MarkLoggedOff`, `MarkResume` | `ServiceTakes`, then `OnUnlock` and `CancelGrant`, or `OnLock`, or `CancelGrant`; `MarkResume` |
| `handleCandidate` | `HandleCandidate` |
| `authenticate`, `recordAuthenticationResult` | `StartAttempt`, `PhoneAnswers` or `ExchangeFails`, `RecordProof`, `CreateGrant`, `SignalProvider`, `NotePrediction` or `ConfirmGuard`, `FinishAttempt` |
| `HandleAuth`, the provider | `LogonAsks`, `WatcherWakes`, `PeekCheck`, `PeekDrops`, `ConsumeCall`, `ConsumeCheck`, `ConsumeAnswer`, `WindowsAccepts`, `WindowsRejects`, `CallLost`, `ReportSuccess` |
| `invalidateCredential` | `InvalidateDisable`, `InvalidateConfig`, `InvalidateSecret` (which may fail), `InvalidateSave` (likewise) |
| requests | `Announce` (session_active), `SetPause`, `RevokeSecret/Cancel/Config/Forget`, `SetDoppler` and `DropPrediction`, `Reload` and `ReloadManager` |
| `updatePassword` of setup | `NewPassword`, `SavePassword` |
| `startRuntime` after a stop | `Restart` |

What is abstracted:

* Times are ages in ticks; an age stops at `AgeCap` (`TimeCap` in `Proximity`),
  beyond every limit it is compared with, so nothing that is read differs.
* `HandleCandidate` reads the configuration once and decides in the same step;
  the code takes the configuration a moment earlier. The evidence being open,
  only a pause or revocation in that moment is lost, and both are met again
  in `StartAttempt` or by the findings below.
* The provider makes one pipe call at a time. LogonUI calls it on one thread,
  and the watcher only asks LogonUI to call again.
* A proof's identity is used again once nothing refers to it; its `history`
  then starts afresh.
* `MarkResume` takes two locks in one step: what could come between is
  `OnUnlock`, which ends the hold as well.
* The agent decides to announce a session on a status it has just fetched.
* File and memory hold the same configuration except for `CredentialValid`, the
  one field whose write `Coordinator` lets fail or be repeated by setup.
* `MaxNotices` bounds the notifications that have been sent and not yet taken.

### Proximity: state and code

Each variable has the name of its field; `lastNear` and `strikes` are not in the code and only properties read them. A sample is kept as what the
thresholds make of it: `near` (`>= UnlockRSSI`), `low` (`<= LockRSSI`) or `mid`.
`medianLocked` is compared with `UnlockRSSI` only, so the median is near when
the middle of the sorted samples is (`MedianNear`). The thresholds themselves
change in `UpdateSettings`, which drops the samples, so a kept level is never
compared with another threshold than the one it was made from. A deadline is
the time left until it. `predictionLocked` is a parameter of
`ShouldAttemptUnlock`.

`RecordFailure` is taken only when `CanAuthenticate`: the coordinator starts a
challenge only then, and only one is under way. The code's loop keeps those of
the old failures that are within the window; `Recent` drops a prefix, which is
the same because failures are kept in the order they were made
(`RecentIsInWindow` is the theorem that says so).


### AutoLock: state and code

| Variables | Code |
|---|---|
| `winLocked`, `notices` | Windows |
| `up` | the service runs |
| `sessionActive`, `locked`, `predictionGuardActive` | the fields of `Coordinator` |
| `proximityLocked`, `due`, `grace` | `proximity.State`: its lock flag, the answer of `ShouldAutoLock` but for that flag, how long an unlock keeps the answer false |
| `autoLock`, `fast`, `pauseLeft` | `AutoLock`, `HighSensitivity` or `DopplerPrediction`, `PausedUntil` of the configuration |
| `pc`, `wait`, `called`, `lastAutoLock`, `lastFastMode`, `lastPaused`, `unavailable`, `failSafeLocked` | the local variables of `start_runtime_monitor`; how long `call_control` has looked for the pipe |
| `openFor`, `dueFor`, `policyFor`, `pausedFor`, `exposedFor`, `tried` | not in the code; read by properties only |

`Announce`/`Announced` is the session_active call, `CallStatus` with
`StatusAnswered` or `StatusFailed` one round of the loop, `LockWorkstation` its
outcome; `ServiceTakes`, `OnUnlock` and `OnLock` are the session handlers at the
granularity of their locks, as in `Coordinator`; `SetConfig` the requests;
`ServiceStops` and `ServiceStarts` the service's life.

The evidence is one flag that may change at any time, but for what is exact: at
a start there is no proof and the lock is due (`ShouldAutoLock` with zero
times), a lock makes it not due, an unlock for `Grace`. How the
evidence comes about is the subject of `Proximity`, whose `DueStaysDue` says
what may take a due lock back.

Time is bounded here: `Tick` waits for the monitor, whose thread is taken to be
scheduled, and whose calls are taken to be answered at once or to fail within
`CallTime` (`call_control` looks twelve times, 100 ms apart, for the pipe), the
session_active call like the status.
Nothing else is urgent: notifications, handlers and the user take any time.
`LockWorkStation` is taken to lock; the monitor ignores its result.

### Settings: state and code

| Variables | Code |
|---|---|
| `file`, `memory`, `applied`, `disabled` | `config.json`, `Coordinator.config`, `State.settings`, `Manager.disabled` |
| `up` | the runtime of the service |
| `at`, `held` | a goroutine of the control pipe: what it does next, the copy of the configuration in its frame |
| `rejecting`, `rejected` | `invalidateCredential`, and the copy it saves |
| `typing`, `typed` | `set-password` of `setup.exe` and `proximityctl`, between `config.Load` and `config.Save` |
| `alone`, `settled` | not in the code; read by `SettingsFollow` only |

`UpdateConfig` is `updateConfig` with the handler's change and validation,
`ReadBack` and `HandOver` are `settings()` and `UpdateSettings`,
`SetImmediateUnlock` the request that sets one flag. `ReloadLoad`, `ReloadTake`,
`ReloadPush`, `ReloadEnable` are the four steps of `reload`, in its order. `Start`
is `startRuntime`, which gives up on a file that does not load.

A configuration is a function on the names of its fields. The four times that
are validated, migrated and handed over alike are one field (`window`), as are
the switches the proximity state never sees (`autoLock`). `Save` writes a
temporary file and renames it, so it is one step, which may fail. What is left out: the
identifiers and keys, and the checks that the file has the same ones.

### Exchange: state and code

| Variables | Code |
|---|---|
| `cur`, `step`, `verdict` | the challenge of `authenticate`, where `Exchange` and the checks after it are, how they ended |
| `link` | the GATT connection, and whether the phone has the subscription |
| `parts`, `result` | the `Reassembler` of `Exchange` and the message its channel holds |
| `guard` | `ReplayGuard`: last counter, nonces |
| `late` | challenges whose five seconds are over |
| `phoneParts`, `queue`, `job` | `UnlockService`: the reassembler of the address, the executor's queue, what the worker does |
| `counter`, `number` | `SecureStore.nextCounter`; the number each answer was given |
| `scanned` | the phone has scanned a new code, whose pairing resets the guard |
| `calm`, `prompt` | not in the code; read by `HonestAnswerStands` and `AcceptsOnlyItsAnswer` only: an undisturbed attempt, and the challenges the phone signed in date |

A challenge is a number that stands for its nonce, and a fragment is the number
of the message it is from. A message has two: the first carries the body, the second
the end of the signature, so two that do not belong together parse and do not
verify. Writes and notifications arrive at once while the link is up; what comes
late is the worker. The clocks of the two devices agree. Nonces are dropped
from the guard after a minute in the code; none is drawn twice here, so this is
left out. The phone's `commit()` of its counter, whose result
`SecureStore.kt:114` does not look at, is taken to succeed. After a scan the phone advertises for the pairing only, and
`StartAttempt` waits for it.

### Pairing: state and code

| Variables | Code |
|---|---|
| `pending`, `overdue`, `wiped` | `Coordinator.pairing`, its expiry, the zeros over its secret |
| `call` | each goroutine in `completePairing`: where it is, its pairing, the secret its challenge was made with |
| `lock` | the exchange lock of the transport |
| `config`, `secrets` | `PresenceSecretID` and the LSA secrets under these names |
| `revoking`, `revoked` | the frame of `revoke`; the names it has deleted (a history) |
| `phone`, `inbox`, `storing` | `SecureStore`: pending pairing and presence key; what waits for the worker, what it has answered and not stored |
| `codes`, `excused` | how many codes were made; not in the code: calls disturbed after the answer |

A code is a number that stands for its secret and the keys made from it, and 0 is
the secret of zeros; a call is a number that stands for its nonce and for the name of
its key. `SecretOf` is read at each place where the code follows the pointer:
making the challenge, checking the answer, deriving the key.

### Setup: state and code

| Variables | Code |
|---|---|
| `inplace`, `backup` | the installation directory, by release; its `.ui-upgrade-backup` files |
| `system32`, `registered`, `doomed` | the provider's DLL, its registration, `MoveFileEx` at the next start |
| `service`, `marked` | Windows' service: absent, stopped, running or stopping; marked for deletion |
| `autorun`, `config`, `secrets` | the Run entry, `config.json`, what is stored of password, identity and presence keys |
| `proc` | the operation under way: step, file, release, what it remembers, how many steps have failed |
| `spoilt`, `undeleted`, `after`, `begun` | not in the code: what the properties exempt (failures in an upgrade; what a removal could not delete or unregister), how far an uninstallation has cleared up, and how many operations there were |

Each operation of `setup.exe` is a sequence of actions named after it (`Install...`,
`Upgrade...` with `Undo...`, `Repair...`, `Enable...`, `Uninstall...`); `Disable` and
`Recover` are one step. `copyFile` writes beside the target and renames, so it is
one step as well. A step may fail (`FailsTo`), setup may be killed
(`SetupIsKilled`), the machine started again (`Reboot`), and the service stops when it
gets round to it (`ServiceStops`), saves its configuration for a call it still
serves meanwhile (`SavesLate`), or ends at once when it cannot load its
configuration (`ServiceFails`).

`uninstall` and the roll-back of an installation look at no error and go on. So
there each deletion by itself may fail, any number of them in one go, and what
stays is in the state: the service that was out of reach or not deleted
(`StopAndDelete`, used by both), the provider that stays registered (`Unregister`), a
file that is neither removed nor marked for the next start (`RemoveOrSchedule`,
`UninstallEnds`), Run entry, secrets and `config.json` (`UninstallForgets`).


## 3. The runs

| Run | Instance | Checks | Shows |
|---|---|---|---|
| `core` | 1 session, 2 proofs; resume, rejected and new password, failing deletions and writes, restarts | `TypeOK`, `OneUse`, `InOnePlace`, `FreshUse`, `GrantDiesWithUnlock`, `RefusedStaysBack` | a proof releases the password at most once, in time, never across an unlock; a password Windows has refused does not go out again, although deleting it or writing the config fails |
| `announce` | 1 session, 1 proof; prediction setting, session_active at any time | `GuardEndsForCause`, `ViewsAgree` | the relock guard of a predicted unlock is not lost; the two lock flags agree but after a lock and an unlock handled at once |
| `promise` | 2 sessions, 2 proofs; revoke, pause, logoff | `BoundToSession`, `KeepsPromise` | the password is for the session that was signed; the goroutines implement `UnlockPromise` |
| `liveness` | 1 session, fairness | `PhoneOpensInTheEnd` | whatever is lost, a phone that keeps coming opens |
| `evidence` | three modes, every method but failures | `ProofProtects`, `HoldNeedsAbsence`, `DueStaysDue` | the decisions of the proximity state follow the evidence |
| `cooldown` | three failures, the cooldown on and off | `TypeOK`, `CooldownIsEarned` | a cooldown is earned |
| `monitor` | every setting, pauses, stops and starts of the service | `TypeOK`, `DueIsLocked`, `FailSafeLocks`, `PauseHolds`, `FreshUnlockStays` | a due lock is carried out within a poll, also for the relock guard with automatic locking off; a desktop whose service is gone is locked in time; a pause holds back both; an unlock is not undone |
| `settings` | two requests, rejections or tools at a time; files of versions 0 to 3 and new ones | `StartsAgain`, `HysteresisHolds`, `SettingsFollow`, `CalibrationIsAccepted` | no order of changes, failing writes and crashes leaves a file that does not load or thresholds without hysteresis; the three places agree once a change has run alone |
| `exchange` | four challenges | `HonestAnswerStands`, `PhoneSeesWhole`, `AcceptsOnlyItsAnswer` | a broken or late exchange leads neither to a wrong acceptance nor, once its remains are gone, to a false alarm |
| `pairing` | two codes, two concurrent completions | `PairedHasKey`, `KeysAgree`, `OldCodesAreRefused` | the configured key is stored and is the phone's; old codes complete nothing |
| `setup` | three files; every operation, four in a row, a failing step in each, kills, reboots | `NothingIsLost`, `UpgradeIsWhole`, `ServiceComesBack`, `ServiceHasItsFile`, `ProviderHasItsFile`, `UninstallClears` | one failing step undoes an upgrade wholly; no file is lost on the way; the service comes back; what Windows would start or load has its file; an uninstallation that could read the configuration and delete everything clears up, now and after the next start |
| `manual_lock` | one session | `ManualLockStays`, violated | where code and documents differ, see below |

### Bounds and why they are enough

* Two proofs (one in `announce`, which asks about the guard and not the proof):
  the manager has one grant, the challenge goroutine one proof and the provider
  one call; with two proofs any two of the three places differ and
  with identities used again every newer proof is met. The proofs have any number
  of sessions and proofs, and any lifetimes.
* `GrantLife` is 0: a grant can be used in the tick of its proof and is too late in
  the next. The proof's and the grant's age can differ, a goroutine may be held up for
  a tick between them, which is what `FreshUse` is about. The instance of `core` with
  `GrantLife` 1, where a grant has a last tick between fresh and too late, was checked
  once (1.6 million states). The proofs have any lifetime.
* One session in `core` and `announce`: what sessions add is in `promise`, where a challenge
  started for one can end in the other.
* `MaxNotices` 1: a notification is already
  late with one (Windows has gone on, the service has not).
* `Controls` says which rarer events an instance has; between them the passing
  runs have all.
* `Proximity`: a tick of about ten seconds, so the windows of 3, 10 and 20 s are
  0, 1 and 2 ticks; two samples are enough for a median that differs from the
  latest, and three failures are the real limit.
* `AutoLock`: polls of one and two ticks, calls of one, delays of two and three, a
  pause and a grace of two: every delay is longer than its poll, and an outage
  can outlast pause and delay. The bound of `FailSafeLocks` is the longest delay, two polls
  and three failing calls; the code's 20 s, 2 s and 1.2 s make it 27.6 s. Ages of the observers stop one above
  the limit they are compared with.
* `Settings`: `MaxBusy` 2, the least at which steps interleave; the changes are
  chosen so that one passes in one profile only, one is refused, one sets one
  flag, and the old file has a lock line (-99) from which the line of the
  high-sensitivity profile cannot be derived. The proofs have any.
* `Exchange`: four challenges: the remains of one, in the worker and in its queue,
  meet the next two, and restarts and re-pairing fall between. The proofs have any number.
* `Pairing`: two codes and two calls, where an old code meets a new one and two calls
  share one secret; three calls were checked once (6.7 million states). The proofs
  have any number.
* `Setup`: three of six files: one only in the upgrade, one only in the repair, the
  service in both. `MaxBegun` 4: install, two operations that disturb each other, and
  one that meets what they leave; a reboot, a kill, a pairing may come at any time. `MaxFaults` 1:
  a second failure in an upgrade or a repair is what `spoilt` exempts, and the other operations end at
  the first; the deletions of `uninstall` and of the roll-back of an installation are not
  bounded by it. Two faults were checked for upgrades and repairs alone (0.4 million
  states). The proofs have any lists and any number of operations and faults.

The properties exempt some cases, each by name. `SettingsFollow` speaks when
something ran alone from its first to its last step (`settled`): overlapping
requests may leave an older set in force. `HonestAnswerStands` speaks of attempts
that began with an idle worker and were not crossed by a scan, a restart of the
phone or their time-out (`calm`): a late answer to an earlier challenge does count
as a failure. `KeysAgree` exempts calls that were disturbed after the
phone's answer (`excused`). `RefusedStaysBack` exempts what `Slips` names: a
report that never arrives, a stop before the deletion, deletion and write both
failing, and a new password being set while the deletion fails. `ViewsAgree`
exempts what a lock and an unlock handled at once leave behind (`crossed`).
`FreshUnlockStays` exempts the moment in which the handler of the unlock is at work.
`Setup`'s exempt two faults in one upgrade, a kill in it, a service that refused
to start, a file Windows was told to delete before it was installed again
(`spoilt`), and a service or provider a removal could not delete or unregister, or
whose DLL had been left to Windows (`undeleted`);
`UninstallClears` speaks of an uninstallation in which every deletion worked. What
happens in these cases is in the list below.

### Fairness

Only `liveness` needs it. `ServiceRuns` is weak fairness for every step of a
goroutine that can go on: the Go scheduler, mutexes held for moments, and no
wait inside. `WorldHelps` is an assumption, not something the code gives: the
phone comes by again and again, often enough in time, LogonUI asks for the
password, Windows accepts it; each may fail any finite number of times (strong
fairness, not weak). That an exchange ends at all is in it too: the context of
an exchange is looked at only while waiting for an answer, a hanging connect is
bounded by Windows alone. Deadlock is checked in every run.

### Where code and documents differ, and what the properties exempt

Run `manual_lock`: the desktop is opened with a PIN, and before the service has taken
the notification a challenge starts, which copies the lock state of before
(`coordinator.go:817-822`). The service takes in the unlock, whose `Cancel` finds no
grant yet; Win+L follows, and the service puts that lock on hold. Then the phone
answers, and the grant of `coordinator.go:878` opens the desktop although the lock is
on hold (`README.md:26` has it stay locked).

The others have no run; each was met while modelling. Unlocking:

* Revocation cancels the grant, not the challenge under way, which grants
  afterwards.
* That a grant was predicted is noted after the provider was signalled; an unlock
  handled before the note has no relock guard.
* `session_active` on a control connection overlapping a lock: the coordinator is
  locked, the proximity state is not, or the other way round, and until the next lock or
  unlock is handled the phone opens nothing and nothing is locked automatically
  (`ViewsAgree` says that this takes such an overlap).
* A refused password stays in the store, and goes out again, when the report of the
  refusal is lost, when the service stops before it has deleted it, when the
  deletion fails and the write does too, and when the deletion fails while
  `set-password` is at work. `coordinator.go:691-692` speaks of the write alone.
* A pause leaves a pending grant and a challenge under way alone
  (`coordinator.go:577` reports no lock or unlock during the pause).
* A service restarted while the desktop is locked learns of the session by
  `session_active`, as an open one: until the next lock the phone opens nothing.

Locking and evidence:

* The monitor remembers that a pause was active when it last heard; the pause
  runs out, the service is gone, and the fail-safe lock does not come. That
  lock is made once in an outage, also when the desktop was locked
  already; opened with a PIN later, it stays open.
* The absence that ends a manual hold may have begun before the lock
  (`ObserveRSSI` compares the time since the phone was last seen or went away;
  `README.md:26-27` has it leave after the lock).
* `docs/SECURITY.md:31` asks for three fresh advertisements in a row (连续);
  `HasNearSamples` counts near samples in a window, others may lie between.
* Between `MarkSessionActive`'s lock and `State.OnUnlock` a status may still ask for
  a lock: `FreshUnlockStays` holds once the unlock has been handled.

Configuration:

* `reload` loads the file before it takes the lock: a request accepted, saved and
  answered in between is undone in memory, and a password refused in between is enabled
  again, until the next refusal.
* A tool that has loaded the file and waits for the password saves what it has
  loaded: a change made meanwhile is lost. `invalidateCredential` saves a copy
  taken before its last step, with the same effect.
* A new password that `set-password` stores just before `invalidateCredential` deletes
  the secret is lost, while the file goes on to say it is valid.
* A version 2 file with a lock line below -98 dBm gets a high-sensitivity line
  from its unlock line, and so locks sooner in that profile, where
  `config.go:196-199` says the lock line is kept.

The exchange:

* `ResetCounter` may come between the check of an answer and `Accept`; the answer of
  the pairing before then sets the counter the new pairing starts with.
* After a time-out, a late answer, or its first fragment, meets the next challenge: that
  attempt fails and counts towards the cooldown as a security failure.

Pairing:

* The secret may be overwritten between the check of the answer and
  `DerivePresenceKey`: the key is then made from zeros and saved, and the phone
  has another (`docs/SECURITY.md:47` has the secret cleared after the
  derivation).
* The phone stores its key after its answer: restarted in between it has no
  key and a used code, while the computer is paired; the store of an older code that
  comes after a new scan drops the code just scanned.
* A new pairing leaves the presence key of the one before in the store, under a
  name nothing refers to any more, and uninstalling deletes only the one the configuration
  names (`docs/BUILD.md:69-72`: uninstalling deletes the private data).

Setup:

* A second fault, in the roll-back, loses a file: it has been removed, cannot be copied
  back, and its backup is removed next. After a kill in the roll-back, running the upgrade
  again overwrites the backup.
* When the wait for the service to stop times out, the operation ends without
  starting it again. A service that is stopping when `repair-management` begins is not
  waited for.
* The roll-back of an installation does not wait for the service: its program stays,
  and the next installation refuses a directory that is not empty.
* `installService` on a service that is still stopping is told that it runs, and the
  service ends stopped.
* Uninstalling with a configuration that cannot be read leaves password, presence
  key and Run entry.
* `uninstall` and the roll-back of an installation ignore every failure. A service that
  could not be deleted stays registered, its program gone; a provider that could not be
  unregistered stays so; Run entry, password, keys and files may stay, and so may a
  file that could not be marked for the next start. The message is "软件已卸载"
  (uninstalled) in each case (`cmd/setup/main_windows.go:108`). A second uninstallation
  does not make up for it: the names of account and presence key were in the
  `config.json` the first has deleted.
* What was open at uninstalling is deleted at the next start of Windows, also
  when it has been installed again by then.
* The same goes for the provider's DLL: disabled while a process has it open, it is
  left to the next start; enabled again with success, it is deleted at that start, and the
  registration names a file that is not there (`cmd/setup/main_windows.go:525-527` registers
  the staged System32 copy because LogonUI loads from there).
* `uninstall` tells the service to stop and deletes `config.json` without waiting. A request
  or a pairing the service is still serving saves its copy afterwards (`SavesLate`), and the
  pairing record is back, with its presence key after a pairing (`docs/BUILD.md:69-72`
  has it deleted).
* The provider's DLL is removed also when unregistering it failed. A Run entry set by
  an upgrade that is rolled back stays. `repair-management` has no roll-back.


## 4. The proofs

TLC checks instances; these hold for every value of the constants that satisfies
the named assumptions (`NoneIsNothing`, `LivesAreNats`, `PendingLifeIsNat`,
`ControlsAreKnown`, ...; `ProfilesAreSettings`, `SizesAreNats`; `IntervalsAreNats`,
`LimitsAreNats`; `BoundsAreNumbers`; `AttemptsAreCounted`; `OldLinesValid`,
`LevelsAreNumbers`; `FilesAreInstalled`, `FilesAreListed`). Every invariant and
every action property a passing run checks has its theorem, and so has the
refinement. Most properties are not inductive: what follows names, for each, the
invariant it needed and why.

### Unlocking

**`TypeCorrect`: `Spec => []TypeOK`.** `TypeOK` is inductive. One step of the
proof per action, with lemmas about ages (`ZeroIsAge`, `OlderIsAge`), grants
and the bookkeeping (`GhostsTyped`), so that ages stay opaque to the provers.

**`OneUseCorrect`: `Spec => []OneUse`.** `OneUse` alone is not inductive: from
a state where a used proof is still granted it breaks. `InOnePlace` says why that
does not happen: a proof on its way to the password is in one of three places
(challenge goroutine before `Grant`, manager, provider's call before the
release), is not in two of them, and has not been used. `CreateGrant` moves it
from the first to the second, `ConsumeCall` from the second to the third, the
release ends it; cancellations only take away; `PhoneAnswers` brings a proof
that is nowhere. `TypeOK /\ OneUse /\ InOnePlace` is inductive. TLC checks
`InOnePlace` as an invariant too, and `InOnePlaceAlways` states it by itself.

**`RefusedStaysBackAlways`.** From the step that begins `invalidateCredential` on,
`ShutAway` holds of a refused password: the call that reports it is still at work (the
provider makes one at a time), or it is out of the store, or, where its deletion failed, `CredentialValid`
is false in memory and, once written, in the file, so that neither a running nor a
restarted service hands it out. `PasswordChanges` sorts the steps by what they do to the password and its
two marks. What the code does not withstand is named step by step in `Slips`
and takes a state out of the claim when it happens, not before.

**`GuardEndsForCauseAlways`.** `Guarding`: the guard is set on an open desktop with a
session only, and a goroutine about to confirm the guard was started on an open
desktop. Without the first a lock could find the guard already out of place.

**`ViewsAgreeAlways`.** For any `Controls`, session_active included. `FlagsFollow`:
unless handlers of both kinds were half-way when the last one began (`crossed`), all handlers
still to come to the proximity state are of the kind of the coordinator's flag, and with none
to come the two flags agree. A handler that begins alone re-establishes it whatever the
proximity state had before.

**`Implementation`: `Spec => KeepsPromise`.** The initial states map to initial
states of `UnlockPromise` and every step to a step of it or a stutter, also for
restarts, cancellations and failed requests. Forty actions against the promise's
few would be forty repetitions, so `StepMoves` sorts the steps once: the phone
answers, a grant is issued, taken, found to be for the locked session, its password
is handed over, time passes, and everything else, which at most takes something away
(`Fades`). What the mapping rests on is `InOnePlace`, for a proof that comes from nowhere
must not be one the promise still has, and `Placed`: which places of the code have
a proof (`Attempting`, `Calling`), and that a locked coordinator has a session
(`LockedIsActive`).

**`BoundToSessionAlways`, `FreshUseAlways`.** `Carried`: session and age of a proof
agree with its history wherever it is, in the goroutine, the manager or the
provider's call, and a proof that is nowhere has none. That the age is right is the
delicate half: the goroutine's clock starts at the answer, the manager's grant takes it
over, and an age stops counting at the call. The moves above keep it, one step
each.

**`GrantDiesWithUnlockAlways`.** `StaleCaught`: a grant made before an unlock is only
there while a handler of that unlock still has its `Cancel` to make, and a proof not
granted yet is not stale. `StepFollows` is about the handlers alone: an unlock leaves
one, and it stays until it has cancelled.

### Proximity state

**`ProofProtectsAlways`, `HoldNeedsAbsenceAlways`, `DueStaysDueAlways`.** All
three rest on one inductive invariant `Ordered` of the times: types (`TimesOK`)
and an order among ages (`InOrder`): an open failure window is no older
than the last proof, an absence and a silence no older than the last near
sample. From it each property follows for one step by arithmetic on the limits of
whatever settings are in force, so also across `UpdateSettings`.

**`CooldownIsEarnedAlways`, `RecentIsInWindow`, `TypeCorrect`.** `Cooling`: the failures kept are
in the order they were made (`Sorted`), no more than have happened since the last
success (`strikes`), none while the cooldown is off, and, while a cooldown
runs, all of them will be out of the window when it ends (`Spent`). The last is what
keeps an old cooldown's failures from counting towards the next one, and it needs
that the window is no longer than the cooldown (`SizesAreNats`, true of the code's
constants). `RecentIsInWindow` then says that the prefix dropped is what the code's
loop drops.

### Locking

**`DueIsLockedAlways`, `FailSafeLocksAlways`, `PauseHoldsAlways`.** None of the
three is inductive: a lock that has been due for a whole poll, with the monitor
just gone to sleep, breaks the first. `Bounded` relates what has gone on to what
the monitor still waits for. `Told`: something it has not been told of (a due
lock, a pause, automatic locking) has lasted for `n` ticks, and `n` with the rest
of its sleep is at most a poll (`Behind`); a tick takes from the one what it adds
to the other, an answer ends it, a change of mode shortens the next sleep only.
`ExposureBounded`: when the monitor knows that an open desktop should be locked,
the exposure is bounded by where the outage stands (`WithinOutage`): not noticed
yet, with an announcement of the session perhaps made in vain before the first failing
status, counted, or over the delay and to be noticed at the next call; and a
fail-safe lock that has been made has ended the exposure. The steps that leave
the monitor alone are one lemma (`MonitorAlone`); the six others have one each.
The intervals are any naturals with the fast mode no slower than the normal one
(`IntervalsAreNats`). What the theorems take over from the model is that calls
end and that the monitor is scheduled (`Tick`).

**`FreshUnlockStaysAlways`, `TypeCorrect`.** `Greeted`: a service that runs beside an
open desktop with a session has of the last unlock the notification (`Latest`: it
is the last in the queue), or a handler at work, or its grace, which with the time
the desktop has been open makes up the whole grace (`Handled`); and no lock is due
during a grace. So a lock that is due finds an unlock in the queue or in a
handler, or an old one.

### Pairing, exchange, settings

**`PairedHasKeyAlways`, `OldCodesAreRefusedAlways`.** The first says nothing of
the calls, and is kept because of where they are: configuration and `revoke` only name
calls that have saved (`Named`), so what a failing call deletes is not named, and a
call about to save has its key in the store (`StoredKey`). The second rests on
the secrets: of all codes only the pending one may have a secret that is not zero
(`OneLives`), and an answer verifies under a secret that is not zero only.

**`KeysAgreeAlways`.** `Agreeing` follows a call that was not disturbed: the challenge
was made with its code's secret or with zeros (`OwnSecret`), the phone has or is
about to store the key of what it answered (`AnswerKept`), the secret is still
there when the key is derived (`SecretThere`), and what is stored is that key
(`SameKey`). Each of the four hands over to the next as the call goes on.

**`AcceptsOnlyItsAnswerAlways`, `HonestAnswerStandsAlways`,
`PhoneSeesWholeAlways`.** One invariant. `Halves`: the phone holds half a message only
of the current challenge, between its two writes, so what it queues is whole.
`Answers`: what is checked is whole and stays, what is accepted has matched. `Dated`:
what the worker signs, sends or has sent is signed in date (`prompt`) or of a challenge
that was late by then, which `Matches` refuses.
`Counting`: the guard's last counter is at most what the phone has given out, unless the
phone has scanned a code the computer has not completed; and no nonce of a challenge
under way is in the guard. `Clean`: while a calm attempt is under way, whatever
is in the phone's queue, its worker, the computer's reassembler or the result is of
this challenge, and its number, once signed, is above the guard's last.

**`StartsAgainAlways`, `HysteresisHoldsAlways`, `CalibrationIsAcceptedAlways`.**
One invariant, `Copies`: every copy of the configuration that is about, in memory, in a
request's frame, in a tool or about to be written, has every field and has passed
`Validate`. It is kept whatever overlaps, because no step joins two copies but
`updateConfig`, which validates. Files of versions 0 to 3 load by the migrations
(`OldFileLoads`, for any lines that were valid), settings made of a validated copy keep
8 dB in both profiles (`KeptApart`), and the two clamps of `calibrate` stay in the ranges
(`CalibrationKept`).

**`SettingsFollowAlways`.** `Solo`: while one request, rejection or tool runs alone, nothing
else is under way, and `settled` lasts from one such to the next. `Following` says for
each of their steps which of file, memory and proximity state already has the change:
what `updateConfig` has saved is in memory, what is handed over is the memory, and the one
flag `SetImmediateUnlock` sets by itself is the only field in which the proximity state
may be behind.

### Setup

**`InvAlways` and the six properties.** One invariant, `SetupInv`, with any lists of files in
which each file is named once (`FilesAreListed`). `Upgrading` is the loop invariant: when the
upgrade is at place `i` of its list, the files before it are new and, where there were old
ones, their backups are complete; the others are as they were. With at most one failed
step the roll-back walks the same way back (`Undone`, `Kept`). `Serving` follows the
service's program from one operation to the next, `Waiting` the service while it is
stopped for one, `Clearing` what an uninstallation without a failure so far has removed,
step by step. `NothingIsLost` and
`UpgradeIsWhole` come from `Upgrading`, `ServiceHasItsFile` from it with `Serving`,
`ServiceComesBack` from `Waiting`. `UninstallClears` is part of the invariant: `ClearingStep`
gets an uninstallation to its end, and `ClearsStep` shows that what is cleared
stays so under every other operation, kill and reboot, which rests on a service that was marked
being gone once it has stopped. `ProviderHasItsFile` rests on the order of unregistering and
removing (`UnregisterKeeps`), and on the copy that is about to be registered being there
(`Provided`).

### Only model-checked

`PhoneOpensInTheEnd` is liveness under fairness, which needs `ENABLED` and is out of
the prover's reach; freedom from deadlock likewise. `ManualLockStays` is refuted by its run
and has no theorem. That the initial values of the parameters in the runs satisfy the
assumptions is checked by TLC, which evaluates every `ASSUME`.

The proofs say nothing when the model does not say what the code says. So each mutant
of `PROJECT.json`, a plausible bug in one definition, was also given to the prover in place of
that definition. For each of the 36 whose property has a theorem the
proof then fails, and among the lemmas that fail is the one about the step the bug
is in (`StepKeeps` for a manager that does not clear its grant, `UpgradingStep` for a
roll-back that copies back too late), so no theorem holds whatever the code does.


## 5. Not modelled, and the plan

Not modelled: signatures, key derivation and encryption (a proof is an identity
that only the phone makes); COM, GATT and pipe input and output; the regression over
motion samples behind a prediction, and the parsing of advertisements; the list of
recent events, which nothing reads back; what LogonUI does inside `CredentialsChanged`,
on which it depends whether `UnAdvise` can wait for the watcher for ever; the BLE broker, whose interface no code in the
repository calls; the older tray agent, kept for reference (`README.md:78`); the installer,
which unpacks and calls the programs that are modelled; user interfaces and platform
wrappers. `PROJECT.json` has the reason for each component.

Planned, the most important first:

1. `Implementation` carried on: an abstract specification of locking (an open
   desktop is locked in time, unless held back) that `AutoLock` implements, as
   `UnlockPromise` is one of unlocking.
2. A composition of `Proximity` and `Coordinator` for the flags they share, so that
   the evidence is no longer open where a challenge starts.
3. Properties for the hazards that have a note instead: the note on a predicted grant,
   a challenge that grants after a revocation.
