------------------------------ MODULE AutoLock ------------------------------
(***************************************************************************)
(* How an open desktop is locked when the phone has gone: the runtime      *)
(* monitor of the desktop program (desktop/src-tauri/src/lib.rs), a thread *)
(* in the user's session that polls the service's status and calls         *)
(* LockWorkStation, the lock decision of Coordinator.Status, the session   *)
(* handlers that set and clear what it reads, and a service that may stop  *)
(* and start at any time.                                                  *)
(*                                                                         *)
(* What the evidence about the phone says (State.ShouldAutoLock, see       *)
(* Proximity) is one flag, due: it may change at any time except that it   *)
(* is exact at a start (no proof: due), a lock (not due) and an unlock     *)
(* (not due for Grace).                                                    *)
(*                                                                         *)
(* Time passes in ticks.  The monitor's thread is taken to be scheduled    *)
(* and its calls to be answered or to fail within the tick or within       *)
(* CallTime: Tick waits for it, as it waits for no other thread.           *)
(* LockWorkStation is taken to lock, which the monitor does not check.     *)
(***************************************************************************)
EXTENDS Integers, Sequences

CONSTANTS
  Poll, Delay,   \* monitor_poll_interval and fail_safe_lock_delay, by fast mode
  CallTime,      \* ticks call_control looks for a pipe that is not there
  Grace,         \* the smallest ProofTimeout or LockWindow of the instance
  PauseLife,     \* how long a pause lasts
  Requests,      \* the settings requests of the instance, see AllRequests
  MaxNotices     \* bound on notifications under way

ASSUME IntervalsAreNats ==
  /\ Poll \in [BOOLEAN -> Nat \ {0}] /\ Delay \in [BOOLEAN -> Nat]
  /\ Poll[TRUE] <= Poll[FALSE] /\ Delay[TRUE] <= Delay[FALSE]
AllRequests == {"autoLock", "fast", "pause", "resume"}

ASSUME RequestsAreKnown == Requests \subseteq AllRequests
ASSUME LimitsAreNats ==
  CallTime \in Nat /\ Grace \in Nat /\ PauseLife \in Nat \ {0} /\ MaxNotices \in Nat

VARIABLES
  winLocked,        \* Windows: the desktop is locked
  notices,          \* notifications on their way to the service's loop
  up,               \* the service runs
  sessionActive, locked, predictionGuardActive,  \* Coordinator
  proximityLocked,  \* proximity.State.locked
  due,              \* proximity.State.ShouldAutoLock, but for the lock
  grace,            \* how long due cannot become true
  mark,             \* where the service's two threads are in MarkSessionActive or MarkLocked
  autoLock, fast, pauseLeft,                     \* the configuration, kept over a restart
  pc, wait, called, \* the monitor: where it is, how long it is to sleep, and how long it has called
  lastAutoLock, lastFastMode, lastPaused,        \* what its last status said
  unavailable,      \* time since unavailable_since, Never if None
  failSafeLocked,
  \* not in the code, read by properties only:
  openFor,          \* time since the desktop was opened
  dueFor,           \* for how long a lock has been due with the desktop open
  policyFor,        \* how long auto lock is on without a pause, in the service's eyes
  pausedFor,        \* how long the service has been paused
  exposedFor,       \* how long the service is gone, auto lock on, no pause, desktop open
  tried             \* the monitor has locked since its last answer

desktop == <<winLocked, notices>>
session == <<sessionActive, locked, predictionGuardActive>>
evidence == <<proximityLocked, due, grace>>
config == <<autoLock, fast, pauseLeft>>
known == <<lastAutoLock, lastFastMode, lastPaused>>
outage == <<unavailable, failSafeLocked>>
ghosts == <<openFor, dueFor, policyFor, pausedFor, exposedFor, tried>>
monitor == <<pc, wait, called>>
vars == <<desktop, up, session, evidence, mark, config, monitor, known, outage, ghosts>>

Never == -1

(* The longest sleep of the monitor, and the longest an outage can go      *)
(* without its noticing that the delay is over: it announces the session   *)
(* in vain, sleeps and calls in vain, waits for the delay, and sleeps and  *)
(* calls once more.                                                        *)
MaxPoll == Poll[FALSE]
MaxDelay == Delay[FALSE]
MaxGone == MaxDelay + 2 * MaxPoll + 3 * CallTime

Threads == {"svc", "ctl"}

TypeOK ==
  /\ winLocked \in BOOLEAN /\ up \in BOOLEAN
  /\ notices \in Seq({"lock", "unlock"}) /\ Len(notices) <= MaxNotices
  /\ sessionActive \in BOOLEAN /\ locked \in BOOLEAN /\ predictionGuardActive \in BOOLEAN
  /\ proximityLocked \in BOOLEAN /\ due \in BOOLEAN /\ grace \in 0 .. Grace
  /\ mark \in [Threads -> {"idle", "onLock", "onUnlock"}]
  /\ autoLock \in BOOLEAN /\ fast \in BOOLEAN /\ pauseLeft \in 0 .. PauseLife
  /\ pc \in {"announce", "announcing", "sleep", "call", "lock"}
  /\ wait \in 0 .. MaxPoll /\ called \in 0 .. CallTime
  /\ lastAutoLock \in BOOLEAN /\ lastFastMode \in BOOLEAN /\ lastPaused \in BOOLEAN
  /\ unavailable \in Never .. MaxDelay /\ failSafeLocked \in BOOLEAN
  /\ openFor \in 0 .. Grace /\ dueFor \in 0 .. MaxPoll + 1
  /\ policyFor \in 0 .. MaxPoll + 1 /\ pausedFor \in 0 .. MaxPoll + 1
  /\ exposedFor \in 0 .. MaxGone + 1 /\ tried \in BOOLEAN

(* The user has just signed in and the desktop program starts; the service *)
(* runs and has not heard of the session.                                  *)
Init ==
  /\ winLocked = FALSE /\ notices = <<>> /\ up = TRUE
  /\ sessionActive = FALSE /\ locked = FALSE /\ predictionGuardActive = FALSE
  /\ proximityLocked = FALSE /\ due = TRUE /\ grace = 0
  /\ mark = [t \in Threads |-> "idle"]
  /\ autoLock \in BOOLEAN /\ fast \in BOOLEAN /\ pauseLeft \in {0, PauseLife}
  /\ pc = "announce" /\ wait = 0 /\ called = 0
  /\ lastAutoLock = autoLock /\ lastFastMode = fast /\ lastPaused = (pauseLeft > 0)
  /\ unavailable = Never /\ failSafeLocked = FALSE
  /\ openFor = 0 /\ dueFor = 0 /\ policyFor = 0 /\ pausedFor = 0
  /\ exposedFor = 0 /\ tried = FALSE

-----------------------------------------------------------------------------
(* What the service answers, and what the properties record                *)

LockPolicyActive == autoLock \/ predictionGuardActive

(* A mutant of ShouldLock: the relock guard of a predicted unlock is       *)
(* forgotten when automatic locking is off.                                *)
ShouldLockOnlyAuto == autoLock /\ sessionActive /\ ~locked /\ pauseLeft = 0 /\ ~proximityLocked /\ due

ShouldLock ==
  LockPolicyActive /\ sessionActive /\ ~locked /\ pauseLeft = 0 /\ ~proximityLocked /\ due

LockIsDue ==
  /\ up /\ ~winLocked /\ sessionActive /\ ~locked /\ pauseLeft = 0
  /\ autoLock \/ predictionGuardActive
  /\ due /\ ~proximityLocked

Upto(n, limit) == IF n < limit THEN n + 1 ELSE limit
Lasting(n, holds, ticked, limit) == IF ~holds THEN 0 ELSE IF ticked THEN Upto(n, limit) ELSE n

(* What has held for more than a poll with the service up, the monitor has *)
(* been told of; a pause of a service that is gone may still run out.      *)
Seen(n, holds, ticked) ==
  IF up' THEN Lasting(n, holds, ticked, MaxPoll + 1) ELSE IF n > MaxPoll THEN n ELSE 0

Answered == up /\ pc = "call" /\ pc' # "call"
Exposed == ~up /\ ~winLocked /\ autoLock /\ pauseLeft = 0

Watch(ticked) ==
  /\ openFor' = Lasting(openFor, ~winLocked', ticked, Grace)
  /\ dueFor' = Lasting(dueFor, LockIsDue', ticked, MaxPoll + 1)
  /\ policyFor' = Seen(policyFor, autoLock' /\ pauseLeft' = 0, ticked)
  /\ pausedFor' = Seen(pausedFor, pauseLeft' > 0, ticked)
  /\ tried' = (~Answered /\ (tried \/ (pc = "lock" /\ pc' = "sleep")))
  /\ exposedFor' = Lasting(exposedFor, Exposed' /\ ~tried', ticked, MaxGone + 1)

Watched == Watch(FALSE)

-----------------------------------------------------------------------------
(* Windows and the user                                                    *)

Notify(kind) ==
  IF up THEN Len(notices) < MaxNotices /\ notices' = Append(notices, kind)
        ELSE UNCHANGED notices

UserLocks ==
  /\ ~winLocked /\ winLocked' = TRUE
  /\ Notify("lock")
  /\ UNCHANGED <<up, session, evidence, mark, config, monitor, known, outage>>
  /\ Watched

(* A PIN, or the phone; not in the very moment in which the monitor locks. *)
UserUnlocks ==
  /\ winLocked /\ pc # "lock"
  /\ winLocked' = FALSE
  /\ Notify("unlock")
  /\ UNCHANGED <<up, session, evidence, mark, config, monitor, known, outage>>
  /\ Watched

-----------------------------------------------------------------------------
(* The service                                                             *)

(* MarkSessionActive and MarkLocked under the coordinator's lock.  Whether *)
(* a session opened from the lock screen was opened by a predicted grant   *)
(* is left open (see Coordinator).                                         *)
MarkSessionActive(t) ==
  /\ sessionActive' = TRUE /\ locked' = FALSE
  /\ IF ~sessionActive \/ locked
       THEN predictionGuardActive' \in {FALSE, locked}
       ELSE UNCHANGED predictionGuardActive
  /\ mark' = [mark EXCEPT ![t] = "onUnlock"]

MarkLocked ==
  IF sessionActive
    THEN /\ locked' = TRUE /\ predictionGuardActive' = FALSE
         /\ mark' = [mark EXCEPT !["svc"] = "onLock"]
         /\ UNCHANGED sessionActive
    ELSE UNCHANGED <<session, mark>>

ServiceTakes ==
  /\ up /\ mark["svc"] = "idle" /\ notices # <<>>
  /\ IF Head(notices) = "unlock" THEN MarkSessionActive("svc") ELSE MarkLocked
  /\ notices' = Tail(notices)
  /\ UNCHANGED <<winLocked, up, evidence, config, monitor, known, outage>>
  /\ Watched

(* A mutant of OnUnlock: the time of the unlock is not noted. *)
OnUnlockNoGrace(t) ==
  /\ mark[t] = "onUnlock"
  /\ proximityLocked' = FALSE /\ UNCHANGED <<due, grace>>
  /\ mark' = [mark EXCEPT ![t] = "idle"]
  /\ UNCHANGED <<desktop, up, session, config, monitor, known, outage>>
  /\ Watched

(* State.OnUnlock and State.OnLock *)
OnUnlock(t) ==
  /\ mark[t] = "onUnlock"
  /\ proximityLocked' = FALSE /\ due' = FALSE /\ grace' = Grace
  /\ mark' = [mark EXCEPT ![t] = "idle"]
  /\ UNCHANGED <<desktop, up, session, config, monitor, known, outage>>
  /\ Watched

OnLock ==
  /\ mark["svc"] = "onLock"
  /\ proximityLocked' = TRUE /\ UNCHANGED <<due, grace>>
  /\ mark' = [mark EXCEPT !["svc"] = "idle"]
  /\ UNCHANGED <<desktop, up, session, config, monitor, known, outage>>
  /\ Watched

(* Samples, proofs and failures come and go; a proof ends the relock guard. *)
EvidenceChanges ==
  /\ up /\ due' = ~due /\ (due' => grace = 0)
  /\ predictionGuardActive' \in {predictionGuardActive, predictionGuardActive /\ due'}
  /\ UNCHANGED <<desktop, up, sessionActive, locked, proximityLocked, grace, mark, config,
                 monitor, known, outage>>
  /\ Watched

(* set_auto_lock; set_high_sensitivity and set_doppler_prediction, the      *)
(* latter of which drops the relock guard; pause for some and for zero     *)
(* seconds.                                                                *)
SetConfig ==
  /\ up
  /\ \/ /\ "autoLock" \in Requests /\ autoLock' = ~autoLock
        /\ UNCHANGED <<fast, pauseLeft, predictionGuardActive>>
     \/ /\ "fast" \in Requests /\ fast' = ~fast
        /\ predictionGuardActive' \in {predictionGuardActive, FALSE}
        /\ UNCHANGED <<autoLock, pauseLeft>>
     \/ /\ \/ "pause" \in Requests /\ pauseLeft' = PauseLife
           \/ "resume" \in Requests /\ pauseLeft' = 0
        /\ UNCHANGED <<autoLock, fast, predictionGuardActive>>
  /\ UNCHANGED <<desktop, up, sessionActive, locked, evidence, mark, monitor, known, outage>>
  /\ Watched

ServiceStops ==
  /\ up /\ up' = FALSE
  /\ notices' = <<>> /\ mark' = [t \in Threads |-> "idle"]
  /\ UNCHANGED <<winLocked, session, evidence, config, monitor, known, outage>>
  /\ Watched

(* startRuntime: a new Coordinator and a new proximity.State *)
ServiceStarts ==
  /\ ~up /\ up' = TRUE
  /\ sessionActive' = FALSE /\ locked' = FALSE /\ predictionGuardActive' = FALSE
  /\ proximityLocked' = FALSE /\ due' = TRUE /\ grace' = 0
  /\ UNCHANGED <<desktop, mark, config, monitor, known, outage>>
  /\ Watched

-----------------------------------------------------------------------------
(* The runtime monitor                                                     *)

(* call_control("session_active"): answered when MarkSessionActive returns, *)
(* or without an answer when the service stops, or is not to be found for  *)
(* CallTime.  The sleep comes after it, but for the call at the start.     *)
Announce ==
  /\ pc = "announce" /\ up
  /\ MarkSessionActive("ctl")
  /\ pc' = "announcing" /\ called' = 0
  /\ UNCHANGED <<desktop, up, evidence, config, wait, known, outage>>
  /\ Watched

Announced ==
  /\ \/ pc = "announcing" /\ mark["ctl"] = "idle"
     \/ pc = "announce" /\ ~up
  /\ pc' = "sleep" /\ called' = 0
  /\ UNCHANGED <<desktop, up, session, evidence, mark, config, wait, known, outage>>
  /\ Watched

CallStatus ==
  /\ pc = "sleep" /\ wait = 0
  /\ pc' = "call"
  /\ UNCHANGED <<desktop, up, session, evidence, mark, config, wait, called, known, outage>>
  /\ Watched

(* A mutant of StatusAnswered: the pause is not brought up to date. *)
StatusAnsweredOldPause ==
  /\ pc = "call" /\ up
  /\ lastAutoLock' = autoLock /\ lastFastMode' = fast /\ UNCHANGED lastPaused
  /\ unavailable' = Never /\ failSafeLocked' = FALSE
  /\ pc' = IF ~sessionActive THEN "announce" ELSE IF ShouldLock THEN "lock" ELSE "sleep"
  /\ wait' = Poll[fast] /\ called' = 0
  /\ UNCHANGED <<desktop, up, session, evidence, mark, config>>
  /\ Watched

StatusAnswered ==
  /\ pc = "call" /\ up
  /\ lastAutoLock' = autoLock /\ lastFastMode' = fast /\ lastPaused' = (pauseLeft > 0)
  /\ unavailable' = Never /\ failSafeLocked' = FALSE
  /\ pc' = IF ~sessionActive THEN "announce" ELSE IF ShouldLock THEN "lock" ELSE "sleep"
  /\ wait' = Poll[fast] /\ called' = 0
  /\ UNCHANGED <<desktop, up, session, evidence, mark, config>>
  /\ Watched

(* The mode whose delay counts is the one of the last status, and the      *)
(* outage is counted from the first call that failed.                      *)
FailSafeIsDue ==
  /\ ~failSafeLocked /\ lastAutoLock /\ ~lastPaused
  /\ (IF unavailable = Never THEN 0 ELSE unavailable) >= Delay[lastFastMode]

(* A mutant of StatusFailed: every failed call starts the outage anew. *)
StatusFailedAnew ==
  /\ pc = "call" /\ ~up
  /\ unavailable' = 0
  /\ pc' = IF FailSafeIsDue THEN "lock" ELSE "sleep"
  /\ failSafeLocked' = (failSafeLocked \/ FailSafeIsDue)
  /\ wait' = Poll[lastFastMode] /\ called' = 0
  /\ UNCHANGED <<desktop, up, session, evidence, mark, config, known>>
  /\ Watched

StatusFailed ==
  /\ pc = "call" /\ ~up
  /\ unavailable' = IF unavailable = Never THEN 0 ELSE unavailable
  /\ pc' = IF FailSafeIsDue THEN "lock" ELSE "sleep"
  /\ failSafeLocked' = (failSafeLocked \/ FailSafeIsDue)
  /\ wait' = Poll[lastFastMode] /\ called' = 0
  /\ UNCHANGED <<desktop, up, session, evidence, mark, config, known>>
  /\ Watched

LockWorkstation ==
  /\ pc = "lock" /\ pc' = "sleep"
  /\ winLocked' = TRUE
  /\ IF winLocked THEN UNCHANGED notices ELSE Notify("lock")
  /\ UNCHANGED <<up, session, evidence, mark, config, wait, called, known, outage>>
  /\ Watched

-----------------------------------------------------------------------------
(* Time                                                                    *)

(* A mutant of Sooner: a deadline that is over goes on.                    *)
SoonerBelow(left) == left - 1

Sooner(left) == IF left = 0 THEN 0 ELSE left - 1

Tick ==
  /\ \/ pc = "sleep" /\ wait > 0 /\ wait' = wait - 1 /\ UNCHANGED called
     \/ /\ pc \in {"announce", "call"} /\ ~up
        /\ called < CallTime /\ called' = called + 1 /\ UNCHANGED wait
  /\ unavailable' = IF unavailable = Never THEN Never ELSE Upto(unavailable, MaxDelay)
  /\ pauseLeft' = Sooner(pauseLeft) /\ grace' = Sooner(grace)
  /\ UNCHANGED <<desktop, up, session, proximityLocked, due, mark, autoLock, fast, pc,
                 known, failSafeLocked>>
  /\ Watch(TRUE)

Next ==
  \/ UserLocks \/ UserUnlocks
  \/ ServiceTakes \/ (\E t \in Threads : OnUnlock(t)) \/ OnLock
  \/ EvidenceChanges \/ SetConfig \/ ServiceStops \/ ServiceStarts
  \/ Announce \/ Announced \/ CallStatus \/ StatusAnswered \/ StatusFailed
  \/ LockWorkstation \/ Tick

Spec == Init /\ [][Next]_vars

-----------------------------------------------------------------------------
(* Properties                                                              *)

(***************************************************************************)
(* A lock that the evidence calls for, because of automatic locking or the *)
(* relock guard, is carried out within one poll of the monitor, whatever   *)
(* modes were changed and services restarted on the way (Status.ShouldLock,*)
(* start_runtime_monitor).                                                 *)
(***************************************************************************)
DueIsLocked == dueFor <= MaxPoll

(***************************************************************************)
(* When the service is gone from a desktop in use, the desktop is locked   *)
(* within the delay, two polls and three calls, provided automatic locking *)
(* was on, and no pause set, for a poll before the service went; short     *)
(* returns of the service aside (start_runtime_monitor).  The third call   *)
(* is an announcement of the session that found the service gone.          *)
(***************************************************************************)
FailSafeLocks == exposedFor > MaxGone => policyFor <= MaxPoll

(***************************************************************************)
(* A pause that has been in force for a poll keeps the monitor from        *)
(* locking, with or without the service (last_paused, Status.ShouldLock).  *)
(***************************************************************************)
PauseHolds ==
  [][pc = "lock" /\ pc' = "sleep" => pausedFor <= MaxPoll]_vars

(***************************************************************************)
(* A status never asks to lock a desktop that has just been opened: once   *)
(* the unlock has been handled, evidence from before it no longer counts   *)
(* (State.OnUnlock), also after a restart, where there is no evidence.     *)
(***************************************************************************)
FreshUnlockStays ==
  [][pc = "call" /\ pc' = "lock" /\ up
       => \/ winLocked \/ openFor = Grace
          \/ notices # <<>> \/ \E t \in Threads : mark[t] # "idle"]_vars

=============================================================================
