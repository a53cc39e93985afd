--------------------------- MODULE AutoLockProofs ---------------------------
(***************************************************************************)
(* Proofs about AutoLock, for any intervals: a due lock is carried out     *)
(* within a poll, a pause holds, the fail-safe lock comes in time, a fresh *)
(* unlock stays, and every variable keeps its type.                        *)
(*                                                                         *)
(* What the first three rest on is how the monitor's sleep bounds what it  *)
(* can have missed (Behind): anything that has held for longer than a poll *)
(* it has been told of.  A fresh unlock stays because one that the service *)
(* can act on is under way, being handled, or has set the grace (Greeted). *)
(***************************************************************************)
EXTENDS AutoLock, TLAPS

(* Something the monitor, at p with w to wait, does not know of has held    *)
(* for n ticks.                                                            *)
Behind(n, p, w) == n <= MaxPoll /\ (p # "call" => n + w <= MaxPoll)

PolicyKnown == lastAutoLock /\ ~lastPaused

(* The types the arithmetic needs. *)
TimesOK ==
  /\ wait \in Nat /\ unavailable \in Int /\ -1 <= unavailable /\ unavailable <= MaxDelay
  /\ dueFor \in Nat /\ policyFor \in Nat /\ pausedFor \in Nat /\ exposedFor \in Nat
  /\ pauseLeft \in Nat /\ fast \in BOOLEAN /\ lastFastMode \in BOOLEAN
  /\ pc \in {"announce", "announcing", "sleep", "call", "lock"}
  /\ wait <= MaxPoll /\ called \in Nat /\ called <= CallTime
  /\ pc \in {"announce", "announcing"} => unavailable = -1

Told ==
  /\ dueFor <= MaxPoll
  /\ pc # "lock" => Behind(dueFor, pc, wait)
  /\ dueFor > 0 => LockIsDue
  /\ ~lastPaused => Behind(pausedFor, pc, wait)
  /\ ~PolicyKnown => Behind(policyFor, pc, wait)
  /\ pc = "lock" => pausedFor <= MaxPoll

(* How long, n, the desktop can have been exposed, with the service gone   *)
(* for u in the monitor's eyes and its present call c ticks old.           *)
WithinOutage(n, u, p, w, c) ==
  /\ n <= MaxGone
  /\ u = -1 /\ p = "announce" => n + w <= MaxPoll + c
  /\ u = -1 /\ p \notin {"announce", "call"} => n + w <= MaxPoll + CallTime
  /\ u = -1 /\ p = "call" => n <= MaxPoll + CallTime + c
  /\ u # -1 /\ u < MaxDelay /\ p # "lock" => n <= MaxPoll + CallTime + CallTime + u
  /\ u = MaxDelay /\ p \notin {"call", "lock"} => n + w <= MaxGone - CallTime
  /\ u = MaxDelay /\ p = "call" => n <= MaxGone - CallTime + c

ExposureBounded ==
  /\ failSafeLocked => tried \/ pc = "lock"
  /\ exposedFor > 0 => Exposed /\ ~tried
  /\ PolicyKnown => WithinOutage(exposedFor, unavailable, pc, wait, called)

Bounded == TimesOK /\ Told /\ ExposureBounded

LEMMA Limits ==
  /\ MaxPoll \in Nat /\ MaxGone \in Nat /\ CallTime \in Nat /\ MaxDelay \in Nat
  /\ MaxGone = MaxDelay + MaxPoll + MaxPoll + CallTime + CallTime + CallTime
<1>1. MaxPoll \in Nat /\ CallTime \in Nat /\ MaxDelay \in Nat
  BY IntervalsAreNats, LimitsAreNats DEF MaxPoll, MaxDelay
<1>2. MaxGone = MaxDelay + 2 * MaxPoll + 3 * CallTime
  BY Zenon DEF MaxGone
<1> QED
  BY <1>1, <1>2

LEMMA ByMode ==
  ASSUME NEW mode \in BOOLEAN
  PROVE  /\ Poll[mode] \in Nat /\ Poll[mode] <= MaxPoll
         /\ Delay[mode] \in Nat /\ Delay[mode] <= MaxDelay
<1>1. MaxPoll \in Nat /\ MaxDelay \in Nat
  BY Limits
<1>2. CASE mode = TRUE
  BY <1>2, <1>1, IntervalsAreNats DEF MaxPoll, MaxDelay
<1>3. CASE mode = FALSE
  <2>1. Poll[mode] = MaxPoll /\ Delay[mode] = MaxDelay
    BY <1>3, Zenon DEF MaxPoll, MaxDelay
  <2> QED
    BY <2>1, <1>1
<1> QED
  BY <1>2, <1>3

(***************************************************************************)
(* What the observers record: off the clock nothing grows, on it nothing   *)
(* grows by more than one, and what does not hold has lasted for no time.  *)
(***************************************************************************)
LEMMA WatchedRecords ==
  ASSUME TimesOK, Watched
  PROVE  /\ dueFor' \in Nat /\ dueFor' <= dueFor /\ (dueFor' > 0 => LockIsDue')
         /\ policyFor' \in Nat /\ policyFor' <= policyFor
         /\ up' /\ ~(autoLock' /\ pauseLeft' = 0) => policyFor' = 0
         /\ pausedFor' \in Nat /\ pausedFor' <= pausedFor
         /\ up' /\ ~(pauseLeft' > 0) => pausedFor' = 0
         /\ ~up' => /\ policyFor <= MaxPoll => policyFor' = 0
                    /\ pausedFor <= MaxPoll => pausedFor' = 0
         /\ exposedFor' \in Nat /\ exposedFor' <= exposedFor
         /\ exposedFor' > 0 => Exposed' /\ ~tried'
  BY Limits DEF TimesOK, Watched, Watch, Seen, Lasting

LEMMA TickRecords ==
  ASSUME TimesOK, Watch(TRUE)
  PROVE  /\ dueFor' \in Nat /\ dueFor' <= dueFor + 1 /\ (dueFor' > 0 => LockIsDue')
         /\ policyFor' \in Nat /\ policyFor' <= policyFor + 1
         /\ pausedFor' \in Nat /\ pausedFor' <= pausedFor + 1
         /\ ~up' => /\ policyFor <= MaxPoll => policyFor' = 0
                    /\ pausedFor <= MaxPoll => pausedFor' = 0
         /\ exposedFor' \in Nat /\ exposedFor' <= exposedFor + 1
         /\ exposedFor' > 0 => Exposed' /\ ~tried'
<1>1. /\ dueFor' \in Nat /\ dueFor' <= dueFor + 1 /\ (dueFor' > 0 => LockIsDue')
  BY Limits DEF TimesOK, Watch, Lasting, Upto
<1>2. /\ policyFor' \in Nat /\ policyFor' <= policyFor + 1
      /\ ~up' /\ policyFor <= MaxPoll => policyFor' = 0
  BY Limits DEF TimesOK, Watch, Seen, Lasting, Upto
<1>3. /\ pausedFor' \in Nat /\ pausedFor' <= pausedFor + 1
      /\ ~up' /\ pausedFor <= MaxPoll => pausedFor' = 0
  BY Limits DEF TimesOK, Watch, Seen, Lasting, Upto
<1>4. /\ exposedFor' \in Nat /\ exposedFor' <= exposedFor + 1
      /\ exposedFor' > 0 => Exposed' /\ ~tried'
  BY Limits DEF TimesOK, Watch, Lasting, Upto
<1> QED
  BY <1>1, <1>2, <1>3, <1>4

LEMMA BoundedInit == Init => Bounded
  BY Limits, LimitsAreNats DEF Init, Bounded, TimesOK, Told, ExposureBounded, Behind, PolicyKnown,
                WithinOutage, Never

(* The monitor stays where it is, at p with a call c ticks old, or goes on *)
(* from announcing the session.                                            *)
SamePlace(p, c, q, d) ==
  \/ p = q /\ c = d
  \/ p \in {"announce", "announcing"} /\ q \in {"announcing", "sleep"} /\ d = 0

LEMMA BehindKept ==
  ASSUME NEW n \in Nat, NEW m \in Nat, m <= n, NEW p, NEW q, NEW w \in Nat,
         p = q \/ (p # "call" /\ q # "call"), Behind(n, p, w)
  PROVE  Behind(m, q, w)
  BY Limits DEF Behind

LEMMA NotBehind ==
  ASSUME NEW p, NEW w \in Nat, w <= MaxPoll
  PROVE  Behind(0, p, w)
  BY Limits DEF Behind

LEMMA OutageKept ==
  ASSUME NEW n \in Nat, NEW m \in Nat, m <= n, NEW u \in Int, NEW p, NEW q,
         NEW w \in Nat, NEW c \in Nat, c <= CallTime, NEW d, SamePlace(p, c, q, d),
         p \in {"announce", "announcing"} => u = -1, WithinOutage(n, u, p, w, c)
  PROVE  WithinOutage(m, u, q, w, d)
<1>1. CASE p = q /\ c = d
  BY <1>1, Limits DEF WithinOutage
<1>2. CASE p \in {"announce", "announcing"} /\ q \in {"announcing", "sleep"} /\ d = 0
  <2>1. u = -1 /\ MaxDelay # -1 /\ n + w <= MaxPoll + CallTime
    BY <1>2, Limits DEF WithinOutage
  <2> QED
    BY <1>2, <2>1, Limits DEF WithinOutage
<1> QED
  BY <1>1, <1>2 DEF SamePlace

(***************************************************************************)
(* A step that does not end a sleep, a call or a lock of the monitor, and  *)
(* takes no time, disturbs nothing but what the observers reset.           *)
(***************************************************************************)
LEMMA MonitorAlone ==
  ASSUME Bounded, Watched, UNCHANGED <<wait, known, outage>>,
         fast' \in BOOLEAN, pauseLeft' \in Nat, SamePlace(pc, called, pc', called')
  PROVE  Bounded'
<1>1. TimesOK'
  BY WatchedRecords, Limits DEF Bounded, TimesOK, known, outage, SamePlace
<1>2. /\ wait' = wait /\ wait \in Nat
      /\ unavailable' = unavailable /\ unavailable \in Int
      /\ called \in Nat /\ called <= CallTime
      /\ pc \in {"announce", "announcing"} => unavailable = -1
  BY DEF Bounded, TimesOK, outage
<1>3. lastPaused' = lastPaused /\ PolicyKnown' = PolicyKnown /\ failSafeLocked' = failSafeLocked
  BY DEF known, outage, PolicyKnown
<1>4. (pc' = "lock" <=> pc = "lock") /\ (pc' = pc \/ (pc # "call" /\ pc' # "call"))
  BY DEF SamePlace
<1>5. Told'
  <2>1. /\ dueFor' \in Nat /\ dueFor' <= dueFor /\ dueFor \in Nat
        /\ policyFor' \in Nat /\ policyFor' <= policyFor /\ policyFor \in Nat
        /\ pausedFor' \in Nat /\ pausedFor' <= pausedFor /\ pausedFor \in Nat
    BY WatchedRecords DEF Bounded, TimesOK
  <2>2. dueFor' > 0 => LockIsDue'
    BY WatchedRecords DEF Bounded
  <2>3. Behind(dueFor, pc, wait) => Behind(dueFor, pc, wait)'
    BY <1>2, <1>4, <2>1, BehindKept
  <2>4. Behind(policyFor, pc, wait) => Behind(policyFor, pc, wait)'
    BY <1>2, <1>4, <2>1, BehindKept
  <2>5. Behind(pausedFor, pc, wait) => Behind(pausedFor, pc, wait)'
    BY <1>2, <1>4, <2>1, BehindKept
  <2>6. (dueFor <= MaxPoll => dueFor' <= MaxPoll) /\ (pausedFor <= MaxPoll => pausedFor' <= MaxPoll)
    BY Limits, <2>1
  <2> QED
    BY <1>3, <1>4, <2>2, <2>3, <2>4, <2>5, <2>6, Zenon DEF Bounded, Told
<1>6. ExposureBounded'
  <2>1. exposedFor' \in Nat /\ exposedFor' <= exposedFor /\ exposedFor \in Nat
    BY WatchedRecords DEF Bounded, TimesOK
  <2>2. exposedFor' > 0 => Exposed' /\ ~tried'
    BY WatchedRecords DEF Bounded
  <2>3. tried => tried'
    BY DEF Watched, Watch, Answered, SamePlace
  <2>4. WithinOutage(exposedFor, unavailable, pc, wait, called)
          => WithinOutage(exposedFor, unavailable, pc, wait, called)'
    BY <1>2, <2>1, OutageKept
  <2> QED
    BY <1>3, <1>4, <2>2, <2>3, <2>4, Zenon DEF Bounded, ExposureBounded
<1> QED
  BY <1>1, <1>5, <1>6 DEF Bounded

LEMMA CallStatusKeeps == Bounded /\ CallStatus => Bounded'
<1> SUFFICES ASSUME Bounded, CallStatus PROVE Bounded'
  OBVIOUS
<1>1. TimesOK'
  BY WatchedRecords, Limits DEF CallStatus, config, Bounded, TimesOK, known, outage
<1>2. /\ pc = "sleep" /\ pc' = "call" /\ wait' = 0 /\ wait = 0
      /\ called' = called /\ called \in Nat
      /\ unavailable' = unavailable /\ unavailable \in Int
  BY DEF CallStatus, Bounded, TimesOK, outage
<1>3. lastPaused' = lastPaused /\ PolicyKnown' = PolicyKnown /\ failSafeLocked' = failSafeLocked
  BY DEF CallStatus, known, outage, PolicyKnown
<1>4. Told'
  <2>1. /\ dueFor' \in Nat /\ dueFor' <= dueFor /\ dueFor \in Nat
        /\ policyFor' \in Nat /\ policyFor' <= policyFor /\ policyFor \in Nat
        /\ pausedFor' \in Nat /\ pausedFor' <= pausedFor /\ pausedFor \in Nat
    BY WatchedRecords DEF CallStatus, Bounded, TimesOK
  <2>2. dueFor' > 0 => LockIsDue'
    BY WatchedRecords DEF CallStatus, Bounded
  <2>3. ASSUME NEW n \in Nat, NEW m \in Nat, m <= n, Behind(n, "sleep", 0)
        PROVE  Behind(m, "call", 0) /\ m <= MaxPoll
    BY <2>3, Limits DEF Behind
  <2> QED
    BY <1>2, <1>3, <2>1, <2>2, <2>3, Zenon DEF Bounded, Told
<1>5. ExposureBounded'
  <2>1. exposedFor' \in Nat /\ exposedFor' <= exposedFor /\ exposedFor \in Nat
    BY WatchedRecords DEF CallStatus, Bounded, TimesOK
  <2>2. exposedFor' > 0 => Exposed' /\ ~tried'
    BY WatchedRecords DEF CallStatus, Bounded
  <2>3. tried => tried'
    BY <1>2 DEF CallStatus, Watched, Watch, Answered
  <2>4. ASSUME NEW n \in Nat, NEW m \in Nat, m <= n, NEW u \in Int, NEW c \in Nat,
               WithinOutage(n, u, "sleep", 0, c)
        PROVE  WithinOutage(m, u, "call", 0, c)
    BY <2>4, Limits DEF WithinOutage
  <2> QED
    BY <1>2, <1>3, <2>1, <2>2, <2>3, <2>4, Zenon DEF Bounded, ExposureBounded
<1> QED
  BY <1>1, <1>4, <1>5 DEF Bounded

(* An answer tells the monitor all there is to know. *)
LEMMA StatusAnsweredKeeps == Bounded /\ StatusAnswered => Bounded'
<1> SUFFICES ASSUME Bounded, StatusAnswered PROVE Bounded'
  OBVIOUS
<1>1. /\ pc = "call" /\ up /\ up' = up /\ wait' = Poll[fast] /\ unavailable' = -1 /\ ~failSafeLocked'
      /\ called' = 0
      /\ pc' = IF ~sessionActive THEN "announce" ELSE IF ShouldLock THEN "lock" ELSE "sleep"
      /\ fast' = fast /\ pauseLeft' = pauseLeft /\ autoLock' = autoLock
      /\ fast \in BOOLEAN /\ pauseLeft \in Nat
  BY DEF StatusAnswered, config, Never, Bounded, TimesOK
<1>2. wait' \in Nat /\ wait' <= MaxPoll
  BY <1>1, ByMode
<1>3. /\ dueFor' \in Nat /\ dueFor' <= dueFor /\ dueFor \in Nat
      /\ policyFor' \in Nat /\ pausedFor' \in Nat /\ exposedFor' \in Nat
  BY WatchedRecords DEF StatusAnswered, Bounded, TimesOK
<1>4. TimesOK'
  BY <1>1, <1>2, <1>3, Limits DEF StatusAnswered, TimesOK
<1>5. Behind(0, pc', wait')
  BY <1>2, NotBehind
<1>6. dueFor' > 0 => LockIsDue'
  BY WatchedRecords DEF StatusAnswered, Bounded
<1>7. Told'
  <2>1. dueFor' <= MaxPoll
    BY <1>3, Limits DEF Bounded, Told
  <2>2. pc' # "lock" => dueFor' = 0
    <3>1. pc' # "lock" => ~LockIsDue'
      BY <1>1 DEF StatusAnswered, session, desktop, evidence, config, LockIsDue, ShouldLock, LockPolicyActive
    <3> QED
      BY <1>3, <1>6, <3>1
  <2>3. ~lastPaused' => pausedFor' = 0
    <3>1. ~(pauseLeft' > 0) => pausedFor' = 0
      BY <1>1, WatchedRecords DEF StatusAnswered, Bounded
    <3>2. lastPaused' <=> pauseLeft' > 0
      BY <1>1 DEF StatusAnswered
    <3> QED
      BY <3>1, <3>2
  <2>4. ~PolicyKnown' => policyFor' = 0
    <3>1. ~(autoLock' /\ pauseLeft' = 0) => policyFor' = 0
      BY <1>1, WatchedRecords DEF StatusAnswered, Bounded
    <3>2. (lastPaused' <=> pauseLeft > 0) /\ (lastAutoLock' <=> autoLock)
      BY DEF StatusAnswered
    <3>3. pauseLeft' = 0 <=> ~(pauseLeft > 0)
      BY <1>1
    <3>4. autoLock' <=> autoLock
      BY <1>1
    <3> QED
      BY <3>1, <3>2, <3>3, <3>4, Zenon DEF PolicyKnown
  <2>5. pc' = "lock" => pausedFor' <= MaxPoll
    BY <1>1, WatchedRecords, Limits DEF StatusAnswered, Bounded, ShouldLock
  <2>6. pc' # "call"
    BY <1>1
  <2> QED
    BY <1>5, <1>6, <2>1, <2>2, <2>3, <2>4, <2>5, <2>6, Zenon DEF Told
<1>8. ExposureBounded'
  <2>1. exposedFor' = 0
    BY <1>1, <1>3, WatchedRecords DEF StatusAnswered, Bounded, Exposed
  <2>2. WithinOutage(0, -1, pc', wait', called')
    BY <1>1, <1>2, Limits DEF WithinOutage
  <2>3. ~(exposedFor' > 0)
    BY <2>1
  <2> QED
    BY <1>1, <2>1, <2>2, <2>3, Zenon DEF ExposureBounded
<1> QED
  BY <1>4, <1>7, <1>8 DEF Bounded

(* A call in vain: the service is gone, so nothing is due or in force, and *)
(* the outage is counted, or over the delay and answered with a lock.      *)
LEMMA StatusFailedKeeps == Bounded /\ StatusFailed => Bounded'
<1> SUFFICES ASSUME Bounded, StatusFailed PROVE Bounded'
  OBVIOUS
<1>1. /\ pc = "call" /\ ~up /\ ~up' /\ wait' = Poll[lastFastMode]
      /\ unavailable' = (IF unavailable = -1 THEN 0 ELSE unavailable)
      /\ pc' = (IF FailSafeIsDue THEN "lock" ELSE "sleep")
      /\ fast' = fast /\ pauseLeft' = pauseLeft /\ lastFastMode' = lastFastMode
      /\ fast \in BOOLEAN /\ pauseLeft \in Nat /\ lastFastMode \in BOOLEAN
      /\ unavailable \in Int /\ -1 <= unavailable /\ unavailable <= MaxDelay
      /\ called' = 0 /\ called \in Nat /\ called <= CallTime /\ wait \in Nat
  BY DEF StatusFailed, config, known, Never, Bounded, TimesOK
<1>2. wait' \in Nat /\ wait' <= MaxPoll
  BY <1>1, ByMode
<1>3. /\ dueFor' \in Nat /\ policyFor' \in Nat /\ pausedFor' \in Nat
      /\ exposedFor' \in Nat /\ exposedFor' <= exposedFor /\ exposedFor \in Nat
  BY WatchedRecords DEF StatusFailed, Bounded, TimesOK
<1>4. TimesOK'
  BY <1>1, <1>2, <1>3, Limits DEF TimesOK
<1>5. lastPaused' = lastPaused /\ PolicyKnown' = PolicyKnown
  BY DEF StatusFailed, known, PolicyKnown
<1>6. Told'
  <2>1. dueFor' = 0
    BY <1>1, <1>3, WatchedRecords DEF StatusFailed, Bounded, LockIsDue
  <2>2. /\ policyFor <= MaxPoll => policyFor' = 0
        /\ pausedFor <= MaxPoll => pausedFor' = 0
    BY <1>1, WatchedRecords DEF StatusFailed, Bounded
  <2>3. ~lastPaused => pausedFor' = 0
    BY <2>2 DEF Bounded, Told, Behind
  <2>4. ~PolicyKnown => policyFor' = 0
    BY <2>2 DEF Bounded, Told, Behind
  <2>5. pc' = "lock" => ~lastPaused
    BY <1>1 DEF FailSafeIsDue
  <2>6. Behind(0, pc', wait') /\ 0 <= MaxPoll
    BY <1>2, NotBehind, Limits
  <2>7. ~(dueFor' > 0)
    BY <2>1
  <2> QED
    BY <1>5, <2>1, <2>3, <2>4, <2>5, <2>6, <2>7, Zenon DEF Told
<1>7. ExposureBounded'
  <2>1. exposedFor' > 0 => Exposed' /\ ~tried'
    BY WatchedRecords DEF StatusFailed, Bounded
  <2>2. tried => tried'
    BY <1>1 DEF StatusFailed, Watched, Watch, Answered
  <2>3. failSafeLocked' = (failSafeLocked \/ FailSafeIsDue) /\ (pc' = "lock" <=> FailSafeIsDue)
    BY <1>1 DEF StatusFailed
  <2>4. failSafeLocked => tried
    BY <1>1 DEF Bounded, ExposureBounded
  <2>5. failSafeLocked' => tried' \/ pc' = "lock"
    BY <2>2, <2>3, <2>4
  <2>6. ASSUME PolicyKnown
        PROVE  WithinOutage(exposedFor', unavailable', pc', wait', called')
    <3>1. WithinOutage(exposedFor, unavailable, "call", wait, called)
      BY <1>1, <2>6 DEF Bounded, ExposureBounded
    <3>2. pc' = "sleep" /\ unavailable' = MaxDelay => exposedFor' = 0
      <4>1. Delay[lastFastMode] \in Nat /\ Delay[lastFastMode] <= MaxDelay
        BY <1>1, ByMode
      <4>2. pc' = "sleep" /\ unavailable' = MaxDelay => failSafeLocked
        BY <1>1, <2>6, <4>1, Limits DEF FailSafeIsDue, PolicyKnown, Never
      <4> QED
        BY <1>3, <2>1, <2>2, <2>4, <4>2
    <3>3. ASSUME NEW n \in Nat, NEW m \in Nat, m <= n, NEW u \in Int, NEW v \in Int, -1 <= u,
                 v = (IF u = -1 THEN 0 ELSE u), 
                 WithinOutage(n, u, "call", wait, called), NEW w \in Nat, w <= MaxPoll
          PROVE  /\ WithinOutage(m, v, "lock", w, 0)
                 /\ v = MaxDelay /\ m = 0 => WithinOutage(m, v, "sleep", w, 0)
                 /\ v # MaxDelay => WithinOutage(m, v, "sleep", w, 0)
      BY <1>1, <3>3, Limits DEF WithinOutage
    <3>4. unavailable' \in Int /\ (pc' = "lock" \/ pc' = "sleep")
      BY <1>1
    <3> QED
      BY <1>1, <1>2, <1>3, <3>1, <3>2, <3>3, <3>4
  <2> QED
    BY <1>5, <2>1, <2>5, <2>6, Zenon DEF ExposureBounded
<1> QED
  BY <1>4, <1>6, <1>7 DEF Bounded

LEMMA LockWorkstationKeeps == Bounded /\ LockWorkstation => Bounded'
<1> SUFFICES ASSUME Bounded, LockWorkstation PROVE Bounded'
  OBVIOUS
<1>1. /\ pc = "lock" /\ pc' = "sleep" /\ winLocked'
      /\ wait' = wait /\ wait \in Nat /\ wait <= MaxPoll
      /\ called' = called /\ called \in Nat
      /\ unavailable' = unavailable /\ unavailable \in Int /\ -1 <= unavailable
  BY DEF LockWorkstation, outage, Bounded, TimesOK
<1>2. /\ dueFor' \in Nat /\ exposedFor' \in Nat
      /\ policyFor' \in Nat /\ policyFor' <= policyFor /\ policyFor \in Nat
      /\ pausedFor' \in Nat /\ pausedFor' <= pausedFor /\ pausedFor \in Nat
  BY WatchedRecords DEF LockWorkstation, Bounded, TimesOK
<1>3. TimesOK'
  BY <1>1, <1>2 DEF LockWorkstation, config, known, outage, Bounded, TimesOK
<1>4. lastPaused' = lastPaused /\ PolicyKnown' = PolicyKnown
  BY DEF LockWorkstation, known, PolicyKnown
<1>5. dueFor' = 0 /\ exposedFor' = 0
  <2>1. ~LockIsDue' /\ ~Exposed'
    BY <1>1 DEF LockIsDue, Exposed
  <2>2. (dueFor' > 0 => LockIsDue') /\ (exposedFor' > 0 => Exposed')
    BY WatchedRecords DEF LockWorkstation, Bounded
  <2> QED
    BY <1>2, <2>1, <2>2
<1>6. tried'
  BY <1>1 DEF LockWorkstation, Watched, Watch, Answered
<1>7. Told'
  <2>1. Behind(0, pc', wait') /\ 0 <= MaxPoll /\ ~(dueFor' > 0)
    BY <1>1, <1>5, NotBehind, Limits
  <2>2. ASSUME NEW n \in Nat, NEW m \in Nat, m <= n, Behind(n, "lock", wait)
        PROVE  Behind(m, "sleep", wait)
    BY <1>1, <2>2, Limits DEF Behind
  <2> QED
    BY <1>1, <1>2, <1>4, <1>5, <2>1, <2>2, Zenon DEF Bounded, Told
<1>8. ExposureBounded'
  <2>1. ASSUME NEW u \in Int, -1 <= u
        PROVE  WithinOutage(0, u, "sleep", wait, called)
    BY <1>1, <2>1, Limits DEF WithinOutage
  <2>2. ~(exposedFor' > 0)
    BY <1>5
  <2> QED
    BY <1>1, <1>5, <1>6, <2>1, <2>2, Zenon DEF ExposureBounded
<1> QED
  BY <1>3, <1>7, <1>8 DEF Bounded

(***************************************************************************)
(* Time costs the monitor some of its sleep or of its call, by as much as  *)
(* it adds to what the monitor has missed.                                 *)
(***************************************************************************)
LEMMA OutageTicks ==
  ASSUME NEW n \in Nat, NEW m \in Nat, m <= n + 1,
         NEW u \in Int, -1 <= u, u <= MaxDelay,
         NEW v \in Int, v = (IF u = -1 THEN -1 ELSE Upto(u, MaxDelay)),
         NEW w \in Nat, w <= MaxPoll,
         NEW c \in Nat, NEW d \in Nat, d <= CallTime
  PROVE  /\ WithinOutage(n, u, "sleep", w, c) /\ w > 0
              => WithinOutage(m, v, "sleep", w - 1, d)
         /\ WithinOutage(n, u, "announce", w, c) /\ u = -1 /\ d = c + 1
              => WithinOutage(m, v, "announce", w, d)
         /\ WithinOutage(n, u, "call", w, c) /\ d = c + 1
              => WithinOutage(m, v, "call", w, d)
<1>1. \/ u = -1 /\ v = -1
      \/ u # -1 /\ u < MaxDelay /\ v = u + 1
      \/ u = MaxDelay /\ v = MaxDelay
  BY Limits DEF Upto
<1>2. CASE u = -1 /\ v = -1
  BY <1>2, Limits DEF WithinOutage
<1>3. CASE u # -1 /\ u < MaxDelay /\ v = u + 1
  BY <1>3, Limits DEF WithinOutage
<1>4. CASE u = MaxDelay /\ v = MaxDelay
  BY <1>4, Limits DEF WithinOutage
<1> QED
  BY <1>1, <1>2, <1>3, <1>4

LEMMA TickKeeps == Bounded /\ Tick => Bounded'
<1> SUFFICES ASSUME Bounded, Tick PROVE Bounded'
  OBVIOUS
<1>1. /\ pc' = pc
      /\ \/ pc = "sleep" /\ wait > 0 /\ wait' = wait - 1 /\ called' = called
         \/ /\ pc \in {"announce", "call"} /\ ~up
            /\ called < CallTime /\ called' = called + 1 /\ wait' = wait
      /\ unavailable' = (IF unavailable = -1 THEN -1 ELSE Upto(unavailable, MaxDelay))
      /\ wait \in Nat /\ unavailable \in Int /\ -1 <= unavailable /\ unavailable <= MaxDelay
      /\ wait <= MaxPoll /\ called \in Nat /\ called <= CallTime
      /\ pc \in {"announce", "announcing"} => unavailable = -1
  BY DEF Tick, Never, Bounded, TimesOK
<1>2. /\ wait' \in Nat /\ wait' <= MaxPoll /\ called' \in Nat /\ called' <= CallTime
      /\ pc = "sleep" => wait = wait' + 1
      /\ pc # "sleep" => wait' = wait /\ called' = called + 1
  BY <1>1, Limits
<1>3. /\ dueFor' \in Nat /\ dueFor' <= dueFor + 1 /\ dueFor \in Nat
      /\ policyFor' \in Nat /\ policyFor' <= policyFor + 1 /\ policyFor \in Nat
      /\ pausedFor' \in Nat /\ pausedFor' <= pausedFor + 1 /\ pausedFor \in Nat
      /\ exposedFor' \in Nat /\ exposedFor' <= exposedFor + 1 /\ exposedFor \in Nat
  BY TickRecords DEF Tick, Bounded, TimesOK
<1>4. unavailable' \in Int /\ -1 <= unavailable' /\ unavailable' <= MaxDelay
  BY <1>1, Limits DEF Upto
<1>5. TimesOK'
  <2>1. pauseLeft' \in Nat
    BY DEF Tick, Sooner, Bounded, TimesOK
  <2>2. pc' \in {"announce", "announcing"} => unavailable' = -1
    BY <1>1
  <2> QED
    BY <1>1, <1>2, <1>3, <1>4, <2>1, <2>2 DEF Tick, known, Bounded, TimesOK
<1>6. /\ lastPaused' = lastPaused /\ PolicyKnown' = PolicyKnown /\ failSafeLocked' = failSafeLocked
      /\ pc # "sleep" => ~up /\ ~up'
  BY <1>1 DEF Tick, known, PolicyKnown
<1>7. Told'
  <2>1. ASSUME NEW n \in Nat, NEW m \in Nat, m <= n + 1, Behind(n, pc, wait),
               pc # "sleep" /\ n <= MaxPoll => m = 0
        PROVE  Behind(m, pc', wait')
    <3>1. CASE pc = "sleep"
      <4>1. ASSUME NEW x \in Nat, wait = x + 1
            PROVE  Behind(m, "sleep", x)
        BY <1>1, <2>1, <3>1, <4>1, Limits DEF Behind
      <4> QED
        BY <1>1, <1>2, <3>1, <4>1
    <3>2. CASE pc # "sleep"
      <4>1. m = 0
        BY <2>1, <3>2 DEF Behind
      <4> QED
        BY <1>2, <4>1, NotBehind
    <3> QED
      BY <1>1, <3>1, <3>2
  <2>2. dueFor' > 0 => LockIsDue'
    BY TickRecords DEF Tick, Bounded
  <2>3. /\ pc # "sleep" /\ policyFor <= MaxPoll => policyFor' = 0
        /\ pc # "sleep" /\ pausedFor <= MaxPoll => pausedFor' = 0
    BY <1>6, TickRecords DEF Tick, Bounded
  <2>4. pc # "sleep" => dueFor' = 0
    BY <1>3, <1>6, <2>2 DEF LockIsDue
  <2>5. Behind(dueFor, pc, wait)
    BY <1>1, Zenon DEF Bounded, Told
  <2>6. Behind(dueFor', pc', wait')
    BY <1>3, <2>1, <2>4, <2>5
  <2>7. dueFor' <= MaxPoll
    BY <2>6 DEF Behind
  <2>8. ~lastPaused => Behind(pausedFor', pc', wait')
    BY <1>3, <2>1, <2>3 DEF Bounded, Told
  <2>9. ~PolicyKnown => Behind(policyFor', pc', wait')
    BY <1>3, <2>1, <2>3 DEF Bounded, Told
  <2>10. pc' # "lock"
    BY <1>1
  <2> QED
    BY <1>6, <2>2, <2>6, <2>7, <2>8, <2>9, <2>10, Zenon DEF Told
<1>8. ExposureBounded'
  <2>1. exposedFor' > 0 => Exposed' /\ ~tried'
    BY TickRecords DEF Tick, Bounded
  <2>2. tried => tried'
    BY <1>1 DEF Tick, Watch, Answered
  <2>3. pc # "lock"
    BY <1>1
  <2>0. /\ exposedFor \in Nat /\ exposedFor' \in Nat /\ exposedFor' <= exposedFor + 1
        /\ unavailable \in Int /\ -1 <= unavailable /\ unavailable <= MaxDelay
        /\ unavailable' = (IF unavailable = -1 THEN -1 ELSE Upto(unavailable, MaxDelay))
        /\ unavailable' \in Int
        /\ wait \in Nat /\ wait <= MaxPoll /\ wait' \in Nat
        /\ called \in Nat /\ called' \in Nat /\ called' <= CallTime
    BY <1>1, <1>2, <1>3, <1>4
  <2>4. ASSUME WithinOutage(exposedFor, unavailable, pc, wait, called)
        PROVE  WithinOutage(exposedFor', unavailable', pc', wait', called')
    <3>1. CASE pc = "sleep"
      <4>1. WithinOutage(exposedFor, unavailable, "sleep", wait, called) /\ wait > 0 /\ wait' = wait - 1
        BY <1>1, <2>4, <3>1
      <4>2. WithinOutage(exposedFor', unavailable', "sleep", wait - 1, called')
        BY <2>0, <4>1, OutageTicks
      <4> QED
        BY <1>1, <3>1, <4>1, <4>2
    <3>2. CASE pc = "call"
      <4>1. WithinOutage(exposedFor, unavailable, "call", wait, called) /\ called' = called + 1
        BY <1>2, <2>4, <3>2
      <4>2. WithinOutage(exposedFor', unavailable', "call", wait, called')
        BY <2>0, <4>1, OutageTicks
      <4> QED
        BY <1>1, <1>2, <3>2, <4>2
    <3>3. CASE pc = "announce"
      <4>1. /\ WithinOutage(exposedFor, unavailable, "announce", wait, called)
            /\ unavailable = -1 /\ called' = called + 1
        BY <1>1, <1>2, <2>4, <3>3
      <4>2. WithinOutage(exposedFor', unavailable', "announce", wait, called')
        BY <2>0, <4>1, OutageTicks
      <4> QED
        BY <1>1, <1>2, <3>3, <4>2
    <3> QED
      BY <1>1, <3>1, <3>2, <3>3
  <2> QED
    BY <1>6, <2>1, <2>2, <2>3, <2>4, Zenon DEF Bounded, ExposureBounded
<1> QED
  BY <1>5, <1>7, <1>8 DEF Bounded

LEMMA BoundedStep == Bounded /\ [Next]_vars => Bounded'
<1> SUFFICES ASSUME Bounded, [Next]_vars PROVE Bounded'
  OBVIOUS
<1>a. /\ fast \in BOOLEAN /\ pauseLeft \in Nat /\ PauseLife \in Nat
      /\ pc \in {"announce", "announcing", "sleep", "call", "lock"}
  BY LimitsAreNats DEF Bounded, TimesOK
<1>1. CASE UserLocks
  BY <1>1, <1>a, MonitorAlone DEF UserLocks, config, monitor, SamePlace
<1>2. CASE UserUnlocks
  BY <1>2, <1>a, MonitorAlone DEF UserUnlocks, config, monitor, SamePlace
<1>3. CASE ServiceTakes
  BY <1>3, <1>a, MonitorAlone DEF ServiceTakes, config, monitor, SamePlace
<1>4. ASSUME NEW t \in Threads, OnUnlock(t) PROVE Bounded'
  BY <1>4, <1>a, MonitorAlone DEF OnUnlock, config, monitor, SamePlace
<1>5. CASE OnLock
  BY <1>5, <1>a, MonitorAlone DEF OnLock, config, monitor, SamePlace
<1>6. CASE EvidenceChanges
  BY <1>6, <1>a, MonitorAlone DEF EvidenceChanges, config, monitor, SamePlace
<1>7. CASE SetConfig
  <2>1. Watched /\ UNCHANGED <<monitor, known, outage>>
    BY <1>7 DEF SetConfig
  <2>2. fast' \in BOOLEAN
    BY <1>7, <1>a DEF SetConfig
  <2>3. pauseLeft' \in Nat
    <3>1. pauseLeft' = pauseLeft \/ pauseLeft' = PauseLife \/ pauseLeft' = 0
      BY <1>7, Zenon DEF SetConfig
    <3> QED
      BY <1>a, <3>1
  <2> QED
    BY <1>a, <2>1, <2>2, <2>3, MonitorAlone DEF monitor, SamePlace
<1>8. CASE ServiceStops
  BY <1>8, <1>a, MonitorAlone DEF ServiceStops, config, monitor, SamePlace
<1>9. CASE ServiceStarts
  BY <1>9, <1>a, MonitorAlone DEF ServiceStarts, config, monitor, SamePlace
<1>10. CASE Announce
  BY <1>10, <1>a, MonitorAlone DEF Announce, config, monitor, SamePlace
<1>11. CASE Announced
  BY <1>11, <1>a, MonitorAlone DEF Announced, config, monitor, SamePlace
<1>12. CASE UNCHANGED vars
  <2>1. TimesOK'
    BY <1>12 DEF vars, desktop, session, evidence, config, monitor, known, outage, ghosts, Bounded, TimesOK
  <2>2. Told'
    BY <1>12, Zenon
    DEF vars, desktop, session, evidence, config, monitor, known, outage, ghosts, Bounded, Told,
        PolicyKnown, LockIsDue
  <2>3. ExposureBounded'
    BY <1>12, Zenon
    DEF vars, desktop, session, evidence, config, monitor, known, outage, ghosts, Bounded,
        ExposureBounded, PolicyKnown, Exposed
  <2> QED
    BY <2>1, <2>2, <2>3 DEF Bounded
<1> QED
  BY <1>1, <1>2, <1>3, <1>4, <1>5, <1>6, <1>7, <1>8, <1>9, <1>10, <1>11, <1>12,
     CallStatusKeeps, StatusAnsweredKeeps, StatusFailedKeeps, LockWorkstationKeeps, TickKeeps
  DEF Next

LEMMA BoundedAlways == Spec => []Bounded
<1>1. Init => Bounded
  BY BoundedInit
<1>2. Bounded /\ [Next]_vars => Bounded'
  BY BoundedStep
<1> QED
  BY <1>1, <1>2, PTL DEF Spec

(***************************************************************************)
(* A lock that is due is carried out within a poll, for all intervals and  *)
(* whatever modes are changed and services restarted (Status.ShouldLock,   *)
(* start_runtime_monitor).                                                 *)
(***************************************************************************)
THEOREM DueIsLockedAlways == Spec => []DueIsLocked
<1>1. Bounded => DueIsLocked
  BY DEF Bounded, Told, DueIsLocked
<1> QED
  BY <1>1, BoundedAlways, PTL

(***************************************************************************)
(* The monitor locks an exposed desktop within the delay, two polls and    *)
(* three calls, unless it was not told that it should                      *)
(* (start_runtime_monitor).                                                *)
(***************************************************************************)
THEOREM FailSafeLocksAlways == Spec => []FailSafeLocks
<1>1. Bounded => FailSafeLocks
  <2> SUFFICES ASSUME Bounded, exposedFor > MaxGone PROVE policyFor <= MaxPoll
    BY DEF FailSafeLocks
  <2>1. exposedFor \in Nat /\ MaxGone \in Nat
    BY Limits DEF Bounded, TimesOK
  <2>2. ~PolicyKnown
    BY <2>1 DEF Bounded, ExposureBounded, WithinOutage
  <2> QED
    BY <2>2 DEF Bounded, Told, Behind
<1> QED
  BY <1>1, BoundedAlways, PTL

(***************************************************************************)
(* The monitor never locks in a pause that has lasted for a poll           *)
(* (last_paused, Status.ShouldLock).                                       *)
(***************************************************************************)
THEOREM PauseHoldsAlways == Spec => PauseHolds
<1>1. Bounded /\ [Next]_vars => [pc = "lock" /\ pc' = "sleep" => pausedFor <= MaxPoll]_vars
  BY DEF Bounded, Told
<1> QED
  BY <1>1, BoundedAlways, PTL DEF Spec, PauseHolds

-----------------------------------------------------------------------------
(* Types, and what an unlock leaves                                        *)

(* What the type invariant adds to TimesOK. *)
Placed ==
  /\ winLocked \in BOOLEAN /\ up \in BOOLEAN
  /\ sessionActive \in BOOLEAN /\ locked \in BOOLEAN /\ predictionGuardActive \in BOOLEAN
  /\ proximityLocked \in BOOLEAN /\ due \in BOOLEAN /\ autoLock \in BOOLEAN
  /\ lastAutoLock \in BOOLEAN /\ lastPaused \in BOOLEAN
  /\ failSafeLocked \in BOOLEAN /\ tried \in BOOLEAN
Queued ==
  /\ notices \in Seq({"lock", "unlock"}) /\ Len(notices) <= MaxNotices
  /\ mark \in [Threads -> {"idle", "onLock", "onUnlock"}]
Counted ==
  /\ grace \in 0 .. Grace /\ pauseLeft \in 0 .. PauseLife /\ openFor \in 0 .. Grace
  /\ policyFor \in 0 .. MaxPoll + 1 /\ pausedFor \in 0 .. MaxPoll + 1
  /\ exposedFor \in 0 .. MaxGone + 1

LEMMA PlacedStep == Placed /\ Bounded /\ [Next]_vars => Placed'
<1> SUFFICES ASSUME Placed, Bounded, [Next]_vars PROVE Placed'
  OBVIOUS
<1> USE DEF Placed, desktop, session, evidence, config, known, outage, Watched, Watch
<1>1. CASE UserLocks
  BY <1>1 DEF UserLocks
<1>2. CASE UserUnlocks
  BY <1>2 DEF UserUnlocks
<1>3. CASE ServiceTakes
  BY <1>3 DEF ServiceTakes, MarkSessionActive, MarkLocked
<1>4. ASSUME NEW t \in Threads, OnUnlock(t) PROVE Placed'
  BY <1>4 DEF OnUnlock
<1>5. CASE OnLock
  BY <1>5 DEF OnLock
<1>6. CASE EvidenceChanges
  BY <1>6 DEF EvidenceChanges
<1>7. CASE SetConfig
  <2>1. autoLock' \in BOOLEAN /\ predictionGuardActive' \in BOOLEAN
    BY <1>7 DEF SetConfig
  <2> QED
    BY <1>7, <2>1 DEF SetConfig
<1>8. CASE ServiceStops
  BY <1>8 DEF ServiceStops
<1>9. CASE ServiceStarts
  BY <1>9 DEF ServiceStarts
<1>10. CASE Announce
  BY <1>10 DEF Announce, MarkSessionActive
<1>11. CASE Announced
  BY <1>11 DEF Announced
<1>12. CASE CallStatus
  BY <1>12 DEF CallStatus
<1>13. CASE StatusAnswered
  <2>1. lastPaused' \in BOOLEAN
    BY <1>13 DEF StatusAnswered, Bounded, TimesOK
  <2> QED
    BY <1>13, <2>1 DEF StatusAnswered
<1>14. CASE StatusFailed
  BY <1>14 DEF StatusFailed
<1>15. CASE LockWorkstation
  BY <1>15 DEF LockWorkstation
<1>16. CASE Tick
  BY <1>16 DEF Tick
<1>17. CASE UNCHANGED vars
  BY <1>17 DEF vars, ghosts
<1> QED
  BY <1>1, <1>2, <1>3, <1>4, <1>5, <1>6, <1>7, <1>8, <1>9, <1>10, <1>11, <1>12, <1>13,
     <1>14, <1>15, <1>16, <1>17 DEF Next

LEMMA Notified ==
  ASSUME Queued, NEW kind \in {"lock", "unlock"}, Notify(kind)
  PROVE  /\ notices' \in Seq({"lock", "unlock"}) /\ Len(notices') <= MaxNotices
         /\ up => notices' # <<>> /\ notices'[Len(notices')] = kind
         /\ ~up => notices' = notices
  BY LimitsAreNats DEF Queued, Notify

LEMMA QueuedStep == Queued /\ [Next]_vars => Queued'
<1> SUFFICES ASSUME Queued, [Next]_vars PROVE Queued'
  OBVIOUS
<1> USE DEF desktop
<1>1. CASE UserLocks
  BY <1>1, Notified DEF UserLocks, Queued
<1>2. CASE UserUnlocks
  BY <1>2, Notified DEF UserUnlocks, Queued
<1>3. CASE ServiceTakes
  <2>1. notices' \in Seq({"lock", "unlock"}) /\ Len(notices') <= MaxNotices
    BY <1>3, LimitsAreNats DEF ServiceTakes, Queued
  <2>2. mark' \in [Threads -> {"idle", "onLock", "onUnlock"}]
    BY <1>3 DEF ServiceTakes, MarkSessionActive, MarkLocked, Queued
  <2> QED
    BY <2>1, <2>2 DEF Queued
<1>4. ASSUME NEW t \in Threads, OnUnlock(t) PROVE Queued'
  BY <1>4 DEF OnUnlock, Queued
<1>5. CASE OnLock
  BY <1>5 DEF OnLock, Queued
<1>6. CASE ServiceStops
  BY <1>6, LimitsAreNats DEF ServiceStops, Queued
<1>7. CASE Announce
  BY <1>7 DEF Announce, MarkSessionActive, Queued
<1>8. CASE LockWorkstation
  BY <1>8, Notified DEF LockWorkstation, Queued
<1>9. CASE UNCHANGED <<notices, mark>>
  BY <1>9 DEF Queued
<1> QED
  BY <1>1, <1>2, <1>3, <1>4, <1>5, <1>6, <1>7, <1>8, <1>9, Zenon
  DEF Next, vars, EvidenceChanges, SetConfig, ServiceStarts, Announced, CallStatus,
      StatusAnswered, StatusFailed, Tick

LEMMA SoonerStays ==
  ASSUME NEW n \in Nat, NEW left \in 0 .. n
  PROVE  Sooner(left) \in 0 .. n
  BY DEF Sooner

LEMMA LastingStays ==
  ASSUME NEW limit \in Nat, NEW n \in 0 .. limit, NEW holds, NEW ticked
  PROVE  Lasting(n, holds, ticked, limit) \in 0 .. limit
  BY DEF Lasting, Upto

LEMMA SeenStays ==
  ASSUME NEW n \in 0 .. MaxPoll + 1, NEW holds, NEW ticked
  PROVE  Seen(n, holds, ticked) \in 0 .. MaxPoll + 1
<1>1. MaxPoll + 1 \in Nat
  BY Limits
<1>2. Lasting(n, holds, ticked, MaxPoll + 1) \in 0 .. MaxPoll + 1
  BY <1>1, LastingStays
<1> QED
  BY <1>1, <1>2 DEF Seen

LEMMA CountedStep == Counted /\ [Next]_vars => Counted'
<1> SUFFICES ASSUME Counted, [Next]_vars PROVE Counted'
  OBVIOUS
<1> USE LimitsAreNats DEF desktop, evidence, config
<1>1. ASSUME NEW ticked, Watch(ticked), grace' \in 0 .. Grace, pauseLeft' \in 0 .. PauseLife
      PROVE  Counted'
  <2>1. openFor' \in 0 .. Grace
    BY <1>1, LastingStays DEF Watch, Counted
  <2>2. policyFor' \in 0 .. MaxPoll + 1 /\ pausedFor' \in 0 .. MaxPoll + 1
    BY <1>1, SeenStays DEF Watch, Counted
  <2>3. exposedFor' \in 0 .. MaxGone + 1
    <3>1. MaxGone + 1 \in Nat
      BY Limits
    <3> QED
      BY <1>1, <3>1, LastingStays DEF Watch, Counted
  <2> QED
    BY <1>1, <2>1, <2>2, <2>3 DEF Counted
<1>2. ASSUME Watched, grace' \in 0 .. Grace, pauseLeft' \in 0 .. PauseLife
      PROVE  Counted'
  BY <1>1, <1>2 DEF Watched
<1>3. ASSUME NEW t \in Threads, OnUnlock(t) PROVE Counted'
  BY <1>2, <1>3 DEF OnUnlock, Counted
<1>4. CASE SetConfig
  <2>1. pauseLeft' = pauseLeft \/ pauseLeft' = PauseLife \/ pauseLeft' = 0
    BY <1>4, Zenon DEF SetConfig
  <2>2. grace' = grace /\ Watched
    BY <1>4 DEF SetConfig
  <2> QED
    BY <1>2, <2>1, <2>2 DEF Counted
<1>5. CASE ServiceStarts
  BY <1>2, <1>5 DEF ServiceStarts, Counted
<1>6. CASE Tick
  BY <1>1, <1>6, SoonerStays DEF Tick, Counted
<1>7. CASE UNCHANGED vars
  BY <1>7 DEF vars, ghosts, Counted
<1>8. CASE Watched /\ UNCHANGED <<grace, pauseLeft>>
  BY <1>2, <1>8 DEF Counted
<1> QED
  BY <1>3, <1>4, <1>5, <1>6, <1>7, <1>8, Zenon
  DEF Next, UserLocks, UserUnlocks, ServiceTakes, OnLock, EvidenceChanges, ServiceStops,
      Announce, Announced, CallStatus, StatusAnswered, StatusFailed, LockWorkstation

(***************************************************************************)
(* Every variable keeps its type, the bounds on times and notifications    *)
(* included, for all intervals.                                            *)
(***************************************************************************)
THEOREM TypeCorrect == Spec => []TypeOK
<1>1. Init => Placed /\ Queued /\ Counted
  <2> SUFFICES ASSUME Init PROVE Placed /\ Queued /\ Counted
    OBVIOUS
  <2>1. Placed
    <3>1. lastPaused \in BOOLEAN
      BY LimitsAreNats DEF Init
    <3> QED
      BY <3>1 DEF Init, Placed
  <2>2. Queued
    BY LimitsAreNats DEF Init, Queued
  <2>3. Counted
    BY Limits, LimitsAreNats DEF Init, Counted
  <2> QED
    BY <2>1, <2>2, <2>3
<1>2. Placed /\ Queued /\ Counted /\ Bounded /\ [Next]_vars => (Placed /\ Queued /\ Counted)'
  BY PlacedStep, QueuedStep, CountedStep
<1>3. Placed /\ Queued /\ Counted /\ Bounded => TypeOK
  BY Limits DEF Placed, Queued, Counted, Bounded, TimesOK, Told, TypeOK, Never
<1> QED
  BY <1>1, <1>2, <1>3, BoundedAlways, PTL DEF Spec

(* What a service that runs beside an open desktop knows of its last       *)
(* unlock: it is still on its way, being handled, or has set the grace.    *)
Latest == notices # <<>> => up /\ (~winLocked => notices[Len(notices)] = "unlock")
Handled ==
  up /\ ~winLocked /\ sessionActive
    => \/ openFor + grace >= Grace
       \/ notices # <<>> \/ \E t \in Threads : mark[t] = "onUnlock"
Greeted == Latest /\ Handled /\ (due => grace = 0)

(* A step that neither touches what Greeted speaks of nor lets time pass.  *)
LEMMA GreetedKept ==
  ASSUME TypeOK, Greeted, Watched, grace' = grace, due' => due \/ grace = 0,
         UNCHANGED <<winLocked, notices, up, sessionActive, mark>>
  PROVE  Greeted'
<1>1. ~winLocked => openFor' = openFor
  BY DEF Watched, Watch, Lasting
<1> QED
  BY <1>1 DEF Greeted, Latest, Handled

LEMMA OneLeft ==
  ASSUME NEW S, NEW s \in Seq(S), s # <<>>, Tail(s) = <<>>
  PROVE  Len(s) = 1 /\ Head(s) = s[Len(s)]
<1>1. Len(Tail(s)) = Len(s) - 1 /\ Len(s) \in Nat
  OBVIOUS
<1>2. Len(Tail(s)) = 0
  <2>1. \A t \in Seq(S) : t = <<>> <=> Len(t) = 0
    OBVIOUS
  <2>2. Tail(s) \in Seq(S)
    OBVIOUS
  <2> QED
    BY <2>1, <2>2
<1> QED
  BY <1>1, <1>2

LEMMA ServiceTakesGreets ==
  ASSUME TypeOK, Greeted, ServiceTakes
  PROVE  Greeted'
<1>1. /\ up /\ up' = up /\ winLocked' = winLocked /\ notices # <<>> /\ notices' = Tail(notices)
      /\ grace' = grace /\ due' = due /\ mark["svc"] = "idle"
      /\ notices \in Seq({"lock", "unlock"})
      /\ mark \in [Threads -> {"idle", "onLock", "onUnlock"}]
  BY DEF ServiceTakes, evidence, TypeOK
<1>2. Latest'
  BY <1>1 DEF Greeted, Latest
<1>3. ~winLocked /\ notices' = <<>> => Head(notices) = "unlock"
  <2>1. notices' = <<>> => Len(notices) = 1 /\ Head(notices) = notices[Len(notices)]
    BY <1>1, OneLeft
  <2> QED
    BY <1>1, <2>1 DEF Greeted, Latest
<1>4. Head(notices) = "unlock" => mark'["svc"] = "onUnlock"
  BY <1>1 DEF ServiceTakes, MarkSessionActive, Threads
<1>5. Handled'
  BY <1>1, <1>3, <1>4 DEF Handled, Threads
<1> QED
  BY <1>1, <1>2, <1>5 DEF Greeted

LEMMA GreetedStep == TypeOK /\ Greeted /\ [Next]_vars => Greeted'
<1> SUFFICES ASSUME TypeOK, Greeted, [Next]_vars PROVE Greeted'
  OBVIOUS
<1> USE DEF desktop, session, evidence
<1>a. Queued
  BY DEF TypeOK, Queued
<1>1. CASE UserLocks
  BY <1>1, <1>a, Notified DEF UserLocks, Greeted, Latest, Handled
<1>2. CASE UserUnlocks
  <2>1. /\ up => notices' # <<>> /\ notices'[Len(notices')] = "unlock"
        /\ ~up => notices' = notices
    BY <1>2, <1>a, Notified DEF UserUnlocks
  <2> QED
    BY <1>2, <2>1 DEF UserUnlocks, Greeted, Latest, Handled
<1>3. CASE ServiceTakes
  BY <1>3, ServiceTakesGreets
<1>4. ASSUME NEW t \in Threads, OnUnlock(t) PROVE Greeted'
  <2>1. openFor' \in 0 .. Grace
    <3>1. openFor \in 0 .. Grace /\ Grace \in Nat
      BY LimitsAreNats DEF TypeOK
    <3> QED
      BY <1>4, <3>1, LastingStays DEF OnUnlock, Watched, Watch
  <2>2. /\ notices' = notices /\ up' = up /\ winLocked' = winLocked
        /\ grace' = Grace /\ ~due'
    BY <1>4 DEF OnUnlock
  <2>3. ASSUME NEW n \in 0 .. Grace PROVE n + Grace >= Grace
    BY LimitsAreNats
  <2>4. openFor' + grace' >= Grace
    BY <2>1, <2>2, <2>3
  <2> QED
    BY <2>2, <2>4 DEF Greeted, Latest, Handled
<1>5. CASE OnLock
  <2>1. \A t \in Threads : mark[t] = "onUnlock" => mark'[t] = "onUnlock"
    BY <1>5 DEF OnLock, TypeOK
  <2>2. ~winLocked => openFor' = openFor
    BY <1>5 DEF OnLock, Watched, Watch, Lasting
  <2> QED
    BY <1>5, <2>1, <2>2 DEF OnLock, Greeted, Latest, Handled
<1>6. CASE EvidenceChanges
  BY <1>6, GreetedKept DEF EvidenceChanges
<1>7. CASE SetConfig
  BY <1>7, GreetedKept DEF SetConfig
<1>8. CASE ServiceStops
  BY <1>8 DEF ServiceStops, Greeted, Latest, Handled
<1>9. CASE ServiceStarts
  <2>1. notices' = notices
    BY <1>9 DEF ServiceStarts
  <2> QED
    BY <1>9 DEF ServiceStarts, Greeted, Latest, Handled
<1>10. CASE Announce
  <2>1. mark'["ctl"] = "onUnlock" /\ "ctl" \in Threads
    BY <1>10 DEF Announce, MarkSessionActive, TypeOK, Threads
  <2> QED
    BY <1>10, <2>1 DEF Announce, Greeted, Latest, Handled
<1>11. CASE Announced
  BY <1>11, GreetedKept DEF Announced
<1>12. CASE CallStatus
  BY <1>12, GreetedKept DEF CallStatus
<1>13. CASE StatusAnswered
  BY <1>13, GreetedKept DEF StatusAnswered
<1>14. CASE StatusFailed
  BY <1>14, GreetedKept DEF StatusFailed
<1>15. CASE LockWorkstation
  BY <1>15, <1>a, Notified DEF LockWorkstation, Greeted, Latest, Handled
<1>16. CASE Tick
  <2>1. /\ Grace \in Nat /\ openFor \in 0 .. Grace /\ grace \in 0 .. Grace
        /\ winLocked' = winLocked
        /\ ~winLocked => openFor' = Upto(openFor, Grace)
        /\ grace' = Sooner(grace)
    BY <1>16, LimitsAreNats DEF Tick, Watch, Lasting, TypeOK
  <2>2. ~winLocked /\ openFor + grace >= Grace => openFor' + grace' >= Grace
    BY <2>1 DEF Upto, Sooner
  <2>3. grace = 0 => grace' = 0
    BY <2>1 DEF Sooner
  <2> QED
    BY <1>16, <2>1, <2>2, <2>3 DEF Tick, Greeted, Latest, Handled
<1>17. CASE UNCHANGED vars
  BY <1>17 DEF vars, ghosts, Greeted, Latest, Handled
<1> QED
  BY <1>1, <1>2, <1>3, <1>4, <1>5, <1>6, <1>7, <1>8, <1>9, <1>10, <1>11, <1>12, <1>13,
     <1>14, <1>15, <1>16, <1>17 DEF Next

(***************************************************************************)
(* A status never asks to lock a desktop that has just been opened, for    *)
(* all intervals: an unlock whose notification is handled has set the      *)
(* grace, and a service that was started since has no session to lock      *)
(* before it has handled one (OnUnlock, ShouldLock).                       *)
(***************************************************************************)
THEOREM FreshUnlockStaysAlways == Spec => FreshUnlockStays
<1>1. Init => Greeted
  BY DEF Init, Greeted, Latest, Handled
<1>2. TypeOK /\ Greeted /\ [Next]_vars => Greeted'
  BY GreetedStep
<1>3. TypeOK /\ Greeted /\ [Next]_vars
        => [pc = "call" /\ pc' = "lock" /\ up
              => \/ winLocked \/ openFor = Grace
                 \/ notices # <<>> \/ \E t \in Threads : mark[t] # "idle"]_vars
  <2> SUFFICES ASSUME TypeOK, Greeted, Next, pc = "call", pc' = "lock", up,
                      ~winLocked, notices = <<>>, \A t \in Threads : mark[t] = "idle"
               PROVE  openFor = Grace
    OBVIOUS
  <2>1. StatusAnswered
    BY Zenon DEF Next, UserLocks, UserUnlocks, ServiceTakes, OnUnlock, OnLock, EvidenceChanges,
          SetConfig, ServiceStops, ServiceStarts, Announce, Announced, CallStatus,
          StatusFailed, LockWorkstation, Tick, monitor
  <2>2. sessionActive /\ due
    BY <2>1 DEF StatusAnswered, ShouldLock
  <2>3. grace = 0 /\ openFor + grace >= Grace
    BY <2>2 DEF Greeted, Handled
  <2> QED
    BY <2>3, LimitsAreNats DEF TypeOK
<1> QED
  BY <1>1, <1>2, <1>3, TypeCorrect, PTL DEF Spec, FreshUnlockStays

=============================================================================
