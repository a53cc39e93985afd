----------------------------- MODULE Exchange -----------------------------
(***************************************************************************)
(* A challenge and its answer over GATT.  The PC connects, subscribes to   *)
(* the answers, writes the challenge in two fragments, waits with a time   *)
(* limit, disconnects, and checks what was put together: the challenge it  *)
(* answers and its lifetime (Matches), the signature, the counter.  The    *)
(* phone puts the fragments of an address together, and one worker thread  *)
(* answers the challenges in turn: it checks one, takes a number from a    *)
(* counter it keeps on disk, signs, and sends two fragments.  The worker   *)
(* does not notice that the PC has hung up, or has connected again.        *)
(*                                                                         *)
(* Attempt n stands for the nonce of its challenge; a fragment is the      *)
(* number of the message it is a part of, because a challenge is answered  *)
(* at most once.  The first fragment has the whole body, the second the    *)
(* end of the signature, so a mixture parses and its signature is wrong.   *)
(* The two clocks agree.  Writes and notifications arrive at once while    *)
(* the link is up: what is late is the worker.                             *)
(***************************************************************************)
EXTENDS Integers, Sequences

CONSTANT MaxAttempts      \* bound: challenges

ASSUME AttemptsAreCounted == MaxAttempts \in Nat

VARIABLES
  cur,          \* the number of challenges issued
  step,         \* where the exchange of challenge cur is
  late,         \* challenges that are out of date
  link,         \* "down", "up", or "subscribed": what the phone's GATT server sees
  parts,        \* Exchange's reassembler
  result,       \* what it put together
  guard,        \* ReplayGuard: the last counter and the nonces used
  verdict,      \* how the last attempt ended
  phoneParts,   \* the phone's reassembler for the PC's address
  queue,        \* complete messages the worker has not looked at
  job,          \* what the worker is doing
  counter,      \* SecureStore: the last number given out
  number,       \* the number the answer to each challenge has, or 0
  scanned,      \* the phone has scanned a new QR code and waits for the PC
  \* not in the code, read by properties only:
  calm,         \* nothing of an earlier attempt was left when this one began
  prompt        \* challenges the phone gave a number, and signed, before they were out of date

vars == <<cur, step, late, link, parts, result, guard, verdict, phoneParts, queue, job,
          counter, number, scanned, calm, prompt>>

Attempts == 1 .. MaxAttempts
None == <<0, 0>>
NoJob == [at |-> "idle", n |-> 0, sent |-> 0]
FreshGuard == [last |-> 0, used |-> {}]

Init ==
  /\ cur = 0 /\ step = "idle" /\ late = {} /\ link = "down" /\ parts = None /\ result = None
  /\ guard = FreshGuard /\ verdict = "none"
  /\ phoneParts = None /\ queue = <<>> /\ job = NoJob
  /\ counter = 0 /\ number = [n \in Attempts |-> 0] /\ scanned = FALSE
  /\ calm = TRUE /\ prompt = {}

(* Add: a part that is there already is kept. *)
Added(have, k, n) == IF have[k] = 0 THEN [have EXCEPT ![k] = n] ELSE have
Whole(have) == have[1] # 0 /\ have[2] # 0

-----------------------------------------------------------------------------
(* The PC                                                                  *)

PhoneVars == <<phoneParts, queue, job, counter, number, scanned, prompt>>

(* NewChallenge, and the exchange lock. *)
StartAttempt ==
  /\ step = "idle" /\ cur < MaxAttempts /\ ~scanned
  /\ cur' = cur + 1 /\ step' = "connect"
  /\ verdict' = "none" /\ parts' = None /\ result' = None
  /\ calm' = (queue = <<>> /\ job = NoJob)
  /\ UNCHANGED <<late, link, guard>> /\ UNCHANGED PhoneVars

Connect ==
  /\ step = "connect" /\ step' = "subscribe" /\ link' = "up"
  /\ UNCHANGED <<cur, late, parts, result, guard, verdict, calm>> /\ UNCHANGED PhoneVars

EnableNotifications ==
  /\ step = "subscribe" /\ link = "up" /\ step' = "write1" /\ link' = "subscribed"
  /\ UNCHANGED <<cur, late, parts, result, guard, verdict, calm>> /\ UNCHANGED PhoneVars

(* onCharacteristicWriteRequest, on the phone *)
Receives(k) ==
  LET have == Added(phoneParts, k, cur) IN
    /\ queue' = IF Whole(have) THEN Append(queue, have) ELSE queue
    /\ phoneParts' = IF Whole(have) THEN None ELSE have

WriteFragment(k) ==
  /\ step = <<"write1", "write2">>[k] /\ link = "subscribed"
  /\ step' = <<"write2", "wait">>[k]
  /\ Receives(k)
  /\ UNCHANGED <<cur, late, link, parts, result, guard, verdict, calm, job, counter, number,
                 scanned, prompt>>

(* Mutant: the reassembler of the address outlives the connection. *)
HangUpKeepsParts == link' = "down" /\ UNCHANGED phoneParts
(* Disconnect, and onConnectionStateChange on the phone *)
HangUp == link' = "down" /\ phoneParts' = None

TakeAnswer ==
  /\ step = "wait" /\ Whole(result)
  /\ step' = "check"
  /\ HangUp
  /\ UNCHANGED <<cur, late, parts, result, guard, verdict, queue, job, counter, number, scanned, prompt, calm>>

(* A step fails, or the time is up. *)
GiveUp ==
  /\ step \in {"connect", "subscribe", "write1", "write2", "wait"}
  /\ step' = "idle" /\ verdict' = "transport"
  /\ HangUp
  /\ UNCHANGED <<cur, late, parts, result, guard, queue, job, counter, number, scanned, prompt, calm>>

(* A mutant of Matches: an answer never comes too late. *)
MatchesLate(body) == body = cur
Matches(body) == body = cur /\ cur \notin late

Ends(how) == step' = "idle" /\ verdict' = how /\ UNCHANGED <<cur, late, link, parts, result, calm>>

CheckAnswer ==
  /\ step = "check"
  /\ \/ ~Matches(result[1]) /\ Ends("binding")
     \/ Matches(result[1]) /\ result[1] # result[2] /\ Ends("signature")
     \/ /\ Matches(result[1]) /\ result[1] = result[2]
        /\ step' = "accept"
        /\ UNCHANGED <<cur, late, link, parts, result, verdict, calm>>
  /\ UNCHANGED guard /\ UNCHANGED PhoneVars

(* The nonces used are dropped after a minute; none comes twice, so this   *)
(* changes nothing and is left out.                                        *)
Accept ==
  /\ step = "accept"
  /\ LET n == result[1]
         good == n \notin guard.used /\ number[n] > guard.last
     IN /\ guard' = IF good THEN [last |-> number[n], used |-> guard.used \cup {n}] ELSE guard
        /\ Ends(IF good THEN "accepted" ELSE "replay")
  /\ UNCHANGED PhoneVars

(* The service stops, with its connection, and starts again. *)
ServiceRestarts ==
  /\ step' = "idle" /\ verdict' = "none" /\ guard' = FreshGuard /\ parts' = None /\ result' = None
  /\ HangUp
  /\ UNCHANGED <<cur, late, queue, job, counter, number, scanned, prompt, calm>>

Revoke ==
  /\ guard' = FreshGuard
  /\ UNCHANGED <<cur, step, late, link, parts, result, verdict, calm>> /\ UNCHANGED PhoneVars

-----------------------------------------------------------------------------
(* The phone                                                               *)

PCVars == <<cur, step, late, link, guard, verdict>>

(* parseChallenge, the mode and the keyguard: an answer is refused in silence. *)
WorkerTakes ==
  /\ job = NoJob /\ queue # <<>>
  /\ queue' = Tail(queue)
  /\ \/ /\ Head(queue)[1] = Head(queue)[2] /\ Head(queue)[1] \notin late
        /\ job' = [NoJob EXCEPT !.at = "number", !.n = Head(queue)[1]]
     \/ job' = NoJob
  /\ UNCHANGED <<parts, result, phoneParts, counter, number, scanned, prompt, calm>> /\ UNCHANGED PCVars

(* nextCounter: what is committed is committed before anything is signed. *)
NextCounter ==
  /\ job.at = "number"
  /\ counter' = counter + 1 /\ number' = [number EXCEPT ![job.n] = counter + 1]
  /\ prompt' = prompt \cup ({job.n} \ late)
  /\ job' = [job EXCEPT !.at = "signed"]
  /\ UNCHANGED <<parts, result, phoneParts, queue, scanned, calm>> /\ UNCHANGED PCVars

(* notifyFragments: the subscription is looked at once. *)
BeginAnswer ==
  /\ job.at = "signed"
  /\ job' = IF link = "subscribed" THEN [job EXCEPT !.at = "send"] ELSE NoJob
  /\ UNCHANGED <<parts, result, phoneParts, queue, counter, number, scanned, prompt, calm>> /\ UNCHANGED PCVars

(* A fragment goes out on whatever connection there is; the PC looks at    *)
(* the first whole message since it subscribed.                            *)
SendFragment ==
  /\ job.at = "send"
  /\ IF link = "down"
       THEN job' = NoJob /\ UNCHANGED <<parts, result>>
       ELSE LET k == job.sent + 1
                have == Added(parts, k, job.n)
            IN /\ job' = IF k = 2 THEN NoJob ELSE [job EXCEPT !.sent = k]
               /\ IF link = "subscribed"
                    THEN /\ parts' = IF Whole(have) THEN None ELSE have
                         /\ result' = IF Whole(have) /\ ~Whole(result) THEN have ELSE result
                    ELSE UNCHANGED <<parts, result>>
  /\ UNCHANGED <<phoneParts, queue, counter, number, scanned, prompt, calm>> /\ UNCHANGED PCVars

(* Mutant: the last number was not on disk yet, and is given out again. *)
DiskForgets == counter' = IF counter > 0 THEN counter - 1 ELSE 0
Disk == UNCHANGED counter

(* The worker and what waits for it are gone; what is on disk stays. *)
PhoneRestarts ==
  /\ queue' = <<>> /\ job' = NoJob /\ phoneParts' = None
  /\ link' = "down" /\ calm' = (calm /\ step \in {"idle", "check", "accept"})
  /\ Disk
  /\ UNCHANGED <<cur, step, late, parts, result, guard, verdict, number, scanned, prompt>>

(* savePairing: the counter starts again, while the PC keeps the old pairing. *)
PhoneScans ==
  /\ ~scanned /\ scanned' = TRUE /\ counter' = 0
  /\ calm' = (calm /\ step = "idle")
  /\ UNCHANGED <<parts, result, phoneParts, queue, job, number, prompt>> /\ UNCHANGED PCVars

(* completePairing ends.  It has used the exchange lock, and an answer is  *)
(* checked within the time that took.                                      *)
PairingDone ==
  /\ scanned /\ step = "idle"
  /\ scanned' = FALSE /\ guard' = FreshGuard
  /\ UNCHANGED <<cur, step, late, link, parts, result, verdict, calm>>
  /\ UNCHANGED <<phoneParts, queue, job, counter, number, prompt>>

(* Five seconds have passed since challenge n was issued. *)
Expire(n) ==
  /\ n <= cur /\ n \notin late /\ late' = late \cup {n}
  /\ calm' = (calm /\ (n # cur \/ step = "idle"))
  /\ UNCHANGED <<cur, step, link, parts, result, guard, verdict>> /\ UNCHANGED PhoneVars

Next ==
  \/ StartAttempt \/ Connect \/ EnableNotifications \/ (\E k \in 1 .. 2 : WriteFragment(k))
  \/ TakeAnswer \/ GiveUp \/ CheckAnswer \/ Accept \/ ServiceRestarts \/ Revoke
  \/ WorkerTakes \/ NextCounter \/ BeginAnswer \/ SendFragment \/ PhoneRestarts
  \/ PhoneScans \/ PairingDone \/ (\E n \in Attempts : Expire(n))

Spec == Init /\ [][Next]_vars

-----------------------------------------------------------------------------
(* Properties                                                              *)

(* An answer is accepted only if it is the phone's to the challenge of     *)
(* this attempt and the phone signed it while that challenge was in date:  *)
(* an answer the worker came to late, one to an earlier challenge that     *)
(* comes in on the new connection, or a mixture of the two, shows nothing  *)
(* of where the phone is now (Matches, authenticate).                      *)
AcceptsOnlyItsAnswer ==
  [][(verdict' = "accepted" /\ verdict # "accepted") =>
       result = <<cur, cur>> /\ cur \in prompt]_vars

(* When nothing was left of an earlier attempt, a good phone's answer is   *)
(* never counted as a security failure: its counter is above the last one  *)
(* over restarts of either side, revocation and pairing anew, and its      *)
(* fragments are put together as they were sent.                           *)
HonestAnswerStands == verdict \in {"binding", "signature", "replay"} => ~calm

(* The phone's worker never gets a challenge put together from two: a      *)
(* challenge cut off half way leaves nothing behind on the phone.          *)
PhoneSeesWhole == \A i \in DOMAIN queue : queue[i][1] = queue[i][2]

=============================================================================
