--------------------------- MODULE ExchangeProofs ---------------------------
(***************************************************************************)
(* Proofs about Exchange, for any number of challenges: the phone never    *)
(* takes one challenge for another, the PC accepts no answer but that to   *)
(* the challenge of this attempt, and a good phone's answer is not counted *)
(* as a security failure when nothing of an earlier attempt was about.     *)
(*                                                                         *)
(* The last one rests on two facts that hold over all attempts.  Counting: *)
(* whatever the PC remembers of counters is at most what the phone has     *)
(* given out, unless the phone has scanned a new code the PC has not heard *)
(* of.  Clean: while an attempt that began calm is under way and calm, all *)
(* that is about, on either side, is of its own challenge.                 *)
(***************************************************************************)
EXTENDS Exchange, TLAPS, SequenceTheorems

Steps == {"idle", "connect", "subscribe", "write1", "write2", "wait", "check", "accept"}
Pairs == Nat \X Nat

(* The variables have their types. *)
Typed ==
  /\ cur \in 0 .. MaxAttempts /\ step \in Steps /\ (step # "idle" => cur # 0)
  /\ late \subseteq 1 .. cur /\ link \in {"down", "up", "subscribed"}
  /\ parts \in Pairs /\ result \in Pairs /\ phoneParts \in Pairs
  /\ guard \in [last : Nat, used : SUBSET (1 .. cur)]
  /\ queue \in Seq(Pairs)
  /\ job \in [at : {"idle", "number", "signed", "send"}, n : 0 .. cur, sent : 0 .. 1]
  /\ (job.at # "idle" => job.n # 0)
  /\ (job.at = "idle" => job = NoJob)
  /\ counter \in Nat /\ number \in [Attempts -> Nat]

(* What the phone has put together, or half together. *)
Halves ==
  /\ phoneParts = None \/ (step = "write2" /\ phoneParts = <<cur, 0>>)
  /\ step = "write2" /\ link = "subscribed" => phoneParts = <<cur, 0>>
  /\ \A i \in DOMAIN queue : queue[i][1] = queue[i][2] /\ queue[i][1] \in 1 .. cur

(* What the PC checks is whole, and what it accepts is of this challenge. *)
Answers ==
  /\ step \in {"check", "accept"} => Whole(result)
  /\ step = "accept" => result = <<cur, cur>>

(* What the phone has signed it signed in time, or it is out of date. *)
Known == {0} \cup prompt \cup late
Dated ==
  /\ job.at \in {"signed", "send"} => job.n \in Known
  /\ \A k \in 1 .. 2 : parts[k] \in Known /\ result[k] \in Known
  /\ step = "accept" => cur \in prompt

(* Counters only rise, but for a new code. *)
Counting ==
  /\ \A n \in Attempts : n > cur => number[n] = 0
  /\ scanned \/ guard.last <= counter
  /\ scanned \/ step = "idle" \/ number[cur] <= counter
  /\ step # "idle" => cur \notin guard.used

OfThis(pair) == pair[1] \in {0, cur} /\ pair[2] \in {0, cur}
Signed == job.at \in {"signed", "send"} \/ parts # None \/ result # None

(* A calm attempt has only its own things about. *)
Clean ==
  calm /\ step # "idle" =>
    /\ ~scanned /\ cur \notin late
    /\ \A i \in DOMAIN queue : queue[i][1] = cur
    /\ job.at = "idle" \/ job.n = cur
    /\ OfThis(parts) /\ OfThis(result)
    /\ Signed => number[cur] > guard.last

-----------------------------------------------------------------------------
(* Fragments and queues                                                    *)

(* Adding a part leaves two parts. *)
LEMMA AddedTyped ==
  ASSUME NEW have \in Pairs, NEW k \in 1 .. 2, NEW n \in Nat
  PROVE  /\ Added(have, k, n) \in Pairs
         /\ Added(have, k, n)[k] = IF have[k] = 0 THEN n ELSE have[k]
         /\ Added(have, k, n)[3 - k] = have[3 - k]
<1>1. CASE k = 1
  BY <1>1 DEF Added, Pairs
<1>2. CASE k = 2
  BY <1>2 DEF Added, Pairs
<1> QED
  BY <1>1, <1>2

(* A pair is its two parts. *)
LEMMA PairIs == \A p \in Pairs : p = <<p[1], p[2]>>
  BY DEF Pairs

(* The first part of a message, and the second. *)
LEMMA AddsUp ==
  ASSUME NEW n \in Nat
  PROVE  /\ Added(None, 1, n) = <<n, 0>>
         /\ Added(<<n, 0>>, 2, n) = <<n, n>>
  BY DEF Added, None

(* What is left of a queue was in it. *)
LEMMA TailOf ==
  ASSUME NEW q \in Seq(Pairs), q # <<>>
  PROVE  /\ Tail(q) \in Seq(Pairs) /\ Head(q) = q[1] /\ 1 \in DOMAIN q /\ Head(q) \in Pairs
         /\ \A i \in DOMAIN Tail(q) : i + 1 \in DOMAIN q /\ Tail(q)[i] = q[i + 1]
  BY HeadTailProperties

(* What is in a longer queue was in it, or is the new message. *)
LEMMA AppendOf ==
  ASSUME NEW q \in Seq(Pairs), NEW m \in Pairs
  PROVE  /\ Append(q, m) \in Seq(Pairs)
         /\ \A i \in DOMAIN Append(q, m) :
              (i \in DOMAIN q /\ Append(q, m)[i] = q[i]) \/ Append(q, m)[i] = m
  BY AppendProperties
-----------------------------------------------------------------------------
(* Types                                                                   *)

(* Reading a fragment keeps what the phone has well typed. *)
LEMMA ReceivesTyped ==
  ASSUME Typed, NEW k \in 1 .. 2, Receives(k)
  PROVE  phoneParts' \in Pairs /\ queue' \in Seq(Pairs)
<1> DEFINE have == Added(phoneParts, k, cur)
<1>1. have \in Pairs
  <2>1. phoneParts \in Pairs /\ cur \in Nat
    BY AttemptsAreCounted DEF Typed
  <2> QED
    BY <2>1, AddedTyped
<1>2. None \in Pairs
  BY DEF None, Pairs
<1>3. queue' = (IF Whole(have) THEN Append(queue, have) ELSE queue)
        /\ phoneParts' = (IF Whole(have) THEN None ELSE have)
  BY DEF Receives
<1>4. Append(queue, have) \in Seq(Pairs)
  BY <1>1, AppendOf DEF Typed
<1> QED
  BY <1>1, <1>2, <1>3, <1>4 DEF Typed

(* Every step keeps the types. *)
LEMMA TypedStep == Typed /\ Answers /\ Halves /\ [Next]_vars => Typed'
<1> SUFFICES ASSUME Typed, Answers, Halves, [Next]_vars PROVE Typed'
  OBVIOUS
<1> USE AttemptsAreCounted DEF Typed, PhoneVars, PCVars, Steps, Attempts
<1>0. None \in Pairs
  BY DEF None, Pairs
<1>1. CASE StartAttempt
  BY <1>0, <1>1 DEF StartAttempt
<1>2. CASE Connect \/ EnableNotifications
  BY <1>2 DEF Connect, EnableNotifications
<1>3. ASSUME NEW k \in 1 .. 2, WriteFragment(k) PROVE Typed'
  <2>1. phoneParts' \in Pairs /\ queue' \in Seq(Pairs)
    BY <1>3, ReceivesTyped DEF WriteFragment
  <2>2. step' \in {"write2", "wait"} /\ cur # 0
    <3>1. CASE k = 1
      BY <1>3, <3>1 DEF WriteFragment
    <3>2. CASE k = 2
      BY <1>3, <3>2 DEF WriteFragment
    <3> QED
      BY <3>1, <3>2
  <2> QED
    BY <1>3, <2>1, <2>2 DEF WriteFragment
<1>4. CASE TakeAnswer \/ GiveUp
  BY <1>0, <1>4 DEF TakeAnswer, GiveUp, HangUp
<1>5. CASE CheckAnswer
  BY <1>5 DEF CheckAnswer, Ends
<1>6. CASE Accept
  <2>1. result[1] = cur /\ cur \in 1 .. MaxAttempts /\ number[cur] \in Nat
    BY <1>6 DEF Accept, Answers
  <2>2. guard' \in [last : Nat, used : SUBSET (1 .. cur)]
    BY <1>6, <2>1 DEF Accept
  <2> QED
    BY <1>6, <2>2 DEF Accept, Ends
<1>7. CASE ServiceRestarts \/ Revoke
  <2>1. guard' \in [last : Nat, used : SUBSET (1 .. cur)]
    BY <1>7 DEF ServiceRestarts, Revoke, FreshGuard
  <2>2. CASE ServiceRestarts
    BY <1>0, <2>1, <2>2 DEF ServiceRestarts, HangUp
  <2>3. CASE Revoke
    BY <2>1, <2>3 DEF Revoke
  <2> QED
    BY <1>7, <2>2, <2>3
<1>8. CASE WorkerTakes
  <2>1. queue' \in Seq(Pairs) /\ Head(queue)[1] \in 1 .. cur
    BY <1>8, TailOf DEF WorkerTakes, Halves
  <2> DEFINE h == Head(queue)[1]
  <2> HIDE DEF h
  <2>5. job' = NoJob \/ job' = [at |-> "number", n |-> h, sent |-> 0]
    BY <1>8 DEF WorkerTakes, NoJob, h
  <2>6. h \in 1 .. cur
    BY <2>1 DEF h
  <2>2. job' \in [at : {"idle", "number", "signed", "send"}, n : 0 .. cur, sent : 0 .. 1]
    BY <2>5, <2>6 DEF NoJob
  <2>3. job'.at # "idle" => job'.n # 0
    BY <2>5, <2>6 DEF NoJob
  <2>4. job'.at = "idle" => job' = NoJob
    BY <1>8 DEF WorkerTakes, NoJob
  <2> QED
    BY <1>8, <2>1, <2>2, <2>3, <2>4 DEF WorkerTakes
<1>9. CASE NextCounter
  <2>1. number' \in [Attempts -> Nat]
    BY <1>9 DEF NextCounter
  <2>2. /\ job' \in [at : {"idle", "number", "signed", "send"}, n : 0 .. cur, sent : 0 .. 1]
        /\ job'.at = "signed" /\ job'.n # 0
    BY <1>9 DEF NextCounter
  <2> QED
    BY <1>9, <2>1, <2>2 DEF NextCounter
<1>10. CASE BeginAnswer
  BY <1>10 DEF BeginAnswer, NoJob
<1>11. CASE SendFragment
  <2>1. job.sent + 1 \in 1 .. 2 /\ job.n \in Nat
    BY <1>11 DEF SendFragment
  <2> DEFINE have == Added(parts, job.sent + 1, job.n)
  <2>4. have \in Pairs
    BY <2>1, AddedTyped
  <2>2. parts' \in Pairs /\ result' \in Pairs
    BY <1>0, <1>11, <2>4 DEF SendFragment
  <2>3. /\ job' \in [at : {"idle", "number", "signed", "send"}, n : 0 .. cur, sent : 0 .. 1]
        /\ job'.at # "idle" => job'.n # 0
        /\ job'.at = "idle" => job' = NoJob
    BY <1>11, <2>1 DEF SendFragment, NoJob
  <2> QED
    BY <1>11, <2>2, <2>3 DEF SendFragment
<1>12. CASE PhoneRestarts
  BY <1>0, <1>12 DEF PhoneRestarts, NoJob, Disk
<1>13. CASE PhoneScans \/ PairingDone
  <2>1. CASE PhoneScans
    BY <2>1 DEF PhoneScans
  <2>2. CASE PairingDone
    <3>1. guard' \in [last : Nat, used : SUBSET (1 .. cur)]
      BY <2>2 DEF PairingDone, FreshGuard
    <3> QED
      BY <2>2, <3>1 DEF PairingDone
  <2> QED
    BY <1>13, <2>1, <2>2
<1>14. ASSUME NEW n \in Attempts, Expire(n) PROVE Typed'
  BY <1>14 DEF Expire
<1>15. CASE UNCHANGED vars
  BY <1>15 DEF vars
<1> QED
  BY <1>1, <1>2, <1>3, <1>4, <1>5, <1>6, <1>7, <1>8, <1>9, <1>10, <1>11, <1>12, <1>13, <1>14, <1>15 DEF Next

-----------------------------------------------------------------------------
(* What the phone puts together                                            *)

(* The first fragment is kept, the second makes the message whole. *)
LEMMA ReceivesHalves ==
  ASSUME Typed, Halves, NEW k \in 1 .. 2, WriteFragment(k)
  PROVE  \/ k = 1 /\ phoneParts' = <<cur, 0>> /\ queue' = queue
         \/ k = 2 /\ phoneParts' = None /\ queue' = Append(queue, <<cur, cur>>)
<1>0. cur \in Nat /\ cur # 0
  <2>1. CASE k = 1
    BY <2>1, AttemptsAreCounted DEF Typed, WriteFragment
  <2>2. CASE k = 2
    BY <2>2, AttemptsAreCounted DEF Typed, WriteFragment
  <2> QED
    BY <2>1, <2>2
<1>1. CASE k = 1
  <2>1. phoneParts = None
    BY <1>1 DEF Halves, WriteFragment
  <2>2. Added(phoneParts, k, cur) = <<cur, 0>>
    BY <1>0, <1>1, <2>1, AddsUp
  <2> QED
    BY <1>1, <2>2 DEF WriteFragment, Receives, Whole
<1>2. CASE k = 2
  <2>1. phoneParts = <<cur, 0>>
    BY <1>2 DEF Halves, WriteFragment
  <2>2. Added(phoneParts, k, cur) = <<cur, cur>>
    BY <1>0, <1>2, <2>1, AddsUp
  <2> QED
    BY <1>0, <1>2, <2>2 DEF WriteFragment, Receives, Whole
<1> QED
  BY <1>1, <1>2

(* A step that adds nothing to the queue adds nothing mixed. *)
LEMMA QueueKept ==
  ASSUME Typed, Halves, cur' \in Nat, cur' >= cur,
         UNCHANGED queue \/ queue' = <<>> \/ (queue # <<>> /\ queue' = Tail(queue))
  PROVE  \A i \in DOMAIN queue' : queue'[i][1] = queue'[i][2] /\ queue'[i][1] \in 1 .. cur'
<1>1. CASE UNCHANGED queue
  BY <1>1, AttemptsAreCounted DEF Typed, Halves
<1>2. CASE queue' = <<>>
  BY <1>2
<1>3. CASE queue # <<>> /\ queue' = Tail(queue)
  BY <1>3, TailOf, AttemptsAreCounted DEF Typed, Halves
<1> QED
  BY <1>1, <1>2, <1>3

(* Every step leaves the phone with halves of this challenge only. *)
LEMMA HalvesStep == Typed /\ Halves /\ [Next]_vars => Halves'
<1> SUFFICES ASSUME Typed, Halves, [Next]_vars PROVE Halves'
  OBVIOUS
<1> USE DEF PhoneVars, PCVars
<1> DEFINE Quiet(i) == queue'[i][1] = queue'[i][2] /\ queue'[i][1] \in 1 .. cur'
<1>0. cur \in Nat /\ cur + 1 \in Nat /\ cur + 1 >= cur /\ cur >= cur
  BY AttemptsAreCounted DEF Typed
<1>1. CASE StartAttempt
  <2>1. \A i \in DOMAIN queue' : Quiet(i)
    BY <1>0, <1>1, QueueKept DEF StartAttempt
  <2> QED
    BY <1>1, <2>1 DEF StartAttempt, Halves
<1>2. CASE Connect \/ EnableNotifications
  BY <1>2 DEF Connect, EnableNotifications, Halves
<1>3. ASSUME NEW k \in 1 .. 2, WriteFragment(k) PROVE Halves'
  <2>1. CASE k = 1
    BY <1>3, <2>1, ReceivesHalves DEF WriteFragment, Halves
  <2>2. CASE k = 2
    <3>1. phoneParts' = None /\ queue' = Append(queue, <<cur, cur>>) /\ step' = "wait" /\ cur' = cur
      BY <1>3, <2>2, ReceivesHalves DEF WriteFragment
    <3>2. cur # 0
      BY <1>3, <2>2 DEF WriteFragment, Typed
    <3>3. <<cur, cur>> \in Pairs
      BY <1>0 DEF Pairs
    <3>4. \A i \in DOMAIN queue' : (i \in DOMAIN queue /\ queue'[i] = queue[i]) \/ queue'[i] = <<cur, cur>>
      BY <3>1, <3>3, AppendOf DEF Typed
    <3>5. \A i \in DOMAIN queue' : Quiet(i)
      BY <1>0, <3>1, <3>2, <3>4 DEF Halves
    <3> QED
      BY <3>1, <3>5 DEF Halves
  <2> QED
    BY <2>1, <2>2
<1>4. CASE TakeAnswer \/ GiveUp \/ ServiceRestarts
  BY <1>4 DEF TakeAnswer, GiveUp, ServiceRestarts, HangUp, Halves
<1>5. CASE CheckAnswer \/ Accept
  BY <1>5 DEF CheckAnswer, Accept, Ends, Halves
<1>6. CASE Revoke \/ NextCounter \/ BeginAnswer \/ SendFragment
  BY <1>6 DEF Revoke, NextCounter, BeginAnswer, SendFragment, Halves
<1>7. CASE WorkerTakes
  <2>1. \A i \in DOMAIN queue' : Quiet(i)
    BY <1>0, <1>7, QueueKept DEF WorkerTakes
  <2> QED
    BY <1>7, <2>1 DEF WorkerTakes, Halves
<1>8. CASE PhoneRestarts
  BY <1>8 DEF PhoneRestarts, Halves
<1>9. CASE PhoneScans \/ PairingDone
  BY <1>9 DEF PhoneScans, PairingDone, Halves
<1>10. ASSUME NEW n \in Attempts, Expire(n) PROVE Halves'
  BY <1>10 DEF Expire, Halves
<1>11. CASE UNCHANGED vars
  BY <1>11 DEF vars, Halves
<1> QED
  BY <1>1, <1>2, <1>3, <1>4, <1>5, <1>6, <1>7, <1>8, <1>9, <1>10, <1>11 DEF Next

-----------------------------------------------------------------------------
(* What the PC takes                                                       *)

(* Every step leaves what is checked whole and what is accepted matched. *)
LEMMA AnswersStep == Typed /\ Answers /\ [Next]_vars => Answers'
<1> SUFFICES ASSUME Typed, Answers, [Next]_vars PROVE Answers'
  OBVIOUS
<1> USE DEF PhoneVars, PCVars, Answers
<1>1. CASE StartAttempt \/ Connect \/ EnableNotifications
  BY <1>1 DEF StartAttempt, Connect, EnableNotifications
<1>2. ASSUME NEW k \in 1 .. 2, WriteFragment(k) PROVE Answers'
  <2>1. CASE k = 1
    BY <1>2, <2>1 DEF WriteFragment
  <2>2. CASE k = 2
    BY <1>2, <2>2 DEF WriteFragment
  <2> QED
    BY <2>1, <2>2
<1>3. CASE TakeAnswer \/ GiveUp \/ ServiceRestarts
  BY <1>3 DEF TakeAnswer, GiveUp, ServiceRestarts
<1>4. CASE CheckAnswer
  <2>1. result = <<result[1], result[2]>>
    BY PairIs DEF Typed
  <2>2. Whole(result)'
    BY <1>4 DEF CheckAnswer, Ends
  <2>3. step' = "accept" => result[1] = cur /\ result[2] = cur
    BY <1>4 DEF CheckAnswer, Ends, Matches
  <2>4. UNCHANGED <<cur, result>>
    BY <1>4 DEF CheckAnswer, Ends
  <2> QED
    BY <2>1, <2>2, <2>3, <2>4
<1>5. CASE Accept
  BY <1>5 DEF Accept, Ends
<1>6. CASE Revoke \/ NextCounter \/ BeginAnswer \/ WorkerTakes
  BY <1>6 DEF Revoke, NextCounter, BeginAnswer, WorkerTakes
<1>7. CASE SendFragment
  <2>1. Whole(result) => UNCHANGED result
    BY <1>7 DEF SendFragment
  <2> QED
    BY <1>7, <2>1 DEF SendFragment
<1>8. CASE PhoneRestarts \/ PhoneScans \/ PairingDone
  BY <1>8 DEF PhoneRestarts, PhoneScans, PairingDone
<1>9. ASSUME NEW n \in Attempts, Expire(n) PROVE Answers'
  BY <1>9 DEF Expire
<1>10. CASE UNCHANGED vars
  BY <1>10 DEF vars
<1> QED
  BY <1>1, <1>2, <1>3, <1>4, <1>5, <1>6, <1>7, <1>8, <1>9, <1>10 DEF Next

(* A step after which nothing more is known, and nothing new about, keeps  *)
(* what is about dated.                                                    *)
LEMMA DatedKept ==
  ASSUME Dated, prompt \subseteq prompt', late \subseteq late',
         UNCHANGED <<parts, result>> \/ (parts' = None /\ result' = None),
         UNCHANGED job \/ job'.at \notin {"signed", "send"},
         step' = "accept" => step = "accept" /\ UNCHANGED cur
  PROVE  Dated'
<1>1. Known \subseteq Known'
  BY DEF Known
<1>2. \A k \in 1 .. 2 : None[k] = 0
  BY DEF None
<1>3. \A k \in 1 .. 2 : parts'[k] \in Known' /\ result'[k] \in Known'
  BY <1>1, <1>2 DEF Dated, Known
<1> QED
  BY <1>1, <1>3 DEF Dated

(* Every step keeps what is about dated: the phone signs in time or too    *)
(* late, and what is too late does not pass the check.                     *)
LEMMA DatedStep == Typed /\ Answers /\ Dated /\ [Next]_vars => Dated'
<1> SUFFICES ASSUME Typed, Answers, Dated, [Next]_vars PROVE Dated'
  OBVIOUS
<1> USE DEF PhoneVars, PCVars
<1>1. CASE StartAttempt \/ Connect \/ EnableNotifications
  BY <1>1, DatedKept DEF StartAttempt, Connect, EnableNotifications
<1>2. ASSUME NEW k \in 1 .. 2, WriteFragment(k) PROVE Dated'
  <2>1. step' # "accept"
    <3>1. CASE k = 1
      BY <1>2, <3>1 DEF WriteFragment
    <3>2. CASE k = 2
      BY <1>2, <3>2 DEF WriteFragment
    <3> QED
      BY <3>1, <3>2
  <2> QED
    BY <1>2, <2>1, DatedKept DEF WriteFragment
<1>3. CASE TakeAnswer \/ GiveUp \/ ServiceRestarts
  BY <1>3, DatedKept DEF TakeAnswer, GiveUp, ServiceRestarts, HangUp
<1>4. CASE CheckAnswer
  <2>1. step # "accept" /\ UNCHANGED <<cur, late, parts, result, job, prompt>>
    BY <1>4 DEF CheckAnswer, Ends
  <2>2. step' = "accept" => cur \in prompt
    <3> SUFFICES ASSUME step' = "accept" PROVE cur \in prompt
      OBVIOUS
    <3>1. result[1] = cur /\ cur \notin late /\ cur # 0
      BY <1>4 DEF CheckAnswer, Ends, Matches, Typed
    <3> QED
      BY <3>1 DEF Dated, Known
  <2> QED
    BY <2>1, <2>2 DEF Dated, Known
<1>5. CASE Accept
  BY <1>5, DatedKept DEF Accept, Ends
<1>6. CASE Revoke \/ WorkerTakes
  <2>1. job' = job \/ job'.at \notin {"signed", "send"}
    BY <1>6 DEF Revoke, WorkerTakes, NoJob
  <2> QED
    BY <1>6, <2>1, DatedKept DEF Revoke, WorkerTakes
<1>7. CASE NextCounter
  <2>1. UNCHANGED <<cur, step, late, parts, result>> /\ prompt' = prompt \cup ({job.n} \ late)
    BY <1>7 DEF NextCounter
  <2>2. job'.n = job.n
    BY <1>7 DEF NextCounter, Typed
  <2>3. job.n \in Known' /\ Known \subseteq Known'
    BY <2>1 DEF Known
  <2>4. step' = "accept" => cur' \in prompt'
    BY <2>1 DEF Dated
  <2>5. \A k \in 1 .. 2 : parts'[k] \in Known' /\ result'[k] \in Known'
    BY <2>1, <2>3 DEF Dated
  <2> QED
    BY <2>2, <2>3, <2>4, <2>5 DEF Dated
<1>8. CASE BeginAnswer
  <2>1. UNCHANGED <<cur, step, late, parts, result, prompt>>
    BY <1>8 DEF BeginAnswer
  <2>2. job'.at \in {"signed", "send"} => job'.n = job.n /\ job.at = "signed"
    BY <1>8 DEF BeginAnswer, Typed, NoJob
  <2> QED
    BY <2>1, <2>2 DEF Dated, Known
<1>9. CASE SendFragment
  <2>1. UNCHANGED <<cur, step, late, prompt>> /\ job.at = "send" /\ job.n \in Known
    BY <1>9 DEF SendFragment, Dated
  <2>2. job'.at \in {"signed", "send"} => job'.n = job.n
    BY <1>9 DEF SendFragment, Typed, NoJob
  <2> DEFINE have == Added(parts, job.sent + 1, job.n)
  <2>3. \A k \in 1 .. 2 : have[k] = parts[k] \/ have[k] = job.n
    BY DEF Added, Typed, Pairs
  <2>4. \A k \in 1 .. 2 : have[k] \in Known
    BY <2>1, <2>3 DEF Dated
  <2> HIDE DEF have
  <2>5. (parts' = parts \/ parts' = None \/ parts' = have) /\ (result' = result \/ result' = have)
    BY <1>9 DEF SendFragment, have
  <2>6. \A k \in 1 .. 2 : None[k] \in Known
    BY DEF None, Known
  <2>7. \A k \in 1 .. 2 : parts'[k] \in Known /\ result'[k] \in Known
    BY <2>4, <2>5, <2>6 DEF Dated
  <2>8. Known' = Known
    BY <2>1 DEF Known
  <2> QED
    BY <2>1, <2>2, <2>7, <2>8 DEF Dated
<1>10. CASE PhoneRestarts
  <2>1. job'.at \notin {"signed", "send"}
    BY <1>10 DEF PhoneRestarts, NoJob
  <2> QED
    BY <1>10, <2>1, DatedKept DEF PhoneRestarts
<1>11. CASE PhoneScans \/ PairingDone
  BY <1>11, DatedKept DEF PhoneScans, PairingDone
<1>12. ASSUME NEW n \in Attempts, Expire(n) PROVE Dated'
  BY <1>12, DatedKept DEF Expire
<1>13. CASE UNCHANGED vars
  BY <1>13, DatedKept DEF vars
<1> QED
  BY <1>1, <1>2, <1>3, <1>4, <1>5, <1>6, <1>7, <1>8, <1>9, <1>10, <1>11, <1>12, <1>13 DEF Next

-----------------------------------------------------------------------------
(* Counters                                                                *)

(* Every step keeps what the PC remembers below what the phone counted. *)
LEMMA CountingStep == Typed /\ Answers /\ Counting /\ [Next]_vars => Counting'
<1> SUFFICES ASSUME Typed, Answers, Counting, [Next]_vars PROVE Counting'
  OBVIOUS
<1> USE DEF PhoneVars, PCVars, Counting
<1>0. /\ cur \in Nat /\ MaxAttempts \in Nat /\ cur <= MaxAttempts
      /\ counter \in Nat /\ number \in [Attempts -> Nat] /\ guard.last \in Nat
      /\ Attempts = 1 .. MaxAttempts /\ guard.used \subseteq 1 .. cur
  BY AttemptsAreCounted DEF Typed, Attempts
<1>1. CASE StartAttempt
  <2>1. cur' = cur + 1 /\ cur' \in Attempts /\ UNCHANGED <<guard, counter, number, scanned>>
    BY <1>0, <1>1 DEF StartAttempt
  <2>2. number'[cur'] = 0 /\ cur' \notin guard'.used
    BY <1>0, <2>1
  <2> QED
    BY <1>0, <2>1, <2>2
<1>2. CASE Connect \/ EnableNotifications
  BY <1>2 DEF Connect, EnableNotifications
<1>3. ASSUME NEW k \in 1 .. 2, WriteFragment(k) PROVE Counting'
  <2>1. CASE k = 1
    BY <1>3, <2>1 DEF WriteFragment
  <2>2. CASE k = 2
    BY <1>3, <2>2 DEF WriteFragment
  <2> QED
    BY <2>1, <2>2
<1>4. CASE TakeAnswer \/ GiveUp
  BY <1>4 DEF TakeAnswer, GiveUp
<1>5. CASE CheckAnswer
  BY <1>5 DEF CheckAnswer, Ends
<1>6. CASE Accept
  <2>1. result[1] = cur /\ UNCHANGED <<cur, counter, number, scanned>> /\ step' = "idle"
    BY <1>6 DEF Accept, Ends, Answers
  <2>2. guard'.last = number[cur] \/ guard'.last = guard.last
    BY <1>6, <2>1 DEF Accept
  <2>3. step # "idle"
    BY <1>6 DEF Accept
  <2> QED
    BY <2>1, <2>2, <2>3
<1>7. CASE ServiceRestarts \/ Revoke \/ PairingDone
  <2>1. guard'.last = 0 /\ guard'.used = {} /\ UNCHANGED <<cur, counter, number>>
    BY <1>7 DEF ServiceRestarts, Revoke, PairingDone, FreshGuard
  <2>2. scanned' \/ step' = "idle" \/ number[cur] <= counter
    BY <1>7 DEF ServiceRestarts, Revoke, PairingDone
  <2> QED
    BY <1>0, <2>1, <2>2
<1>8. CASE NextCounter
  <2>1. counter' = counter + 1 /\ job.n \in 1 .. cur /\ UNCHANGED <<cur, step, guard, scanned>>
    BY <1>0, <1>8 DEF NextCounter, Typed
  <2>2. \A n \in Attempts : number'[n] = IF n = job.n THEN counter + 1 ELSE number[n]
    BY <1>0, <1>8 DEF NextCounter
  <2>3. \A n \in Attempts : n > cur => number'[n] = 0
    BY <1>0, <2>1, <2>2
  <2>4. scanned' \/ guard'.last <= counter'
    BY <1>0, <2>1
  <2>5. scanned' \/ step' = "idle" \/ number'[cur'] <= counter'
    <3>1. CASE cur \in Attempts
      BY <1>0, <2>1, <2>2, <3>1
    <3>2. CASE cur \notin Attempts
      BY <1>0, <2>1, <3>2 DEF Typed
    <3> QED
      BY <3>1, <3>2
  <2> QED
    BY <2>1, <2>3, <2>4, <2>5
<1>9. CASE WorkerTakes \/ BeginAnswer \/ SendFragment
  BY <1>9 DEF WorkerTakes, BeginAnswer, SendFragment
<1>10. CASE PhoneRestarts
  BY <1>10 DEF PhoneRestarts, Disk
<1>11. CASE PhoneScans
  BY <1>11 DEF PhoneScans
<1>12. ASSUME NEW n \in Attempts, Expire(n) PROVE Counting'
  BY <1>12 DEF Expire
<1>13. CASE UNCHANGED vars
  BY <1>13 DEF vars
<1> QED
  BY <1>1, <1>2, <1>3, <1>4, <1>5, <1>6, <1>7, <1>8, <1>9, <1>10, <1>11, <1>12, <1>13 DEF Next

-----------------------------------------------------------------------------
(* A calm attempt                                                          *)

(* A step that brings nothing, and leaves the attempt, keeps it clean. *)
LEMMA CleanKept ==
  ASSUME Clean, UNCHANGED <<cur, parts, result, number, scanned, late>>,
         calm' => calm, step' # "idle" => step # "idle",
         guard'.last <= guard.last \/ UNCHANGED guard, guard.last \in Nat, guard'.last \in Nat,
         number \in [Attempts -> Nat], step # "idle" => cur \in Attempts,
         \A i \in DOMAIN queue' : i \in DOMAIN queue /\ queue'[i] = queue[i],
         UNCHANGED job \/ job'.at = "idle"
  PROVE  Clean'
<1> SUFFICES ASSUME calm', step' # "idle" PROVE Clean'
  BY DEF Clean
<1>1. calm /\ step # "idle"
  OBVIOUS
<1>2. ~scanned' /\ cur' \notin late' /\ OfThis(parts)' /\ OfThis(result)'
  BY <1>1 DEF Clean, OfThis
<1>3. \A i \in DOMAIN queue' : queue'[i][1] = cur'
  BY <1>1 DEF Clean
<1>4. job'.at = "idle" \/ job'.n = cur'
  BY <1>1 DEF Clean
<1>5. Signed' => Signed
  BY DEF Signed
<1>6. Signed => number[cur] > guard'.last
  BY <1>1 DEF Clean
<1> QED
  BY <1>2, <1>3, <1>4, <1>5, <1>6 DEF Clean

(* A fragment of this challenge leaves only what is of this challenge. *)
LEMMA AddedOfThis ==
  ASSUME Typed, OfThis(parts), NEW k \in 1 .. 2
  PROVE  OfThis(Added(parts, k, cur))
<1> DEFINE have == Added(parts, k, cur)
<1>1. cur \in Nat /\ parts \in Pairs
  BY AttemptsAreCounted DEF Typed
<1>2. have[k] = (IF parts[k] = 0 THEN cur ELSE parts[k]) /\ have[3 - k] = parts[3 - k]
  BY <1>1, AddedTyped
<1> HIDE DEF have
<1>3. k = 1 => OfThis(have)
  BY <1>2 DEF OfThis
<1>4. k = 2 => OfThis(have)
  BY <1>2 DEF OfThis
<1>5. OfThis(have)
  BY <1>3, <1>4
<1> QED
  BY <1>5 DEF have

(* Every step leaves a calm attempt with its own things only. *)
LEMMA CleanStep == Typed /\ Halves /\ Answers /\ Counting /\ Clean /\ [Next]_vars => Clean'
<1> SUFFICES ASSUME Typed, Halves, Answers, Counting, Clean, [Next]_vars PROVE Clean'
  OBVIOUS
<1> USE DEF PhoneVars, PCVars
<1>0. /\ cur \in Nat /\ MaxAttempts \in Nat /\ cur <= MaxAttempts
      /\ counter \in Nat /\ number \in [Attempts -> Nat] /\ guard.last \in Nat
      /\ Attempts = 1 .. MaxAttempts /\ (step # "idle" => cur \in Attempts)
      /\ 0 \in Nat /\ 0 <= guard.last
  BY AttemptsAreCounted DEF Typed, Attempts
<1>00. job.at = "idle" <=> job = NoJob
  BY DEF Typed, NoJob
<1>1. CASE StartAttempt
  <2> SUFFICES ASSUME calm' PROVE Clean'
    BY DEF Clean
  <2>1. queue' = <<>> /\ job' = NoJob /\ parts' = None /\ result' = None /\ ~scanned'
    BY <1>1 DEF StartAttempt
  <2>2. cur' \notin late'
    BY <1>0, <1>1 DEF StartAttempt, Typed
  <2>3. ~Signed' /\ job'.at = "idle"
    BY <2>1 DEF Signed, NoJob
  <2>4. OfThis(parts)' /\ OfThis(result)'
    BY <2>1 DEF OfThis, None
  <2> QED
    BY <2>1, <2>2, <2>3, <2>4 DEF Clean
<1>2. CASE Connect \/ EnableNotifications
  BY <1>0, <1>2, CleanKept DEF Connect, EnableNotifications
<1>3. ASSUME NEW k \in 1 .. 2, WriteFragment(k) PROVE Clean'
  <2>1. CASE k = 1
    <3>1. queue' = queue /\ step # "idle"
      BY <1>3, <2>1, ReceivesHalves DEF WriteFragment
    <3> QED
      BY <1>0, <1>3, <3>1, CleanKept DEF WriteFragment
  <2>2. CASE k = 2
    <3>1. queue' = Append(queue, <<cur, cur>>) /\ step # "idle"
      BY <1>3, <2>2, ReceivesHalves DEF WriteFragment
    <3>2. <<cur, cur>> \in Pairs
      BY <1>0 DEF Pairs
    <3>3. \A i \in DOMAIN queue' : (i \in DOMAIN queue /\ queue'[i] = queue[i]) \/ queue'[i] = <<cur, cur>>
      BY <3>1, <3>2, AppendOf DEF Typed
    <3>4. calm => \A i \in DOMAIN queue' : queue'[i][1] = cur
      BY <3>1, <3>3 DEF Clean
    <3>5. UNCHANGED <<cur, parts, result, number, scanned, late, guard, job, calm>>
      BY <1>3 DEF WriteFragment
    <3> QED
      BY <3>1, <3>4, <3>5 DEF Clean, OfThis, Signed
  <2> QED
    BY <2>1, <2>2
<1>4. CASE TakeAnswer \/ GiveUp
  BY <1>0, <1>4, CleanKept DEF TakeAnswer, GiveUp
<1>5. CASE CheckAnswer
  BY <1>0, <1>5, CleanKept DEF CheckAnswer, Ends
<1>6. CASE Accept \/ ServiceRestarts
  <2>1. step' = "idle"
    BY <1>6 DEF Accept, Ends, ServiceRestarts
  <2> QED
    BY <2>1 DEF Clean
<1>7. CASE Revoke
  BY <1>0, <1>7, CleanKept DEF Revoke, FreshGuard
<1>8. CASE WorkerTakes
  <2> SUFFICES ASSUME calm', step' # "idle" PROVE Clean'
    BY DEF Clean
  <2>1. UNCHANGED <<cur, parts, result, number, scanned, late, guard, calm, step>> /\ queue' = Tail(queue)
    BY <1>8 DEF WorkerTakes
  <2>2. /\ \A i \in DOMAIN queue' : i + 1 \in DOMAIN queue /\ queue'[i] = queue[i + 1]
        /\ Head(queue) = queue[1] /\ 1 \in DOMAIN queue
    BY <1>8, TailOf DEF WorkerTakes, Typed
  <2>3. Head(queue)[1] = cur /\ \A i \in DOMAIN queue' : queue'[i][1] = cur
    BY <2>1, <2>2 DEF Clean
  <2> DEFINE h == Head(queue)[1]
  <2> HIDE DEF h
  <2>4. job' = NoJob \/ job' = [at |-> "number", n |-> h, sent |-> 0]
    BY <1>8 DEF WorkerTakes, NoJob, h
  <2>5. job'.at \in {"idle", "number"} /\ (job'.at = "idle" \/ job'.n = cur)
    BY <2>3, <2>4 DEF NoJob, h
  <2>6. Signed' => Signed
    BY <2>1, <2>5 DEF Signed
  <2>7. OfThis(parts)' /\ OfThis(result)'
    BY <2>1 DEF Clean, OfThis
  <2> QED
    BY <2>1, <2>3, <2>5, <2>6, <2>7 DEF Clean
<1>9. CASE NextCounter
  <2> SUFFICES ASSUME calm', step' # "idle" PROVE Clean'
    BY DEF Clean
  <2>1. UNCHANGED <<cur, parts, result, queue, scanned, late, guard, calm, step>>
    BY <1>9 DEF NextCounter
  <2>2. job.n = cur /\ ~scanned /\ cur \in Attempts
    BY <1>0, <1>9, <2>1 DEF Clean, NextCounter
  <2>3. number'[cur] = counter + 1 /\ job'.n = cur
    BY <1>0, <1>9, <2>2 DEF NextCounter, Typed
  <2>4. number'[cur'] > guard'.last
    BY <1>0, <2>1, <2>2, <2>3 DEF Counting
  <2>5. OfThis(parts)' /\ OfThis(result)'
    BY <2>1 DEF Clean, OfThis
  <2> QED
    BY <2>1, <2>3, <2>4, <2>5 DEF Clean
<1>10. CASE BeginAnswer
  <2>1. UNCHANGED <<cur, parts, result, number, queue, scanned, late, guard, calm, step>>
    BY <1>10 DEF BeginAnswer
  <2>2. job.at = "signed" /\ ((job'.at = "send" /\ job'.n = job.n) \/ job'.at = "idle")
    BY <1>10 DEF BeginAnswer, Typed, NoJob
  <2>3. Signed
    BY <2>2 DEF Signed
  <2> QED
    BY <2>1, <2>2, <2>3 DEF Clean, OfThis
<1>11. CASE SendFragment
  <2> SUFFICES ASSUME calm', step' # "idle" PROVE Clean'
    BY DEF Clean
  <2>1. UNCHANGED <<cur, number, queue, scanned, late, guard, calm, step>>
    BY <1>11 DEF SendFragment
  <2>2. job.at = "send" /\ job.n = cur /\ Signed
    BY <1>11, <2>1 DEF SendFragment, Clean, Signed
  <2>3. job.sent + 1 \in 1 .. 2
    BY DEF Typed
  <2>4. job'.at = "idle" \/ job'.n = cur
    BY <1>11, <2>2 DEF SendFragment, Typed, NoJob
  <2> DEFINE have == Added(parts, job.sent + 1, cur)
  <2>5. OfThis(parts) /\ OfThis(result) /\ OfThis(None)
    BY <2>1 DEF Clean, OfThis, None
  <2>6. OfThis(have)
    BY <2>3, <2>5, AddedOfThis
  <2> HIDE DEF have
  <2>7. (parts' = parts \/ parts' = None \/ parts' = have) /\ (result' = result \/ result' = have)
    BY <1>11, <2>2 DEF SendFragment, have
  <2>8. OfThis(parts)' /\ OfThis(result)'
    BY <2>1, <2>5, <2>6, <2>7 DEF OfThis
  <2> QED
    BY <2>1, <2>2, <2>4, <2>8 DEF Clean
<1>12. CASE PhoneRestarts
  <2>1. UNCHANGED <<cur, parts, result, number, scanned, late, guard, step>>
    BY <1>12 DEF PhoneRestarts
  <2>2. queue' = <<>> /\ job'.at = "idle" /\ (calm' => calm)
    BY <1>12 DEF PhoneRestarts, NoJob
  <2>3. Signed' => Signed
    BY <2>1, <2>2 DEF Signed
  <2> QED
    BY <2>1, <2>2, <2>3 DEF Clean, OfThis
<1>13. CASE PhoneScans
  BY <1>13 DEF PhoneScans, Clean
<1>14. CASE PairingDone
  BY <1>14 DEF PairingDone, Clean
<1>15. ASSUME NEW n \in Attempts, Expire(n) PROVE Clean'
  <2>1. calm' /\ step' # "idle" => calm /\ step # "idle" /\ n # cur
    BY <1>15 DEF Expire
  <2>2. UNCHANGED <<cur, parts, result, number, queue, scanned, guard, job>> /\ late' = late \cup {n}
    BY <1>15 DEF Expire
  <2> QED
    BY <2>1, <2>2 DEF Clean, OfThis, Signed
<1>16. CASE UNCHANGED vars
  BY <1>16 DEF vars, Clean, OfThis, Signed
<1> QED
  BY <1>1, <1>2, <1>3, <1>4, <1>5, <1>6, <1>7, <1>8, <1>9, <1>10, <1>11, <1>12, <1>13, <1>14, <1>15, <1>16 DEF Next

-----------------------------------------------------------------------------
(* What follows                                                            *)

Inv == Typed /\ Halves /\ Answers /\ Dated /\ Counting /\ Clean

(* At the start nothing is under way. *)
LEMMA InvInit == Init => Inv
<1> SUFFICES ASSUME Init PROVE Inv
  OBVIOUS
<1>1. Typed
  BY AttemptsAreCounted DEF Init, Typed, Steps, Pairs, None, NoJob, FreshGuard
<1>2. Halves /\ Answers /\ Clean
  BY DEF Init, Halves, Answers, Clean
<1>3. Counting
  BY DEF Init, Counting, FreshGuard
<1>4. Dated
  BY DEF Init, Dated, Known, None, NoJob
<1> QED
  BY <1>1, <1>2, <1>3, <1>4 DEF Inv

(* The invariant is inductive. *)
LEMMA InvStep == Inv /\ [Next]_vars => Inv'
  BY TypedStep, HalvesStep, AnswersStep, DatedStep, CountingStep, CleanStep DEF Inv

(* An attempt is accepted for its own answer only. *)
LEMMA AcceptsMatched ==
  ASSUME Inv, [Next]_vars, verdict' = "accepted", verdict # "accepted"
  PROVE  result = <<cur, cur>> /\ cur \in prompt
<1>1. Accept
  <2> USE DEF PhoneVars, PCVars
  <2>1. ASSUME NEW k \in 1 .. 2, WriteFragment(k) PROVE FALSE
    BY <2>1 DEF WriteFragment
  <2>2. ~(StartAttempt \/ Connect \/ EnableNotifications \/ TakeAnswer \/ GiveUp)
    BY DEF StartAttempt, Connect, EnableNotifications, TakeAnswer, GiveUp
  <2>3. ~(CheckAnswer \/ ServiceRestarts \/ Revoke)
    BY DEF CheckAnswer, Ends, ServiceRestarts, Revoke
  <2>4. ~(WorkerTakes \/ NextCounter \/ BeginAnswer \/ SendFragment)
    BY DEF WorkerTakes, NextCounter, BeginAnswer, SendFragment
  <2>5. ~(PhoneRestarts \/ PhoneScans \/ PairingDone)
    BY DEF PhoneRestarts, PhoneScans, PairingDone
  <2>6. ASSUME NEW n \in Attempts, Expire(n) PROVE FALSE
    BY <2>6 DEF Expire
  <2>7. ~UNCHANGED vars
    BY DEF vars
  <2> QED
    BY <2>1, <2>2, <2>3, <2>4, <2>5, <2>6, <2>7 DEF Next
<1> QED
  BY <1>1 DEF Accept, Inv, Answers, Dated

(* No step ends a calm attempt as a security failure. *)
LEMMA HonestStep == Inv /\ HonestAnswerStands /\ [Next]_vars => HonestAnswerStands'
<1> SUFFICES ASSUME Inv, HonestAnswerStands, [Next]_vars PROVE HonestAnswerStands'
  OBVIOUS
<1> USE DEF PhoneVars, PCVars, HonestAnswerStands
<1>1. CASE CheckAnswer
  <2>1. CASE calm
    <3>1. step = "check" /\ Whole(result) /\ OfThis(result) /\ cur \notin late
      BY <1>1, <2>1 DEF CheckAnswer, Inv, Answers, Clean
    <3>2. result[1] = cur /\ result[2] = cur
      BY <3>1 DEF Whole, OfThis
    <3>3. Matches(result[1])
      BY <3>1, <3>2 DEF Matches
    <3> QED
      BY <1>1, <3>2, <3>3 DEF CheckAnswer
  <2>2. CASE ~calm
    BY <1>1, <2>2 DEF CheckAnswer, Ends
  <2> QED
    BY <2>1, <2>2
<1>2. CASE Accept
  <2>1. CASE calm
    <3>1. step = "accept" /\ result = <<cur, cur>> /\ cur \notin guard.used
      BY <1>2 DEF Accept, Inv, Answers, Counting
    <3>2. cur # 0
      BY <3>1 DEF Inv, Typed
    <3>3. number[cur] > guard.last
      <4>1. result # None
        BY <3>1, <3>2 DEF None
      <4> QED
        BY <2>1, <3>1, <4>1 DEF Inv, Clean, Signed
    <3>4. verdict' = "accepted"
      BY <1>2, <3>1, <3>3 DEF Accept, Ends
    <3> QED
      BY <3>4
  <2>2. CASE ~calm
    BY <1>2, <2>2 DEF Accept, Ends
  <2> QED
    BY <2>1, <2>2
<1>3. CASE StartAttempt \/ TakeAnswer \/ GiveUp \/ ServiceRestarts
  BY <1>3 DEF StartAttempt, TakeAnswer, GiveUp, ServiceRestarts
<1>4. CASE Connect \/ EnableNotifications \/ Revoke
  BY <1>4 DEF Connect, EnableNotifications, Revoke
<1>5. ASSUME NEW k \in 1 .. 2, WriteFragment(k) PROVE HonestAnswerStands'
  BY <1>5 DEF WriteFragment
<1>6. CASE WorkerTakes \/ NextCounter \/ BeginAnswer \/ SendFragment
  BY <1>6 DEF WorkerTakes, NextCounter, BeginAnswer, SendFragment
<1>7. CASE PhoneRestarts \/ PhoneScans \/ PairingDone
  BY <1>7 DEF PhoneRestarts, PhoneScans, PairingDone
<1>8. ASSUME NEW n \in Attempts, Expire(n) PROVE HonestAnswerStands'
  BY <1>8 DEF Expire
<1>9. CASE UNCHANGED vars
  BY <1>9 DEF vars
<1> QED
  BY <1>1, <1>2, <1>3, <1>4, <1>5, <1>6, <1>7, <1>8, <1>9 DEF Next

(* For any number of challenges: the phone's worker never gets a challenge *)
(* put together from two.                                                  *)
THEOREM PhoneSeesWholeAlways == Spec => []PhoneSeesWhole
<1>1. Inv => PhoneSeesWhole
  BY DEF Inv, Halves, PhoneSeesWhole
<1> QED
  BY InvInit, InvStep, <1>1, PTL DEF Spec

(* For any number of challenges: an answer is accepted only if it is the   *)
(* phone's to the challenge of this attempt, signed while that was in date *)
(* (Matches, authenticate).                                                *)
THEOREM AcceptsOnlyItsAnswerAlways == Spec => AcceptsOnlyItsAnswer
<1>1. Inv /\ [Next]_vars
        => [(verdict' = "accepted" /\ verdict # "accepted") =>
              result = <<cur, cur>> /\ cur \in prompt]_vars
  BY AcceptsMatched
<1> QED
  BY InvInit, InvStep, <1>1, PTL DEF Spec, AcceptsOnlyItsAnswer

(* For any number of challenges: a good phone's answer is not counted as a *)
(* security failure when nothing of an earlier attempt was about.          *)
THEOREM HonestAnswerStandsAlways == Spec => []HonestAnswerStands
<1>1. Init => HonestAnswerStands
  BY DEF Init, HonestAnswerStands
<1> QED
  BY InvInit, InvStep, <1>1, HonestStep, PTL DEF Spec

=============================================================================
