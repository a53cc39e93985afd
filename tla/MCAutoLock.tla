----------------------------- MODULE MCAutoLock -----------------------------
(* Intervals for TLC: the fast mode polls twice as often as the normal one, *)
(* and every delay is longer than its poll.                                *)
EXTENDS AutoLock

PollTicks == [mode \in BOOLEAN |-> IF mode THEN 1 ELSE 2]
DelayTicks == [mode \in BOOLEAN |-> IF mode THEN 2 ELSE 3]

=============================================================================
