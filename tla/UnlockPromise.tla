--------------------------- MODULE UnlockPromise ---------------------------
(***************************************************************************)
(* What the coordinator, the authorization manager and the auth pipe       *)
(* promise together, with no goroutines, locks or clocks: a signed proof   *)
(* made for a session moves, in this order, through being granted, taken   *)
(* and cleared before the password is released for it, and it is cleared   *)
(* only while the session it was made for is the locked one.  At any point *)
(* it may be given up, and then only a new proof starts again.             *)
(*                                                                         *)
(* Coordinator implements this module (Promise there).                     *)
(***************************************************************************)
CONSTANTS Sessions, Proofs, None

VARIABLES
  claim,         \* how far each proof has come, and the session it is for
  lockedSession  \* the session known as locked, or None

Stages == {"none", "proved", "granted", "taken", "cleared", "released"}

NoClaim == [stage |-> "none", session |-> None]

TypeOK ==
  /\ claim \in [Proofs -> [stage : Stages, session : Sessions \cup {None}]]
  /\ lockedSession \in Sessions \cup {None}

Init ==
  /\ claim = [p \in Proofs |-> NoClaim]
  /\ lockedSession = None

Advance(p, from, to) ==
  /\ claim[p].stage = from
  /\ claim' = [claim EXCEPT ![p].stage = to]
  /\ UNCHANGED lockedSession

(* The phone has signed a challenge that names session s. *)
Prove(p, s) ==
  /\ claim[p] = NoClaim
  /\ claim' = [claim EXCEPT ![p] = [stage |-> "proved", session |-> s]]
  /\ UNCHANGED lockedSession

(* There is one grant at a time: a new one replaces the old one. *)
Issue(p) ==
  /\ claim[p].stage = "proved"
  /\ claim' = [q \in Proofs |->
                 IF q = p THEN [claim[p] EXCEPT !.stage = "granted"]
                 ELSE IF claim[q].stage = "granted" THEN NoClaim
                 ELSE claim[q]]
  /\ UNCHANGED lockedSession

(* A claim already on its way to the provider excludes another one. *)
Take(p) ==
  /\ \A q \in Proofs : claim[q].stage \notin {"taken", "cleared", "released"}
  /\ Advance(p, "granted", "taken")

Clear(p) ==
  /\ lockedSession # None /\ claim[p].session = lockedSession
  /\ Advance(p, "taken", "cleared")

Release(p) == Advance(p, "cleared", "released")

(* Claims are given up, and the desktop is locked, unlocked or left. *)
GiveUp ==
  \E lost \in SUBSET Proofs :
    /\ claim' = [p \in Proofs |-> IF p \in lost THEN NoClaim ELSE claim[p]]
    /\ lockedSession' \in Sessions \cup {None}

Next ==
  \/ \E p \in Proofs :
       \/ \E s \in Sessions \cup {None} : Prove(p, s)
       \/ Issue(p) \/ Take(p) \/ Clear(p) \/ Release(p)
  \/ GiveUp

vars == <<claim, lockedSession>>
Spec == Init /\ [][Next]_vars

=============================================================================
