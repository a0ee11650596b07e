------------------------------ MODULE Handshake ------------------------------
(***************************************************************************)
(* What the firmware and the slave promise the hardware behind the         *)
(* exports: a verdict is told only as it was decided, stays told until a   *)
(* reset, and has been taken back before the next one is decided, so that  *)
(* the hardware never takes one verdict for two or an old one for a new.   *)
(***************************************************************************)
CONSTANT Verdicts

VARIABLES
  decided,   \* the verdict decided since the last reset, or None
  told       \* the verdict the hardware is shown, or None

None == <<>>
Some(v) == <<v>>

Init == decided = None /\ told = None

Decide ==
  /\ decided = None /\ told = None
  /\ \E v \in Verdicts : decided' = Some(v)
  /\ UNCHANGED told

Tell ==
  /\ decided # None /\ told = None
  /\ told' = decided
  /\ UNCHANGED decided

(* The decision is forgotten; the hardware may be shown it all the same.   *)
Reset ==
  /\ decided' = None
  /\ told' \in {told, decided}

TakeBack ==
  /\ decided = None
  /\ told' = None
  /\ UNCHANGED decided

Next == Decide \/ Tell \/ Reset \/ TakeBack

Spec == Init /\ [][Next]_<<decided, told>>
=============================================================================
