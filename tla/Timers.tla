------------------------------- MODULE Timers -------------------------------
(***************************************************************************)
(* What the system clock promises the users of its alarms: an alarm is     *)
(* called when as many ticks have gone by as it was started with, or as    *)
(* its last call asked for.  No tick is counted while an alarm is owed its *)
(* call, and only a call that was owed sets an alarm going again.          *)
(***************************************************************************)
EXTENDS Integers

CONSTANTS Alarms, Longest

VARIABLE left    \* for every alarm that runs, the ticks to go

Running == DOMAIN left
Owed    == {a \in Running : left[a] = 0}
Ticks   == 1 .. Longest

Init == left = [a \in {} |-> 0]

Start ==
  \E a \in Alarms \ Running, n \in Ticks :
    left' = [x \in Running \cup {a} |-> IF x = a THEN n ELSE left[x]]

Stop == \E a \in Running : left' = [x \in Running \ {a} |-> left[x]]

Tick ==
  /\ Owed = {}
  /\ left' = [x \in Running |-> left[x] - 1]

Called == \E a \in Owed, n \in Ticks : left' = [left EXCEPT ![a] = n]

Next == Start \/ Stop \/ Tick \/ Called

Spec == Init /\ [][Next]_left
=============================================================================
