------------------------------ MODULE HalClock ------------------------------
(***************************************************************************)
(* The time of day of the HAL: settimeofday stores what the time was when  *)
(* the tick counter was zero, gettimeofday adds the ticks to it.  Both     *)
(* turn ticks into microseconds, one in 64 bits and one in alt_u32.  Time  *)
(* is read and set by the program alone; ticks come in between.            *)
(***************************************************************************)
EXTENDS Integers

CONSTANTS
  Word,        \* 2^32
  ALT_US,      \* microseconds in a second, no more than Word
  TickRate,    \* ticks in a second, from 1 to ALT_US
  Times        \* the times the program sets, with tv_usec in 0 .. ALT_US - 1

VARIABLES
  _alt_nticks,
  alt_resettime,
  set            \* what was set since the last tick: the empty set or a time

vars == <<_alt_nticks, alt_resettime, set>>

Init ==
  /\ _alt_nticks = 0
  /\ alt_resettime = [tv_sec |-> 0, tv_usec |-> 0]
  /\ set = {}

Seconds(n) == n \div TickRate
Micros(n)  == (n * (ALT_US \div TickRate)) % ALT_US
Micros32(n) == ((n * (ALT_US \div TickRate)) % Word) % ALT_US

ALT_SETTIMEOFDAY(t) ==
  /\ alt_resettime' = [tv_sec |-> t.tv_sec - Seconds(_alt_nticks),
                       tv_usec |-> t.tv_usec - Micros32(_alt_nticks)]
  /\ set' = {t}
  /\ UNCHANGED _alt_nticks

(* The loops of gettimeofday run at most once each: both summands of       *)
(* tv_usec are less than a second.                                         *)
Borrow(t) ==
  IF t.tv_usec >= 0 THEN t
  ELSE IF t.tv_sec <= 0 THEN [tv_sec |-> 0, tv_usec |-> 0]
  ELSE [tv_sec |-> t.tv_sec - 1, tv_usec |-> t.tv_usec + ALT_US]

Carry(t) ==
  IF t.tv_usec < ALT_US THEN t
  ELSE [tv_sec |-> t.tv_sec + 1, tv_usec |-> t.tv_usec - ALT_US]

ALT_GETTIMEOFDAY ==
  Carry(Borrow([tv_sec |-> alt_resettime.tv_sec + Seconds(_alt_nticks),
                tv_usec |-> alt_resettime.tv_usec + Micros(_alt_nticks)]))

(* The counter is followed up to its wrap. *)
Tick ==
  /\ _alt_nticks + 1 < Word
  /\ _alt_nticks' = _alt_nticks + 1
  /\ set' = {}
  /\ UNCHANGED alt_resettime

Next == Tick \/ \E t \in Times : ALT_SETTIMEOFDAY(t)

Spec == Init /\ [][Next]_vars

(* alt_settod.c:61: an immediate call to gettimeofday returns the value    *)
(* settimeofday was given.                                                 *)
SetIsRead == \A t \in set : ALT_GETTIMEOFDAY = t
=============================================================================
