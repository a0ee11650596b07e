---------------------------- MODULE MCHalAlarms -----------------------------
(* Two alarms, one device beside the timer, two routines; ticks wrap at 3. *)
EXTENDS HalAlarms

MCDelays  == {0, Word - 2}
MCPeriods == {0, Word - 1}
=============================================================================
