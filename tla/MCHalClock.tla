----------------------------- MODULE MCHalClock -----------------------------
(* A word of 16 and ten microseconds to the second, at five ticks: as with *)
(* 2^32 and a million, the word is no multiple of the second.              *)
EXTENDS HalClock

MCTimes == [tv_sec : {1, 100}, tv_usec : {0, 9}]
=============================================================================
