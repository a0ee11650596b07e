-------------------------- MODULE MCHaarHardware --------------------------
(* Images for TLC: the three corners of stage 0 below or above their       *)
(* thresholds with all other corners dark or bright, and the two images    *)
(* with the smallest and the largest score.                                *)
EXTENDS HaarHardware

StageZeroCorners == {143, 41, 141}

PlainImages ==
  {[c \in Corners |-> IF c \in bright THEN 15152 ELSE IF c \in StageZeroCorners THEN 0 ELSE rest] :
     bright \in SUBSET StageZeroCorners, rest \in {0, 50000}}

Faintest == [c \in Corners |-> IF c \in {41, 186, 167, 345} THEN 15152 ELSE IF c = 4 THEN 1378 ELSE 0]
Brightest == [c \in Corners |-> IF c \in {143, 141, 125, 107, 4, 161} THEN 5003 ELSE IF c = 34 THEN 36668 ELSE 0]

MCImages == PlainImages \cup {Faintest, Brightest}
MCPowerUp == {0, 1, 4000}
============================================================================
