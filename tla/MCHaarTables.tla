---------------------------- MODULE MCHaarTables ----------------------------
(* The firmware's cascade on the tables of HAAR_Constants.h.  An image is  *)
(* a background everywhere but in one cell; 217 cells are read at most.    *)
EXTENDS HaarTables

(* Corners of the rectangles, their neighbours outside, and the ends of    *)
(* the image.                                                              *)
MCCells == {0, 22, 41, 58, 100, 143, 142, 156, 157, 160, 203, 216, 217, 399}

MCImages ==
  { [c \in 0 .. 399 |-> IF c = d THEN v ELSE b] :
      d \in MCCells, v \in {0, Divisor - 1, Divisor, 2147483647}, b \in {0, Divisor - 1} }

(* The constants of the run are those the theorems are about.              *)
ASSUME HeaderAssumption == OnHeader
=============================================================================
