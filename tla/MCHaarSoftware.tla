--------------------------- MODULE MCHaarSoftware ---------------------------
(* Two stages of one and two features with one or two rectangles each on   *)
(* images of two rows of two cells; cells straddle the divisor.            *)
EXTENDS HaarSoftware, TLC

MCFeatNums  == (0 :> 1) @@ (1 :> 2)
MCStageData == (0 :> 3) @@ (1 :> 10)
MCRectNums  == (0 :> 2) @@ (1 :> 1) @@ (2 :> 2)
Feature(t, l, r) == [threshold |-> t, left |-> l, right |-> r]
MCFeatData  == (0 :> Feature(0, 2, 4)) @@ (1 :> Feature(0, 1, 5)) @@ (2 :> Feature(2, 3, 1))
Rect(w, h, x, y) == [w |-> w, h |-> h, x |-> x, y |-> y]
MCRectData  == (0 :> Rect(1, 2, 0, 0)) @@ (1 :> Rect(2, 1, 0, 1)) @@ (2 :> Rect(1, 1, 1, 0))
               @@ (3 :> Rect(2, 2, 0, 0)) @@ (4 :> Rect(1, 1, 1, 1))
MCImages    == [0 .. 3 -> {0, 5, 10, 19}]
=============================================================================
