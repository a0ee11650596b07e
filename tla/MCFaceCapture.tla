--------------------------- MODULE MCFaceCapture ---------------------------
(* A small instance of FaceCapture for TLC: a raster of 7 by 3 pixels with *)
(* three grid columns in its window.                                       *)
EXTENDS FaceCapture

MCLuminances == {0, 1}
============================================================================
