-------------------------- MODULE MCFaceDetection --------------------------
(* The composed design on a frame store of three cells, as synthesised,    *)
(* with black, white, a colour whose channels all truncate and one that is *)
(* a little brighter in blue.                                              *)
EXTENDS FaceDetection

MCColours ==
  {<<0, 0, 0>>, <<255, 255, 255>>, <<100, 52, 203>>, <<100, 52, 204>>}
MCLuminances == {LuminanceOf(c[1], c[2], c[3]) : c \in MCColours}
============================================================================
