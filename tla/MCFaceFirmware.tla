--------------------------- MODULE MCFaceFirmware ---------------------------
(* Four cells, two byte values, two words from the classifier, neither of *)
(* them blank, and a cascade that takes the blank image for a face.        *)
EXTENDS FaceFirmware

MCIsFace(image) == \A c \in CellRegs : image[c] = Zero
MCWords == {One, [l \in Lanes |-> 1]}
=============================================================================
