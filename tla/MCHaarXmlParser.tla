-------------------------- MODULE MCHaarXmlParser --------------------------
(* A cascade of two stages: one feature of two rectangles, then two        *)
(* features of three and two; one threshold is any number with an exponent *)
(* of up to three digits, the other a plain decimal.  The digits reach     *)
(* both sides of every bound: 308 and 309, 20 and 21, 323 and 328.         *)
EXTENDS HaarXmlParser

MCCascade == <<<<2>>, <<3, 2>>>>

Plain == [negative |-> FALSE, sci |-> FALSE]
MCFiles == {<<n, Plain>> : n \in Numbers} \cup {<<Plain, n>> : n \in Numbers}
============================================================================
