---------------------------- MODULE MCClassifier ----------------------------
(* A line of four pixels, addresses of the first two rows.                 *)
EXTENDS Classifier

MCAddresses == 0 .. 7
=============================================================================
