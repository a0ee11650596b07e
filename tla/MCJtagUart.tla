----------------------------- MODULE MCJtagUart -----------------------------
(* Rings of three slots, of which two can be used, and device FIFOs of two *)
(* bytes: received bytes alone interrupt only when they fill the FIFO, and *)
(* the device asks for bytes to send while it holds at most one.           *)
EXTENDS JtagUart

MCTimeouts == {0}
=============================================================================
