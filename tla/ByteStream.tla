----------------------------- MODULE ByteStream -----------------------------
(***************************************************************************)
(* What either direction of the JTAG UART driver promises: a stream that   *)
(* delivers every byte once and in order and holds at most Capacity of     *)
(* them.  Bytes are numbered from 1 in the order they enter.               *)
(***************************************************************************)
EXTENDS Naturals, Sequences

CONSTANT Capacity

VARIABLES
  entered,   \* number of bytes that have entered
  left       \* the bytes that have left, in order

Held == entered - Len(left)

Init == entered = 0 /\ left = <<>>

Enter ==
  /\ \E n \in 1 .. Capacity - Held : entered' = entered + n
  /\ UNCHANGED left

Leave ==
  /\ \E n \in 1 .. Held : left' = left \o [i \in 1 .. n |-> Len(left) + i]
  /\ UNCHANGED entered

Spec == Init /\ [][Enter \/ Leave]_<<entered, left>>
=============================================================================
