----------------------------- MODULE Classifier -----------------------------
(***************************************************************************)
(* Classifier.sv: a line buffer of N pixels, and on the last pixel of a    *)
(* line the "window" and "integral" buffers computed from it.  The block   *)
(* runs within one event; its outer loop is one Pass per pixel of the      *)
(* line, and no other event comes between two passes.  The pixel itself is *)
(* stored by a nonblocking assignment, which takes effect after the block: *)
(* the passes still read the old line.                                     *)
(***************************************************************************)
EXTENDS Integers

CONSTANTS
  N,            \* pixels of a line (20)
  Addresses,    \* values of the 9-bit ADDR
  Pixels,       \* values of BW_in the model tells apart
  WordSpace     \* 2^32

ASSUME SizeAssumption ==
  /\ N \in Nat /\ N >= 4                  \* with fewer the block reads before the window
  /\ Addresses \subseteq Nat
  /\ WordSpace \in Nat \ {0, 1}
  /\ Pixels \subseteq 0 .. WordSpace - 1

Line      == 0 .. N - 1
WindowIdx == 0 .. 2 * N * N - 1
Cells     == 0 .. N * N - 1

VARIABLES
  BW_in, ADDR,
  i,              \* pass of the running block, N when it has ended
  buffer, window_buffer, integral_buffer, DONE,
  lineBefore      \* history: buffer when the running block began

vars == <<BW_in, ADDR, i, buffer, window_buffer, integral_buffer, DONE, lineBefore>>

Init ==
  /\ BW_in = 0 /\ ADDR \in Addresses /\ i = N
  /\ buffer = [a \in Line |-> 0] /\ lineBefore = buffer
  /\ window_buffer = [w \in WindowIdx |-> 0]
  /\ integral_buffer = [c \in Cells |-> 0]
  /\ DONE = FALSE

(***************************************************************************)
(* The computation.                                                        *)
(***************************************************************************)
OnDiagonal(x, y) == x \in 1 .. N - 1 /\ y \in 0 .. N - 2 /\ x + y = N - 2

(* Row x of the window starts at x * N and is 2 * N cells long, so it      *)
(* overwrites the first half of the row after it.  It repeats b, except    *)
(* that on the diagonal the cell diagonally before is added.               *)
Row(w, b, x) ==
  LET r[y \in 0 .. 2 * N - 1] ==
        LET before == IF y > 0 THEN r[y - 1] ELSE w[x * N - 1]
        IN  IF OnDiagonal(x, y) THEN (w[(x - 1) * N + y - 1] + before) % WordSpace
            ELSE IF y > 0 THEN before ELSE b
  IN  [c \in WindowIdx |-> IF c \in x * N .. x * N + 2 * N - 1 THEN r[c - x * N] ELSE w[c]]

(* The rows of the window, one after the other.                            *)
WindowPass(w, b) ==
  LET after[x \in 0 .. N] == IF x = 0 THEN w ELSE Row(after[x - 1], b, x - 1)
  IN  after[N]

IntegralOf(w) ==
  [c \in Cells |->
     (w[(c \div N) * N + 2 * (c % N)] - w[(c \div N) * N + (2 * N - (c % N) - 1)]) % WordSpace]

(***************************************************************************)
(* Actions.                                                                *)
(***************************************************************************)
LineEnds(a) == (a + 1) % N = 0

(* A write outside the line has no effect.                                 *)
StorePixel == buffer' = IF ADDR \in Line THEN [buffer EXCEPT ![ADDR] = BW_in] ELSE buffer

(* BW_in changes to v while ADDR is a.  Unless the line ends there, the    *)
(* block stores the pixel and is through.                                  *)
Fill(v, a) ==
  /\ i = N /\ v # BW_in /\ ~LineEnds(a)
  /\ BW_in' = v /\ ADDR' = a
  /\ buffer' = IF a \in Line THEN [buffer EXCEPT ![a] = v] ELSE buffer
  /\ DONE' = TRUE
  /\ UNCHANGED <<i, window_buffer, integral_buffer, lineBefore>>

BeginLineBlocking(v, a) ==
  /\ i = N /\ v # BW_in /\ LineEnds(a)
  /\ BW_in' = v /\ ADDR' = a
  /\ i' = 0 /\ lineBefore' = buffer
  /\ buffer' = IF a \in Line THEN [buffer EXCEPT ![a] = v] ELSE buffer
  /\ UNCHANGED <<window_buffer, integral_buffer, DONE>>

BeginLine(v, a) ==
  /\ i = N /\ v # BW_in /\ LineEnds(a)
  /\ BW_in' = v /\ ADDR' = a
  /\ i' = 0 /\ lineBefore' = buffer
  /\ UNCHANGED <<buffer, window_buffer, integral_buffer, DONE>>

Pass ==
  /\ i < N
  /\ window_buffer' = WindowPass(window_buffer, buffer[i])
  /\ integral_buffer' = IntegralOf(window_buffer')
  /\ i' = i + 1
  /\ IF i' = N THEN StorePixel /\ DONE' = TRUE ELSE UNCHANGED <<buffer, DONE>>
  /\ UNCHANGED <<BW_in, ADDR, lineBefore>>

Next ==
  \/ \E v \in Pixels, a \in Addresses : Fill(v, a) \/ BeginLine(v, a)
  \/ Pass

Spec == Init /\ [][Next]_vars

(***************************************************************************)
(* Properties.                                                             *)
(***************************************************************************)

(* The image that one pass over a blank window yields for pixel 1.         *)
Coefficients == IntegralOf(WindowPass([w \in WindowIdx |-> 0], 1))

(* Every pass overwrites all it reads, so of the whole line only the last  *)
(* pixel counts, and since that is stored after the passes, only as it was *)
(* before: the image is this one number times a constant pattern, whatever *)
(* the rest of the line holds.                                             *)
ImageIsOnePixel ==
  [][i' = N /\ i # N =>
       integral_buffer' = [c \in Cells |-> (Coefficients[c] * lineBefore[N - 1]) % WordSpace]]_vars
=============================================================================
