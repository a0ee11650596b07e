---------------------------- MODULE FaceCapture ----------------------------
(***************************************************************************)
(* The capture path of the camera design: the ImageScaler block and the    *)
(* frame store of the top level that it feeds.                             *)
(*                                                                         *)
(* Both are "always @(signal)" blocks without a clock that assign their    *)
(* outputs on some paths only.  LevelSensitive chooses between the two     *)
(* readings such a block has:                                              *)
(*   FALSE  the language's: a block runs once per change of the signal in  *)
(*          its event list, and time stands still until it has run;        *)
(*   TRUE   the synthesised one: the block is a set of transparent         *)
(*          latches, re-evaluated at any time and any number of times      *)
(*          while its inputs hold, the ADDR feedback loop included.        *)
(* Coordinates come from the sensor's clock domain and luminances from the *)
(* display's, so they change independently of each other.                  *)
(***************************************************************************)
EXTENDS Integers, Sequences

CONSTANTS
  Cells,          \* slots of integral_buffer (400)
  AddrSpace,      \* values of the 9-bit address (512)
  XLo, XHi,       \* the cropping window on X_Cont (160, 1120)
  Pitch,          \* distance of two sampled pixels (47)
  Columns, Rows,  \* extent of the sensor's raster
  Luminances,     \* the values of BW the model tells apart, 0 among them
  LevelSensitive

ASSUME GeometryAssumption ==
  /\ Cells \in Nat \ {0}
  /\ AddrSpace \in Nat /\ Cells < AddrSpace
  /\ XLo \in Nat /\ XHi \in Nat
  /\ Pitch \in Nat \ {0}
  /\ Columns \in Nat \ {0} /\ Rows \in Nat \ {0}

ASSUME LuminanceAssumption == Luminances \subseteq Nat /\ 0 \in Luminances

ASSUME ReadingAssumption == LevelSensitive \in BOOLEAN

VARIABLES
  X_Cont, Y_Cont,   \* pixel the sensor delivers
  BW,               \* luminance of the pixel the display reads
  ADDR,             \* ADDR_local: ImageScaler's ADDR_in and ADDR_out
  BW_scaler, VALID, Scaler_DONE,   \* ImageScaler's other outputs
  integral_buffer,
  bwEvent, outEvent,  \* changes of BW and BW_scaler not yet acted on
  samples,          \* history: the samples taken, in order
  origin            \* history: which of them each slot was written with

scaler == <<ADDR, BW_scaler, VALID, Scaler_DONE, samples>>
store  == <<integral_buffer, origin>>
sensor == <<X_Cont, Y_Cont>>
vars   == <<sensor, BW, scaler, store, bwEvent, outEvent>>

Slots  == 0 .. Cells - 1
Pixels == (0 .. Columns - 1) \X (0 .. Rows - 1)
Samples == [at : Pixels, luminance : Luminances]

TypeOK ==
  /\ X_Cont \in 0 .. Columns - 1
  /\ Y_Cont \in 0 .. Rows - 1
  /\ BW \in Luminances
  /\ ADDR \in 0 .. Cells
  /\ BW_scaler \in Luminances
  /\ VALID \in BOOLEAN
  /\ Scaler_DONE \in BOOLEAN
  /\ integral_buffer \in [Slots -> Luminances]
  /\ bwEvent \in BOOLEAN
  /\ outEvent \in BOOLEAN
  /\ samples \in Seq(Samples)
  /\ origin \in [Slots -> 0 .. Cells]

(* Latches and memory power up low.                                        *)
Init ==
  /\ X_Cont = 0 /\ Y_Cont = 0
  /\ BW = 0
  /\ ADDR = 0 /\ BW_scaler = 0 /\ VALID = FALSE /\ Scaler_DONE = FALSE
  /\ integral_buffer = [i \in Slots |-> 0]
  /\ bwEvent = FALSE /\ outEvent = FALSE
  /\ samples = <<>>
  /\ origin = [i \in Slots |-> 0]

(***************************************************************************)
(* The surroundings: sensor raster and display read-out.                   *)
(***************************************************************************)
Settled == ~bwEvent /\ ~outEvent

PixelClock ==
  /\ LevelSensitive \/ Settled
  /\ X_Cont' = (X_Cont + 1) % Columns
  /\ Y_Cont' = IF X_Cont = Columns - 1 THEN (Y_Cont + 1) % Rows ELSE Y_Cont
  /\ UNCHANGED <<BW, scaler, store, bwEvent, outEvent>>

LuminanceChange ==
  /\ LevelSensitive \/ Settled
  /\ \E l \in Luminances \ {BW} : BW' = l
  /\ bwEvent' = ~LevelSensitive
  /\ UNCHANGED <<sensor, scaler, store, outEvent>>

(***************************************************************************)
(* ImageScaler.  The four ways through the block; on paths that assign     *)
(* nothing the outputs keep their values.                                  *)
(***************************************************************************)
InWindow(x) == x \in XLo .. XHi
OnGrid(x, y) == (x - XLo) % Pitch = 0 /\ y % Pitch = 0

LatchPixel(next) ==
  /\ BW_scaler' = BW
  /\ ADDR' = next % AddrSpace
  /\ VALID' = TRUE
  /\ Scaler_DONE' = (ADDR = Cells)
  /\ samples' = Append(samples, [at |-> <<X_Cont, Y_Cont>>, luminance |-> BW])

SampleSamePlace == ADDR < Cells /\ InWindow(X_Cont) /\ OnGrid(X_Cont, Y_Cont) /\ LatchPixel(ADDR)
SamplePastEnd == ADDR <= Cells /\ InWindow(X_Cont) /\ OnGrid(X_Cont, Y_Cont) /\ LatchPixel(ADDR + 1)

Sample ==
  /\ ADDR < Cells
  /\ InWindow(X_Cont) /\ OnGrid(X_Cont, Y_Cont)
  /\ LatchPixel(ADDR + 1)

Skip ==
  /\ ADDR < Cells /\ InWindow(X_Cont) /\ ~OnGrid(X_Cont, Y_Cont)
  /\ Scaler_DONE' = (ADDR = Cells)
  /\ UNCHANGED <<ADDR, BW_scaler, VALID, samples>>

CropStillValid ==
  /\ ADDR < Cells /\ ~InWindow(X_Cont)
  /\ BW_scaler' = 0
  /\ Scaler_DONE' = (ADDR = Cells)
  /\ UNCHANGED <<ADDR, VALID, samples>>

Crop ==
  /\ ADDR < Cells /\ ~InWindow(X_Cont)
  /\ BW_scaler' = 0
  /\ VALID' = FALSE
  /\ Scaler_DONE' = (ADDR = Cells)
  /\ UNCHANGED <<ADDR, samples>>

Full == ADDR >= Cells /\ UNCHANGED scaler

Scale ==
  /\ LevelSensitive \/ bwEvent
  /\ Sample \/ Skip \/ Crop \/ Full
  /\ bwEvent' = FALSE
  /\ outEvent' = (~LevelSensitive /\ BW_scaler' # BW_scaler)
  /\ UNCHANGED <<sensor, BW, store>>

(***************************************************************************)
(* The frame store of the top level.  A write whose index lies outside     *)
(* the array has no effect.                                                *)
(***************************************************************************)
WriteSlot ==
  IF VALID /\ ~Scaler_DONE /\ ADDR \in Slots
  THEN /\ integral_buffer' = [integral_buffer EXCEPT ![ADDR] = BW_scaler]
       /\ origin' = [origin EXCEPT ![ADDR] = Len(samples)]
  ELSE UNCHANGED store

Store ==
  /\ LevelSensitive \/ outEvent
  /\ WriteSlot
  /\ outEvent' = FALSE
  /\ UNCHANGED <<sensor, BW, scaler, bwEvent>>

Next == PixelClock \/ LuminanceChange \/ Scale \/ Store

Spec == Init /\ [][Next]_vars

(***************************************************************************)
(* Properties.                                                             *)
(***************************************************************************)

(* ImageScaler tests ADDR_in = 400 only inside the branch for              *)
(* ADDR_in < 400, so however the frame is captured its DONE output, the    *)
(* one signal that lets HAAR_Comparison start, is never raised.            *)
NeverDone == ~Scaler_DONE

(* What the frame store holds: a slot is blank, or it holds the luminance  *)
(* that was on BW when the sample of its own number was taken, inside the  *)
(* cropping window and on the sampling grid.  So no sample is shifted,     *)
(* none is paired with the luminance of another, and the 0 that the scaler *)
(* drives outside the window is never stored, although the address is      *)
(* advanced before the sample it belongs to is stored, and both blocks may *)
(* be evaluated any number of times in between.                            *)
SlotsHoldSamples ==
  \A i \in Slots :
    IF origin[i] = 0
    THEN integral_buffer[i] = 0
    ELSE /\ origin[i] = i /\ i \in 1 .. Len(samples)
         /\ integral_buffer[i] = samples[i].luminance
         /\ InWindow(samples[i].at[1]) /\ OnGrid(samples[i].at[1], samples[i].at[2])

(* A slot is written with one sample and keeps it: no later pixel, neither *)
(* of the same frame nor of a later one, overwrites a captured cell,       *)
(* although the write enable VALID stays latched between two samples.      *)
WriteOnce ==
  [][\A i \in Slots : origin[i] # 0 =>
        integral_buffer'[i] = integral_buffer[i] /\ origin'[i] = origin[i]]_vars

(* Capture is one-shot: once the address has reached the end nothing in    *)
(* the capture path changes again, whatever the camera shows.              *)
FrozenWhenFull == [][ADDR = Cells => UNCHANGED <<scaler, store>>]_vars

(* The scaler's own test: when all cells have been captured, DONE is set.  *)
FullIsDone == (ADDR = Cells /\ Settled) => Scaler_DONE
============================================================================
