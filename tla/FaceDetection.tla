--------------------------- MODULE FaceDetection ---------------------------
(***************************************************************************)
(* The detection path of the top level: the colours the display reads go   *)
(* through Luminance to ImageScaler and the frame store (FaceCapture),     *)
(* which feeds HAAR_Comparison (HaarHardware), whose START is wired to     *)
(* Scaler_DONE && !KEY[2].  A step that raises START includes the run it   *)
(* triggers.                                                               *)
(***************************************************************************)
EXTENDS FaceCapture, Luminance

CONSTANTS
  Colours,      \* <<r, g, b>> the display may read, black among them
  PowerUp, IntegralSpace   \* of HaarHardware

ASSUME ColourAssumption ==
  /\ Colours \subseteq Channel \X Channel \X Channel /\ <<0, 0, 0>> \in Colours
  /\ Luminances = {LuminanceOf(c[1], c[2], c[3]) : c \in Colours}

VARIABLES
  colour,       \* oVGA_R, oVGA_G and oVGA_B
  KEY2,         \* push button 2, low while pressed
  accumulate, integral, is_face   \* HAAR_Comparison

(* The cells HAAR_Comparison reads.  A smaller frame store repeats.        *)
Corners == {143, 41, 141, 125, 107, 4, 186, 123, 34, 167, 161, 136, 345, 54}
View(buffer) == [c \in Corners |-> buffer[c % Cells]]

START == Scaler_DONE /\ ~KEY2

(* The unused parameters of HaarHardware drive its own surroundings.       *)
Haar == INSTANCE HaarHardware WITH
          integral_buffer <- View(integral_buffer), Images <- {View(b) : b \in [Slots -> Luminances]},
          MaxRuns <- 0, startEvent <- FALSE, runs <- 0

detectVars == <<vars, colour, KEY2, accumulate, integral, is_face>>

DetectInit ==
  /\ Init
  /\ colour = <<0, 0, 0>>
  /\ KEY2 \in BOOLEAN
  /\ accumulate \in PowerUp /\ integral \in PowerUp
  /\ is_face = FALSE

CompareOnStart ==
  IF START' /\ ~START
  THEN Haar!RunBlock(View(integral_buffer'))
  ELSE UNCHANGED <<accumulate, integral, is_face>>

(* The display reads the next pixel.  One of equal luminance goes unseen.  *)
Display ==
  /\ LevelSensitive \/ Settled
  /\ \E c \in Colours \ {colour} :
       /\ colour' = c
       /\ IF LuminanceOf(c[1], c[2], c[3]) = BW
          THEN UNCHANGED vars
          ELSE LuminanceChange /\ BW' = LuminanceOf(c[1], c[2], c[3])
  /\ UNCHANGED KEY2
  /\ CompareOnStart

Capture ==
  /\ PixelClock \/ Scale \/ Store
  /\ UNCHANGED <<colour, KEY2>>
  /\ CompareOnStart

Key ==
  /\ KEY2' = ~KEY2
  /\ UNCHANGED <<vars, colour>>
  /\ CompareOnStart

DetectNext == Display \/ Capture \/ Key

DetectSpec == DetectInit /\ [][DetectNext]_detectVars

(***************************************************************************)
(* Properties.                                                             *)
(***************************************************************************)

(* Nothing the camera delivers and no press of the key ever changes the    *)
(* verdict on the display: although the frame store fills up to its last   *)
(* address, the cascade is never started.                                  *)
DisplayNeverChanges == [][UNCHANGED <<accumulate, integral, is_face>>]_detectVars

(* What the scaler samples is the weighted mean of the channels in         *)
(* millionths: four truncating divisions never add anything, and together  *)
(* they lose less than four millionths.                                    *)
CloseToWeightedMean ==
  LET loss == (299 * colour[1] + 587 * colour[2] + 114 * colour[3]) * 1000 - 255 * BW
  IN  loss >= 0 /\ loss < 4 * 255

(* Raising channels never darkens a pixel.                                 *)
Brighter(c, d) == c[1] <= d[1] /\ c[2] <= d[2] /\ c[3] <= d[3]

Monotone == [][Brighter(colour, colour') => BW <= BW']_detectVars
============================================================================
