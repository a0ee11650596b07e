--------------------------- MODULE HaarHardware ---------------------------
(***************************************************************************)
(* HAAR_Comparison.sv: the first two stages of the cascade, written out as *)
(* a block that runs on START.  accumulate and integral are never reset    *)
(* when it starts again, and nothing assigns them while START is low.      *)
(*                                                                         *)
(* LevelSensitive has the meaning it has in FaceCapture: the synthesised   *)
(* block is a combinational loop, which may run again while START is high. *)
(***************************************************************************)
EXTENDS Integers

CONSTANTS
  Images,         \* contents of integral_buffer, at the cells that are read
  PowerUp,        \* what accumulate and integral may power up with
  IntegralSpace,  \* values of the 101-bit variables (2^101)
  MaxRuns,        \* bound on the runs of the block in a behaviour
  LevelSensitive

(* The corners the features read: cell 20 * row + column.                  *)
Corners == {143, 41, 141, 125, 107, 4, 186, 123, 34, 167, 161, 136, 345, 54}

(* 101 bits are wide enough for MaxRuns runs: no sum of the block wraps,   *)
(* and a 32-bit cell lies below every negative threshold read as unsigned. *)
ASSUME WidthAssumption ==
  /\ IntegralSpace \in Nat /\ IntegralSpace > 100000
  /\ MaxRuns \in Nat
  /\ PowerUp \subseteq Nat
  /\ \A p \in PowerUp : p + 9000000 * MaxRuns < IntegralSpace

ASSUME ImageAssumption ==
  /\ Images \subseteq [Corners -> Nat] /\ Images # {}
  /\ \A img \in Images, c \in Corners : img[c] + 100000 < IntegralSpace

ASSUME ReadingAssumption == LevelSensitive \in BOOLEAN

VARIABLES
  START, integral_buffer,
  startEvent,           \* a change of START not yet acted on
  accumulate, integral,
  is_face,              \* is_face and the is_face_local it copies
  runs                  \* history: runs of the block with START high

local == <<accumulate, integral, is_face, runs>>
vars  == <<START, integral_buffer, startEvent, local>>

TypeOK ==
  /\ START \in BOOLEAN
  /\ integral_buffer \in Images
  /\ startEvent \in BOOLEAN
  /\ accumulate \in Nat
  /\ integral \in PowerUp \cup {img[4] : img \in Images}
  /\ is_face \in BOOLEAN
  /\ runs \in 0 .. MaxRuns

Init ==
  /\ START = FALSE
  /\ integral_buffer \in Images
  /\ startEvent = FALSE
  /\ accumulate \in PowerUp /\ integral \in PowerUp
  /\ is_face = FALSE
  /\ runs = 0

(***************************************************************************)
(* The sums of the block.  integral is unsigned, so a threshold below zero *)
(* is compared as the large number its bits stand for.                     *)
(***************************************************************************)
Signed(t) == t

Unsigned(t) == IF t < 0 THEN IntegralSpace + t ELSE t

Score(sum, threshold, left, right) ==
  IF sum > Unsigned(threshold) THEN right ELSE left

(* carry is what integral still holds from the run before.                 *)
Stage0Typo(img, carry) ==
  Score(carry + img[143], 4014, 33794, 837810)
  + Score(img[41], 15151, 151413, 748881)
  + Score(img[141], 4210, 90049, 637481)

Stage0(img, carry) ==
  Score(carry + img[143], 4014, 33794, 837810)
  + Score(img[41], 15151, 151413, 74881)
  + Score(img[141], 4210, 90049, 637481)

Stage1(img) ==
  Score(img[125], 1622, 693085, 711094)
  + Score(img[107], 2290, 179580, 666869)
  + Score(img[4], 5002, 169367, 655400)
  + Score(img[186], 7965, 586633, 91414)
  + Score(img[123], -3522, 141316, 603189)
  + Score(img[34], 36667, 367567, 792031)
  + Score(img[167], 9336, 616138, 208850)
  + Score(img[161], 1148, 222358, 580070)
  + Score(img[136], -2148, 240646, 578705)
  + Score(img[345], 2121, 555965, 136223)
  + Score(img[54], -93949, 850273, 471774)
  + Score(img[4], 1377, 599367, 283452)

StageThreshold == 822689

(***************************************************************************)
(* Actions.                                                                *)
(***************************************************************************)
Press ==
  /\ ~startEvent
  /\ START \/ runs < MaxRuns
  /\ START' = ~START
  /\ startEvent' = TRUE
  /\ UNCHANGED <<integral_buffer, local>>

NewImage ==
  /\ LevelSensitive \/ ~startEvent
  /\ integral_buffer' \in Images
  /\ UNCHANGED <<START, startEvent, local>>

RunResetsSum(img) ==
  /\ accumulate' = Stage0(img, 0) + Stage1(img)
  /\ integral' = img[4]
  /\ is_face' = (Stage0(img, 0) < StageThreshold)

RunKeepsIntegral(img) ==
  /\ accumulate' = accumulate + Stage0(img, integral) + Stage1(img)
  /\ integral' = integral + img[4]
  /\ is_face' = (accumulate + Stage0(img, integral) < StageThreshold)

(* One run of the block.  Stage 1 adds to the sum but decides nothing.     *)
RunBlock(img) ==
  /\ accumulate' = accumulate + Stage0(img, integral) + Stage1(img)
  /\ integral' = img[4]
  /\ is_face' = (accumulate + Stage0(img, integral) < StageThreshold)

Run ==
  /\ START /\ runs < MaxRuns
  /\ startEvent \/ LevelSensitive
  /\ RunBlock(integral_buffer)
  /\ runs' = runs + 1
  /\ startEvent' = FALSE
  /\ UNCHANGED <<START, integral_buffer>>

(* START low: only the copy of is_face_local, which changes nothing.       *)
Idle ==
  /\ ~START /\ startEvent
  /\ startEvent' = FALSE
  /\ UNCHANGED <<START, integral_buffer, local>>

Next == Press \/ NewImage \/ Run \/ Idle

Spec == Init /\ [][Next]_vars

(***************************************************************************)
(* Properties.                                                             *)
(***************************************************************************)

(* The sums of one run outweigh the stage threshold and accumulate keeps   *)
(* them, so only the first run after power-up can report a face, whatever  *)
(* the images.                                                             *)
OnlyFirstRunFindsFaces == runs >= 2 => ~is_face

(* From accumulate = 0 the verdict hangs on the first feature alone: the   *)
(* right value of the first feature exceeds the stage threshold by itself, *)
(* and no choice of the other two reaches it.                              *)
FirstCornerDark == integral + integral_buffer[143] <= 4014

VerdictIsFirstFeature ==
  [][(runs' # runs /\ accumulate = 0) => (is_face' <=> FirstCornerDark)]_vars

(* What n runs add up to.  The three features whose threshold is negative  *)
(* are compared unsigned and always take their left value, which the      *)
(* upper bound of a run's score rests on.                                  *)
ScoresAddUp ==
  \E p \in PowerUp :
    /\ accumulate >= p + 3782855 * runs
    /\ accumulate <= p + 8306591 * runs

============================================================================
