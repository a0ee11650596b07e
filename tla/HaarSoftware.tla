---------------------------- MODULE HaarSoftware ----------------------------
(***************************************************************************)
(* HAAR_Comparison of main.c: stages of weak features, each the sum of the *)
(* image over its rectangles against a threshold.  feat_count, rect_count  *)
(* and accumulator are set once, before the first stage.  The doubles of   *)
(* the source carry integers and decimal fractions; the model scales them  *)
(* to integers.  One step sums a rectangle, scores a feature or ends a     *)
(* stage.                                                                  *)
(***************************************************************************)
EXTENDS Integers, Sums

CONSTANTS
  Stages, FEAT_NUMS, STAGE_DATA,      \* number of stages; per stage
  RECT_NUMS, FEAT_DATA,               \* per feature; FEAT_DATA as records
  RECT_DATA,                          \* rectangles as records
  Width,                              \* cells per image row (20)
  Images,                             \* what the registers may hold
  Scale                               \* the divisor 10000000 of a cell

ASSUME TableAssumption ==
  /\ Stages \in Nat \ {0} /\ Scale \in Nat \ {0} /\ Width \in Nat \ {0}
  /\ \A s \in 0 .. Stages - 1 :
       /\ s \in DOMAIN FEAT_NUMS /\ s \in DOMAIN STAGE_DATA
       /\ FEAT_NUMS[s] \in Nat /\ STAGE_DATA[s] \in Int
       /\ \A f \in 0 .. FEAT_NUMS[s] - 1 :
            /\ f \in DOMAIN RECT_NUMS /\ f \in DOMAIN FEAT_DATA
            /\ RECT_NUMS[f] \in Nat /\ 0 .. RECT_NUMS[f] - 1 \subseteq DOMAIN RECT_DATA
            /\ FEAT_DATA[f].left \in Int /\ FEAT_DATA[f].right \in Int
  /\ \A r \in DOMAIN RECT_DATA : RECT_DATA[r].x + RECT_DATA[r].w <= Width

VARIABLES
  image, pc,
  i, accumulator,       \* stage
  j, feat_upper_bound,  \* feature
  k, rect_upper_bound,  \* rectangle
  integral, result

vars == <<image, pc, i, accumulator, j, feat_upper_bound, k, rect_upper_bound, integral, result>>

feat_count == 0
rect_count == 0

RectCells(r) == { (r.y + dy) * Width + r.x + dx : dx \in 0 .. r.w - 1, dy \in 0 .. r.h - 1 }

(* Column by column, each from top to bottom.                              *)
Column(r, x, img) == SumBelow([dy \in 0 .. r.h - 1 |-> img[(r.y + dy) * Width + x] \div Scale], r.h)
RectSum(r, img)   == SumBelow([dx \in 0 .. r.w - 1 |-> Column(r, r.x + dx, img)], r.w)

Init ==
  /\ image \in Images
  /\ pc = "stage" /\ i = 0 /\ accumulator = 0
  /\ j = 0 /\ feat_upper_bound = 0
  /\ k = 0 /\ rect_upper_bound = 0
  /\ integral = 0 /\ result = FALSE

EnterStageResetsScore ==
  /\ pc = "stage" /\ i < Stages
  /\ feat_upper_bound' = feat_count + FEAT_NUMS[i]
  /\ j' = feat_count
  /\ accumulator' = 0
  /\ pc' = "feature"
  /\ UNCHANGED <<image, i, k, rect_upper_bound, integral, result>>

EnterStage ==
  /\ pc = "stage" /\ i < Stages
  /\ feat_upper_bound' = feat_count + FEAT_NUMS[i]
  /\ j' = feat_count
  /\ pc' = "feature"
  /\ UNCHANGED <<image, i, accumulator, k, rect_upper_bound, integral, result>>

EnterFeatureKeepsIntegral ==
  /\ pc = "feature" /\ j < feat_upper_bound
  /\ rect_upper_bound' = rect_count + RECT_NUMS[j]
  /\ k' = rect_count
  /\ pc' = "rectangle"
  /\ UNCHANGED <<image, i, accumulator, j, feat_upper_bound, integral, result>>

EnterFeature ==
  /\ pc = "feature" /\ j < feat_upper_bound
  /\ integral' = 0
  /\ rect_upper_bound' = rect_count + RECT_NUMS[j]
  /\ k' = rect_count
  /\ pc' = "rectangle"
  /\ UNCHANGED <<image, i, accumulator, j, feat_upper_bound, result>>

AddRectangle ==
  /\ pc = "rectangle" /\ k < rect_upper_bound
  /\ integral' = integral + RectSum(RECT_DATA[k], image)
  /\ k' = k + 1
  /\ UNCHANGED <<image, pc, i, accumulator, j, feat_upper_bound, rect_upper_bound, result>>

(* The threshold itself counts as reached. *)
ScoreFeatureAtLeast ==
  /\ pc = "rectangle" /\ k = rect_upper_bound
  /\ accumulator' = accumulator +
       (IF integral >= FEAT_DATA[j].threshold THEN FEAT_DATA[j].right ELSE FEAT_DATA[j].left)
  /\ j' = j + 1
  /\ pc' = "feature"
  /\ UNCHANGED <<image, i, feat_upper_bound, k, rect_upper_bound, integral, result>>

ScoreFeature ==
  /\ pc = "rectangle" /\ k = rect_upper_bound
  /\ accumulator' = accumulator +
       (IF integral > FEAT_DATA[j].threshold THEN FEAT_DATA[j].right ELSE FEAT_DATA[j].left)
  /\ j' = j + 1
  /\ pc' = "feature"
  /\ UNCHANGED <<image, i, feat_upper_bound, k, rect_upper_bound, integral, result>>

RestartStage ==
  /\ pc = "feature" /\ j = feat_upper_bound /\ accumulator >= STAGE_DATA[i]
  /\ accumulator' = 0
  /\ pc' = "stage"
  /\ UNCHANGED <<image, i, j, feat_upper_bound, k, rect_upper_bound, integral, result>>

PassStage ==
  /\ pc = "feature" /\ j = feat_upper_bound /\ accumulator >= STAGE_DATA[i]
  /\ i' = i + 1
  /\ pc' = "stage"
  /\ UNCHANGED <<image, accumulator, j, feat_upper_bound, k, rect_upper_bound, integral, result>>

FailStage ==
  /\ pc = "feature" /\ j = feat_upper_bound /\ accumulator < STAGE_DATA[i]
  /\ result' = FALSE
  /\ pc' = "returned"
  /\ UNCHANGED <<image, i, accumulator, j, feat_upper_bound, k, rect_upper_bound, integral>>

ReturnTrue ==
  /\ pc = "stage" /\ i = Stages
  /\ result' = TRUE
  /\ pc' = "returned"
  /\ UNCHANGED <<image, i, accumulator, j, feat_upper_bound, k, rect_upper_bound, integral>>

Next ==
  \/ EnterStage \/ EnterFeature \/ AddRectangle \/ ScoreFeature
  \/ PassStage \/ FailStage \/ ReturnTrue

Spec == Init /\ [][Next]_vars /\ WF_vars(Next)

(***************************************************************************)
(* What the function computes, in closed form.                             *)
(***************************************************************************)
RectSums(img) == [r \in DOMAIN RECT_DATA |-> RectSum(RECT_DATA[r], img)]
FirstRectangles(n, img) == SumBelow(RectSums(img), n)

FeatureScore(f, img) ==
  IF FirstRectangles(RECT_NUMS[f], img) > FEAT_DATA[f].threshold
  THEN FEAT_DATA[f].right ELSE FEAT_DATA[f].left

(* Stage s scores the first FEAT_NUMS[s] features of the whole table.      *)
FeatureScores(img) == [f \in DOMAIN FEAT_DATA |-> FeatureScore(f, img)]
StageScore(s, img) == SumBelow(FeatureScores(img), FEAT_NUMS[s])

StageScores(img)     == [s \in 0 .. Stages - 1 |-> StageScore(s, img)]
RunningScore(s, img) == SumBelow(StageScores(img), s + 1)

(* The verdict is true exactly if the running score of every stage, summed *)
(* over this and all earlier stages and always over the first features     *)
(* with the first rectangles, reaches that stage's threshold.              *)
VerdictInClosedForm ==
  pc = "returned" =>
    (result <=> \A s \in 0 .. Stages - 1 : RunningScore(s, image) >= STAGE_DATA[s])

(* The function returns.                                                   *)
Returns == <>(pc = "returned")
=============================================================================
