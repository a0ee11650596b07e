------------------------ MODULE HaarHardware_proofs ------------------------
(***************************************************************************)
(* What the verdicts of the hardware cascade are worth, for every set of   *)
(* images, every power-up value and any number of runs its width allows.   *)
(***************************************************************************)
EXTENDS HaarHardware, TLAPS

Between(n, low, high) == n \in Int /\ low <= n /\ n <= high

(* The scores of stage 0; StageThreshold is 822689, one more than the      *)
(* largest score without the first feature's right value.                  *)
LEMMA Stage0Bounds ==
  ASSUME NEW img \in [Corners -> Nat], NEW carry \in Nat
  PROVE  /\ Between(Stage0(img, carry), 198724, 1626704)
         /\ carry + img[143] <= 4014 => Stage0(img, carry) < StageThreshold
         /\ carry + img[143] > 4014 => Stage0(img, carry) >= StageThreshold
  BY SMT DEF Stage0, Score, Unsigned, StageThreshold, Corners, Between

(* Each addend of stage 1 is one of its two values, the left one where the *)
(* threshold is negative.                                                  *)
LEMMA Stage1Bounds ==
  ASSUME NEW img \in Images
  PROVE  Between(Stage1(img), 3584131, 6679887)
  <1>1. /\ img \in [Corners -> Nat]
        /\ \A c \in Corners : img[c] \in Nat /\ img[c] + 100000 < IntegralSpace
    BY SMT, ImageAssumption
  <1>2. /\ Score(img[123], -3522, 141316, 603189) = 141316
        /\ Score(img[136], -2148, 240646, 578705) = 240646
        /\ Score(img[54], -93949, 850273, 471774) = 850273
    BY SMT, <1>1, WidthAssumption DEF Score, Unsigned, Corners, Between
  <1>3. Between(Score(img[4], 5002, 169367, 655400) + Score(img[4], 1377, 599367, 283452),
                452819, 938852)
    BY SMT, <1>1 DEF Score, Unsigned, Corners, Between
  <1>4. /\ Between(Score(img[125], 1622, 693085, 711094), 693085, 711094)
        /\ Between(Score(img[107], 2290, 179580, 666869), 179580, 666869)
        /\ Between(Score(img[186], 7965, 586633, 91414), 91414, 586633)
        /\ Between(Score(img[34], 36667, 367567, 792031), 367567, 792031)
    BY SMT, <1>1 DEF Score, Unsigned, Corners, Between
  <1>5. /\ Between(Score(img[167], 9336, 616138, 208850), 208850, 616138)
        /\ Between(Score(img[161], 1148, 222358, 580070), 222358, 580070)
        /\ Between(Score(img[345], 2121, 555965, 136223), 136223, 555965)
    BY SMT, <1>1 DEF Score, Unsigned, Corners, Between
  <1>6. /\ Score(img[4], 5002, 169367, 655400) \in Int
        /\ Score(img[4], 1377, 599367, 283452) \in Int
    BY SMT, <1>1 DEF Score, Unsigned, Corners, Between
  <1> QED
    BY SMT, <1>2, <1>3, <1>4, <1>5, <1>6 DEF Stage1, Between

(* accumulate after n runs; from the second on it started above the        *)
(* threshold of stage 0, which no further score can undo.                  *)
IInv == TypeOK /\ ScoresAddUp /\ OnlyFirstRunFindsFaces

LEMMA IntegralIsNat == TypeOK => integral \in Nat
  BY SMT, WidthAssumption, ImageAssumption DEF TypeOK, Corners

LEMMA InitInv == Init => IInv
  <1> SUFFICES ASSUME Init PROVE IInv
    OBVIOUS
  <1>1. accumulate \in Nat /\ integral \in PowerUp /\ runs \in 0 .. MaxRuns
    BY SMT, WidthAssumption DEF Init
  <1>2. TypeOK
    <2>1. START \in BOOLEAN /\ startEvent \in BOOLEAN /\ is_face \in BOOLEAN
      BY Zenon DEF Init
    <2> QED
      BY <1>1, <2>1 DEF TypeOK, Init
  <1>3. ScoresAddUp
    BY SMT, <1>1, WidthAssumption DEF ScoresAddUp, Init, Between
  <1>4. OnlyFirstRunFindsFaces
    BY SMT, <1>1 DEF OnlyFirstRunFindsFaces, Init
  <1> QED
    BY SMT, <1>2, <1>3, <1>4 DEF IInv

LEMMA RunInv ==
  ASSUME IInv, Run
  PROVE  IInv'
  <1> DEFINE img == integral_buffer
             s0 == Stage0(img, integral)
             s1 == Stage1(img)
  <1>1. /\ img \in Images /\ img \in [Corners -> Nat]
        /\ integral \in Nat /\ accumulate \in Nat /\ runs \in 0 .. MaxRuns /\ runs < MaxRuns
    BY SMT, ImageAssumption, IntegralIsNat DEF IInv, TypeOK, Run
  <1>2. Between(s0, 198724, 1626704) /\ Between(s1, 3584131, 6679887)
    BY SMT, <1>1, Stage0Bounds, Stage1Bounds
  <1>3. /\ accumulate' = accumulate + s0 + s1
        /\ is_face' = (accumulate + s0 < StageThreshold)
        /\ runs' = runs + 1
        /\ integral' = img[4]
        /\ startEvent' = FALSE
        /\ UNCHANGED <<START, integral_buffer>>
    BY SMT, <1>1, Stage0Bounds, Stage1Bounds DEF Run, RunBlock, Between
  <1> HIDE DEF s0, s1
  <1>4. ScoresAddUp'
    <2>1. PICK p \in PowerUp : accumulate >= p + 3782855 * runs /\ accumulate <= p + 8306591 * runs
      BY SMT DEF IInv, ScoresAddUp, Between
    <2>2. p \in Nat
      BY SMT, WidthAssumption
    <2>3. accumulate' >= p + 3782855 * runs' /\ accumulate' <= p + 8306591 * runs'
      BY SMT, <1>1, <1>2, <1>3, <2>1, <2>2 DEF Between
    <2> QED
      BY SMT, <2>3 DEF ScoresAddUp, Between
  <1>5. OnlyFirstRunFindsFaces'
    <2> SUFFICES ASSUME runs' >= 2 PROVE ~is_face'
      BY SMT DEF OnlyFirstRunFindsFaces
    <2>1. PICK p \in PowerUp : accumulate >= p + 3782855 * runs /\ accumulate <= p + 8306591 * runs
      BY SMT DEF IInv, ScoresAddUp, Between
    <2>2. accumulate >= 3782855
      BY SMT, <1>1, <1>3, <2>1, WidthAssumption
    <2>3. ~(accumulate + s0 < StageThreshold)
      BY SMT, <1>1, <1>2, <2>2 DEF StageThreshold, Between
    <2> QED
      BY Zenon, <1>3, <2>3
  <1>6. TypeOK'
    <2>1. accumulate' \in Nat /\ integral' \in {i[4] : i \in Images} /\ runs' \in 0 .. MaxRuns
      BY SMT, <1>1, <1>2, <1>3, WidthAssumption DEF Corners, Between
    <2>2. is_face' \in BOOLEAN /\ startEvent' \in BOOLEAN
      <3>1. (accumulate + s0 < StageThreshold) \in BOOLEAN
        BY SMT
      <3> QED
        BY Zenon, <1>3, <3>1
    <2> QED
      BY SMT, <1>3, <2>1, <2>2 DEF TypeOK, IInv
  <1> QED
    BY SMT, <1>4, <1>5, <1>6 DEF IInv

LEMMA StepInv == IInv /\ [Next]_vars => IInv'
  <1> SUFFICES ASSUME IInv, [Next]_vars PROVE IInv'
    OBVIOUS
  <1>1. CASE Run
    BY SMT, <1>1, RunInv
  <1>2. CASE ~Run
    <2>1. UNCHANGED local
      BY SMT, <1>2 DEF Next, Press, NewImage, Idle, vars
    <2>3. START' \in BOOLEAN /\ startEvent' \in BOOLEAN
      BY Zenon, <1>2 DEF Next, Press, NewImage, Idle, vars, IInv, TypeOK
    <2>2. integral_buffer' \in Images
      BY SMT, <1>2 DEF Next, Press, NewImage, Idle, vars, IInv, TypeOK
    <2> QED
      BY SMT, <2>1, <2>2, <2>3 DEF IInv, TypeOK, ScoresAddUp, OnlyFirstRunFindsFaces, local, Between
  <1> QED
    BY SMT, <1>1, <1>2

LEMMA Invariance == Spec => []IInv
  BY InitInv, StepInv, PTL DEF Spec

(* Types, and the bound on the runs.                                       *)
THEOREM TypeCorrect == Spec => []TypeOK
  BY Invariance, PTL DEF IInv

(* From the second run on no image whatsoever is reported as a face.       *)
THEOREM SecondRunFindsNone == Spec => []OnlyFirstRunFindsFaces
  BY Invariance, PTL DEF IInv

(* Every run adds between 3782855 and 8306591 to accumulate.               *)
THEOREM RunsAddUp == Spec => []ScoresAddUp
  BY Invariance, PTL DEF IInv

(* The first verdict depends on one corner of the image and nothing else.  *)
THEOREM OneFeatureDecides == Spec => VerdictIsFirstFeature
  <1>1. IInv /\ [Next]_vars =>
          [(runs' # runs /\ accumulate = 0) =>
             (is_face' <=> FirstCornerDark)]_vars
    <2> SUFFICES ASSUME IInv, Next, runs' # runs, accumulate = 0
                 PROVE  is_face' <=> FirstCornerDark
      OBVIOUS
    <2>1. Run
      BY SMT DEF Next, Press, NewImage, Idle, local
    <2>2. is_face' = (0 + Stage0(integral_buffer, integral) < StageThreshold)
      BY SMT, <2>1 DEF Run, RunBlock
    <2>3. integral_buffer \in [Corners -> Nat] /\ integral \in Nat
      BY SMT, ImageAssumption, IntegralIsNat DEF IInv, TypeOK
    <2>4. integral_buffer[143] \in Nat
      BY SMT, <2>3 DEF Corners
    <2> QED
      <3>1. (Stage0(integral_buffer, integral) < StageThreshold)
              <=> FirstCornerDark
        BY SMT, <2>3, <2>4, Stage0Bounds DEF FirstCornerDark, StageThreshold, Between
      <3>2. 0 + Stage0(integral_buffer, integral) = Stage0(integral_buffer, integral)
        BY SMT, <2>3, Stage0Bounds DEF Between
      <3>3. is_face' = (Stage0(integral_buffer, integral) < StageThreshold)
        BY Zenon, <2>2, <3>2
      <3>4. is_face' <=> Stage0(integral_buffer, integral) < StageThreshold
        BY Zenon, <3>3
      <3> QED
        BY Zenon, <3>1, <3>4
  <1> QED
    BY <1>1, Invariance, PTL DEF Spec, VerdictIsFirstFeature
=============================================================================
