------------------------ MODULE HaarSoftware_proofs ------------------------
(***************************************************************************)
(* What the firmware's cascade computes, for every image and every tables: *)
(* the loop nest adds up, rectangle by rectangle, feature by feature and   *)
(* stage by stage, exactly the sums of the closed form.  On the tables of  *)
(* the header the closed form comes down to one rectangle's cells.  At the *)
(* end, what the generator of those tables computes and prints.            *)
(***************************************************************************)
EXTENDS HaarTables, HaarXmlParser, WellFoundedInduction, TLAPS

(***************************************************************************)
(* Sums.  What a recursive function computes rests on the order of the     *)
(* naturals: in every nonempty set of them one is least.                   *)
(***************************************************************************)
LEMMA LessIsWellFounded == IsWellFoundedOn({ss \in Nat \X Nat : ss[1] < ss[2]}, Nat)
  BY NatLessThanWellFounded, Zenon DEF OpToRel

LEMMA Least ==
  ASSUME NEW T \in SUBSET Nat, T # {}
  PROVE  \E x \in T : \A y \in T : x <= y
  <1> DEFINE R == {ss \in Nat \X Nat : ss[1] < ss[2]}
  <1>1. PICK x \in T : \A y \in T : ~(<<y, x>> \in R)
    <2>1. IsWellFoundedOn(R, Nat)
      BY LessIsWellFounded
    <2> HIDE DEF R
    <2> QED
      BY <2>1, WFMin
  <1>2. \A y \in T : x <= y
    <2> TAKE y \in T
    <2>1. <<y, x>> \in Nat \X Nat /\ ~(y < x)
      BY <1>1
    <2> QED
      BY <2>1
  <1> QED
    BY <1>2

(* A set of naturals that holds 0 and with every number the next is Nat.   *)
LEMMA Everything ==
  ASSUME NEW S \in SUBSET Nat, 0 \in S, \A n \in S : n + 1 \in S
  PROVE  S = Nat
  <1> SUFFICES ASSUME S # Nat
               PROVE  FALSE
    OBVIOUS
  <1>1. PICK x \in Nat \ S : \A y \in Nat \ S : x <= y
    BY Least
  <1>2. x # 0 /\ x - 1 \in Nat /\ ~(x <= x - 1)
    BY <1>1
  <1>3. x - 1 \in S
    BY <1>1, <1>2
  <1> QED
    BY <1>1, <1>2, <1>3

(* g is the beginning, up to n, of the partial sums of f.                  *)
PartialSums(f, n, g) ==
  g = [m \in 0 .. n |-> IF m = 0 THEN 0 ELSE g[m - 1] + f[m - 1]]

LEMMA PartialSumsExist ==
  ASSUME NEW f
  PROVE  \A n \in Nat : \E g : PartialSums(f, n, g)
  <1> DEFINE S == {n \in Nat : \E g : PartialSums(f, n, g)}
  <1>1. 0 \in S
    <2>1. PartialSums(f, 0, [m \in 0 .. 0 |-> 0])
      BY DEF PartialSums
    <2> QED
      BY <2>1
  <1>2. ASSUME NEW n \in S
        PROVE  n + 1 \in S
    <2>1. PICK g : PartialSums(f, n, g)
      OBVIOUS
    <2> DEFINE h == [m \in 0 .. n + 1 |-> IF m = n + 1 THEN g[n] + f[n] ELSE g[m]]
    <2>2. \A m \in 0 .. n : h[m] = g[m]
      OBVIOUS
    <2>3. \A m \in 0 .. n : g[m] = IF m = 0 THEN 0 ELSE g[m - 1] + f[m - 1]
      BY <2>1 DEF PartialSums
    <2>4. ASSUME NEW m \in 0 .. n + 1
          PROVE  h[m] = IF m = 0 THEN 0 ELSE h[m - 1] + f[m - 1]
      <3>1. CASE m = n + 1
        BY <2>2, <3>1
      <3>2. CASE m \in 0 .. n
        <4>1. m # 0 => m - 1 \in 0 .. n
          BY <3>2
        <4> QED
          BY <2>2, <2>3, <3>2, <4>1
      <3> QED
        BY <3>1, <3>2
    <2> HIDE DEF h
    <2>5. h = [m \in 0 .. n + 1 |-> h[m]]
      BY DEF h
    <2>6. PartialSums(f, n + 1, h)
      BY <2>4, <2>5 DEF PartialSums
    <2> QED
      BY <2>6
  <1> HIDE DEF S
  <1>3. S = Nat
    <2>1. S \subseteq Nat
      BY DEF S
    <2> QED
      BY <1>1, <1>2, <2>1, Everything
  <1> QED
    BY <1>3 DEF S

LEMMA PartialSumsAgree ==
  ASSUME NEW f, NEW n \in Nat, NEW l \in Nat, NEW g, NEW h,
         PartialSums(f, n, g), PartialSums(f, l, h)
  PROVE  \A m \in Nat : m <= n /\ m <= l => g[m] = h[m]
  <1> DEFINE S == {m \in Nat : m <= n /\ m <= l => g[m] = h[m]}
  <1>1. \A m \in 0 .. n : g[m] = IF m = 0 THEN 0 ELSE g[m - 1] + f[m - 1]
    BY DEF PartialSums
  <1>2. \A m \in 0 .. l : h[m] = IF m = 0 THEN 0 ELSE h[m - 1] + f[m - 1]
    BY DEF PartialSums
  <1>3. 0 \in S
    BY <1>1, <1>2
  <1>4. ASSUME NEW m \in S
        PROVE  m + 1 \in S
    <2> SUFFICES ASSUME m + 1 <= n, m + 1 <= l
                 PROVE  g[m + 1] = h[m + 1]
      OBVIOUS
    <2>1. g[m] = h[m]
      OBVIOUS
    <2>2. g[m + 1] = g[m] + f[m]
      BY <1>1
    <2>3. h[m + 1] = h[m] + f[m]
      BY <1>2
    <2> QED
      BY <2>1, <2>2, <2>3
  <1> HIDE DEF S
  <1>5. S = Nat
    <2>1. S \subseteq Nat
      BY DEF S
    <2> QED
      BY <1>3, <1>4, <2>1, Everything
  <1> QED
    BY <1>5 DEF S

(* SumBelow does what its recursive function says.                         *)
LEMMA SumSteps ==
  ASSUME NEW f
  PROVE  /\ SumBelow(f, 0) = 0
         /\ \A n \in Nat : SumBelow(f, n + 1) = SumBelow(f, n) + f[n]
  <1> DEFINE upTo == [n \in Nat |-> CHOOSE g : PartialSums(f, n, g)]
             sums == [n \in Nat |-> upTo[n][n]]
             Is(s) == s = [m \in Nat |-> IF m = 0 THEN 0 ELSE s[m - 1] + f[m - 1]]
  <1>1. \A n \in Nat : PartialSums(f, n, upTo[n])
    BY PartialSumsExist
  <1>2. ASSUME NEW n \in Nat
        PROVE  sums[n] = IF n = 0 THEN 0 ELSE sums[n - 1] + f[n - 1]
    <2>1. upTo[n][n] = IF n = 0 THEN 0 ELSE upTo[n][n - 1] + f[n - 1]
      <3> DEFINE g == upTo[n]
      <3>1. PartialSums(f, n, g)
        BY <1>1
      <3> HIDE DEF g
      <3>2. \A m \in 0 .. n : g[m] = IF m = 0 THEN 0 ELSE g[m - 1] + f[m - 1]
        BY <3>1 DEF PartialSums
      <3>3. g[n] = IF n = 0 THEN 0 ELSE g[n - 1] + f[n - 1]
        BY <3>2
      <3> QED
        BY <3>3 DEF g
    <2>2. n # 0 => n - 1 \in Nat /\ upTo[n][n - 1] = upTo[n - 1][n - 1]
      <3> HIDE DEF upTo
      <3> SUFFICES ASSUME n # 0
                   PROVE  n - 1 \in Nat /\ upTo[n][n - 1] = upTo[n - 1][n - 1]
        OBVIOUS
      <3>1. n - 1 \in Nat /\ n - 1 <= n
        OBVIOUS
      <3> DEFINE g == upTo[n]  h == upTo[n - 1]
      <3>2. PartialSums(f, n, g) /\ PartialSums(f, n - 1, h)
        BY <1>1, <3>1
      <3> HIDE DEF g, h
      <3>3. g[n - 1] = h[n - 1]
        BY <3>1, <3>2, PartialSumsAgree
      <3> QED
        BY <3>1, <3>3 DEF g, h
    <2>3. sums[n] = upTo[n][n] /\ (n # 0 => sums[n - 1] = upTo[n - 1][n - 1])
      BY <2>2
    <2> HIDE DEF upTo, sums
    <2> QED
      BY <2>1, <2>2, <2>3
  <1>3. Is(sums)
    <2> HIDE DEF upTo
    <2>1. sums = [n \in Nat |-> sums[n]]
      OBVIOUS
    <2> HIDE DEF sums
    <2> QED
      BY <1>2, <2>1
  <1> DEFINE sum == CHOOSE s : Is(s)
  <1>4. Is(sum)
    <2> HIDE DEF Is
    <2> QED
      BY <1>3
  <1>5. \A n : SumBelow(f, n) = sum[n]
    BY DEF SumBelow
  <1>6. \A n \in Nat : sum[n] = IF n = 0 THEN 0 ELSE sum[n - 1] + f[n - 1]
    <2> HIDE DEF sum
    <2> QED
      BY <1>4
  <1> HIDE DEF sum
  <1>7. sum[0] = 0
    BY <1>6
  <1>8. \A n \in Nat : sum[n + 1] = sum[n] + f[n]
    <2> TAKE n \in Nat
    <2>1. n + 1 \in Nat /\ n + 1 # 0 /\ (n + 1) - 1 = n
      OBVIOUS
    <2> QED
      BY <1>6, <2>1
  <1> QED
    BY <1>5, <1>7, <1>8

LEMMA SumIsInt ==
  ASSUME NEW f, NEW n \in Nat, \A m \in 0 .. n - 1 : f[m] \in Int
  PROVE  SumBelow(f, n) \in Int
  <1> DEFINE S == {m \in Nat : m <= n => SumBelow(f, m) \in Int}
  <1>1. 0 \in S
    BY SumSteps
  <1>2. ASSUME NEW m \in S
        PROVE  m + 1 \in S
    <2> SUFFICES ASSUME m + 1 <= n
                 PROVE  SumBelow(f, m + 1) \in Int
      OBVIOUS
    <2>1. SumBelow(f, m) \in Int /\ f[m] \in Int
      OBVIOUS
    <2>2. SumBelow(f, m + 1) = SumBelow(f, m) + f[m]
      BY SumSteps
    <2> QED
      BY <2>1, <2>2
  <1> HIDE DEF S
  <1>3. S = Nat
    <2>1. S \subseteq Nat
      BY DEF S
    <2> QED
      BY <1>1, <1>2, <2>1, Everything
  <1> QED
    BY <1>3 DEF S

(***************************************************************************)
(* The tables.                                                             *)
(***************************************************************************)
LEMMA ScoreIsInt ==
  ASSUME NEW img, NEW s \in 0 .. Stages - 1
  PROVE  /\ \A f \in 0 .. FEAT_NUMS[s] - 1 :
              FeatureScores(img)[f] = FeatureScore(f, img) /\ FeatureScore(f, img) \in Int
         /\ \A n \in 0 .. FEAT_NUMS[s] : SumBelow(FeatureScores(img), n) \in Int
         /\ StageScores(img)[s] = StageScore(s, img) /\ StageScore(s, img) \in Int
  <1>1. /\ FEAT_NUMS[s] \in Nat
        /\ \A f \in 0 .. FEAT_NUMS[s] - 1 :
             f \in DOMAIN FEAT_DATA /\ FEAT_DATA[f].left \in Int /\ FEAT_DATA[f].right \in Int
    BY TableAssumption
  <1>2. \A f \in 0 .. FEAT_NUMS[s] - 1 :
          FeatureScores(img)[f] = FeatureScore(f, img) /\ FeatureScore(f, img) \in Int
    BY <1>1 DEF FeatureScores, FeatureScore
  <1>3. ASSUME NEW n \in 0 .. FEAT_NUMS[s]
        PROVE  SumBelow(FeatureScores(img), n) \in Int
    <2>1. n \in Nat /\ \A f \in 0 .. n - 1 : FeatureScores(img)[f] \in Int
      BY <1>1, <1>2
    <2> QED
      BY <2>1, SumIsInt
  <1>4. StageScore(s, img) \in Int
    BY <1>1, <1>3 DEF StageScore
  <1> QED
    BY <1>2, <1>3, <1>4 DEF StageScores

LEMMA RunningIsInt ==
  ASSUME NEW img, NEW n \in 0 .. Stages
  PROVE  /\ SumBelow(StageScores(img), n) \in Int
         /\ n < Stages => RunningScore(n, img) = SumBelow(StageScores(img), n) + StageScore(n, img)
  <1>1. n \in Nat /\ Stages \in Nat
    BY TableAssumption
  <1>2. \A s \in 0 .. n - 1 : StageScores(img)[s] \in Int
    BY <1>1, ScoreIsInt
  <1>3. SumBelow(StageScores(img), n) \in Int
    BY <1>1, <1>2, SumIsInt
  <1>4. SumBelow(StageScores(img), n + 1) = SumBelow(StageScores(img), n) + StageScores(img)[n]
    BY <1>1, SumSteps
  <1>5. n < Stages => StageScores(img)[n] = StageScore(n, img)
    BY <1>1, ScoreIsInt
  <1> QED
    BY <1>3, <1>4, <1>5 DEF RunningScore

(***************************************************************************)
(* The loops.  Before and between stages the accumulator holds the running *)
(* score; inside a stage also the scores of the features done; inside a    *)
(* feature the integral holds the rectangles done.                         *)
(***************************************************************************)
Labels == {"stage", "feature", "rectangle", "returned"}

StageLoop ==
  /\ i \in 0 .. Stages
  /\ \A s \in 0 .. i - 1 : RunningScore(s, image) >= STAGE_DATA[s]
  /\ pc = "stage" => accumulator = SumBelow(StageScores(image), i)

FeatureLoop ==
  pc \in {"feature", "rectangle"} =>
    /\ i < Stages
    /\ feat_upper_bound = FEAT_NUMS[i] /\ j \in 0 .. feat_upper_bound
    /\ accumulator = SumBelow(StageScores(image), i) + SumBelow(FeatureScores(image), j)

RectangleLoop ==
  pc = "rectangle" =>
    /\ j < feat_upper_bound
    /\ rect_upper_bound = RECT_NUMS[j] /\ k \in 0 .. rect_upper_bound
    /\ integral = FirstRectangles(k, image)

Verdict ==
  pc = "returned" =>
    IF result THEN i = Stages ELSE i < Stages /\ RunningScore(i, image) < STAGE_DATA[i]

IInv ==
  /\ pc \in Labels /\ result \in BOOLEAN
  /\ StageLoop /\ FeatureLoop /\ RectangleLoop /\ Verdict
LEMMA InitInv == Init => IInv
  <1> SUFFICES ASSUME Init
               PROVE  IInv
    OBVIOUS
  <1>1. 0 \in 0 .. Stages /\ SumBelow(StageScores(image), 0) = 0
    BY TableAssumption, SumSteps
  <1>2. StageLoop
    BY <1>1 DEF Init, StageLoop
  <1> QED
    BY <1>2 DEF Init, IInv, Labels, FeatureLoop, RectangleLoop, Verdict

LEMMA EnterStageInv ==
  ASSUME IInv, EnterStage
  PROVE  IInv'
  <1> USE DEF IInv, EnterStage
  <1>1. i \in 0 .. Stages /\ i \in 0 .. Stages - 1 /\ FEAT_NUMS[i] \in Nat
    BY TableAssumption DEF StageLoop
  <1>2. SumBelow(StageScores(image), i) \in Int /\ SumBelow(FeatureScores(image), 0) = 0
    BY <1>1, RunningIsInt, SumSteps
  <1>3. StageLoop'
    BY DEF StageLoop
  <1>4. FeatureLoop'
    BY <1>1, <1>2 DEF FeatureLoop, StageLoop, feat_count
  <1> QED
    BY <1>3, <1>4 DEF Labels, RectangleLoop, Verdict

LEMMA EnterFeatureInv ==
  ASSUME IInv, EnterFeature
  PROVE  IInv'
  <1> USE DEF IInv, EnterFeature
  <1>1. i \in 0 .. Stages - 1 /\ j \in 0 .. FEAT_NUMS[i] - 1 /\ j < feat_upper_bound
    BY TableAssumption DEF StageLoop, FeatureLoop
  <1>2. RECT_NUMS[j] \in Nat /\ FirstRectangles(0, image) = 0
    BY <1>1, TableAssumption, SumSteps DEF FirstRectangles
  <1>3. StageLoop' /\ FeatureLoop'
    BY DEF StageLoop, FeatureLoop
  <1>4. RectangleLoop'
    BY <1>1, <1>2 DEF RectangleLoop, rect_count
  <1> QED
    BY <1>3, <1>4 DEF Labels, Verdict

LEMMA AddRectangleInv ==
  ASSUME IInv, AddRectangle
  PROVE  IInv'
  <1> USE DEF IInv, AddRectangle
  <1>1. /\ i \in 0 .. Stages - 1 /\ j \in 0 .. FEAT_NUMS[i] - 1
        /\ k \in 0 .. RECT_NUMS[j] - 1 /\ k + 1 \in 0 .. rect_upper_bound
    BY TableAssumption DEF StageLoop, FeatureLoop, RectangleLoop
  <1>2. k \in Nat /\ k \in DOMAIN RECT_DATA
    BY <1>1, TableAssumption
  <1>3. FirstRectangles(k + 1, image) = FirstRectangles(k, image) + RectSum(RECT_DATA[k], image)
    BY <1>2, SumSteps DEF FirstRectangles, RectSums
  <1>4. RectangleLoop'
    BY <1>1, <1>3 DEF RectangleLoop
  <1> QED
    BY <1>4 DEF Labels, StageLoop, FeatureLoop, Verdict

LEMMA ScoreFeatureInv ==
  ASSUME IInv, ScoreFeature
  PROVE  IInv'
  <1> USE DEF IInv, ScoreFeature
  <1>1. /\ i \in 0 .. Stages /\ i \in 0 .. Stages - 1 /\ FEAT_NUMS[i] \in Nat
        /\ j \in 0 .. FEAT_NUMS[i] /\ j \in 0 .. FEAT_NUMS[i] - 1 /\ j + 1 \in 0 .. feat_upper_bound
    BY TableAssumption DEF StageLoop, FeatureLoop, RectangleLoop
  <1>2. accumulator' = accumulator + FeatureScore(j, image)
    BY DEF RectangleLoop, FeatureScore
  <1>3. /\ accumulator = SumBelow(StageScores(image), i) + SumBelow(FeatureScores(image), j)
        /\ SumBelow(StageScores(image), i) \in Int
        /\ SumBelow(FeatureScores(image), j) \in Int
    BY <1>1, RunningIsInt, ScoreIsInt DEF FeatureLoop
  <1>4. /\ FeatureScore(j, image) \in Int
        /\ SumBelow(FeatureScores(image), j + 1)
             = SumBelow(FeatureScores(image), j) + FeatureScore(j, image)
    <2>1. FeatureScores(image)[j] = FeatureScore(j, image) /\ FeatureScore(j, image) \in Int
      BY <1>1, ScoreIsInt
    <2>2. j \in Nat
      BY <1>1
    <2> QED
      BY <2>1, <2>2, SumSteps
  <1>5. accumulator' = SumBelow(StageScores(image), i) + SumBelow(FeatureScores(image), j + 1)
    BY <1>2, <1>3, <1>4
  <1>6. FeatureLoop'
    BY <1>1, <1>5 DEF FeatureLoop
  <1> QED
    BY <1>6 DEF Labels, StageLoop, RectangleLoop, Verdict

(* At the end of a stage the accumulator is that stage's running score.    *)
LEMMA StageIsScored ==
  ASSUME IInv, pc = "feature", j = feat_upper_bound
  PROVE  /\ i \in 0 .. Stages - 1 /\ STAGE_DATA[i] \in Int
         /\ accumulator \in Int /\ accumulator = RunningScore(i, image)
         /\ accumulator = SumBelow(StageScores(image), i + 1)
  <1>1. i \in 0 .. Stages /\ i < Stages /\ i \in 0 .. Stages - 1 /\ STAGE_DATA[i] \in Int
    BY TableAssumption DEF IInv, StageLoop, FeatureLoop
  <1>2. accumulator = SumBelow(StageScores(image), i) + StageScore(i, image)
    BY DEF IInv, FeatureLoop, StageScore
  <1>3. SumBelow(StageScores(image), i) \in Int /\ StageScore(i, image) \in Int
    BY <1>1, RunningIsInt, ScoreIsInt
  <1>4. RunningScore(i, image) = SumBelow(StageScores(image), i) + StageScore(i, image)
    BY <1>1, RunningIsInt
  <1> QED
    BY <1>1, <1>2, <1>3, <1>4 DEF RunningScore

LEMMA PassStageInv ==
  ASSUME IInv, PassStage
  PROVE  IInv'
  <1> USE DEF PassStage
  <1>1. /\ i \in 0 .. Stages - 1 /\ i + 1 \in 0 .. Stages
        /\ RunningScore(i, image) >= STAGE_DATA[i]
        /\ accumulator = SumBelow(StageScores(image), i + 1)
    BY StageIsScored, TableAssumption
  <1>2. ASSUME NEW s \in 0 .. (i + 1) - 1
        PROVE  RunningScore(s, image) >= STAGE_DATA[s]
    <2>1. s = i \/ s \in 0 .. i - 1
      BY <1>1
    <2> QED
      BY <1>1, <2>1 DEF IInv, StageLoop
  <1>3. StageLoop'
    BY <1>1, <1>2 DEF StageLoop
  <1> QED
    BY <1>3 DEF IInv, Labels, FeatureLoop, RectangleLoop, Verdict

LEMMA FailStageInv ==
  ASSUME IInv, FailStage
  PROVE  IInv'
  <1> USE DEF IInv, FailStage
  <1>1. i < Stages /\ RunningScore(i, image) < STAGE_DATA[i]
    BY StageIsScored, TableAssumption
  <1>2. StageLoop' /\ Verdict'
    BY <1>1 DEF StageLoop, Verdict
  <1> QED
    BY <1>2 DEF Labels, FeatureLoop, RectangleLoop

LEMMA ReturnTrueInv ==
  ASSUME IInv, ReturnTrue
  PROVE  IInv'
  BY DEF IInv, ReturnTrue, Labels, StageLoop, FeatureLoop, RectangleLoop, Verdict

(* In every state of the call the accumulator and the integral hold the    *)
(* sums of the table entries passed so far, and every stage left behind    *)
(* has reached its threshold.                                              *)
THEOREM Invariance == Spec => []IInv
  <1>1. IInv /\ [Next]_vars => IInv'
    <2> SUFFICES ASSUME IInv, [Next]_vars
                 PROVE  IInv'
      OBVIOUS
    <2>1. CASE UNCHANGED vars
      BY <2>1 DEF vars, IInv, StageLoop, FeatureLoop, RectangleLoop, Verdict
    <2>2. CASE Next
      BY <2>2, EnterStageInv, EnterFeatureInv, AddRectangleInv, ScoreFeatureInv,
         PassStageInv, FailStageInv, ReturnTrueInv DEF Next
    <2> QED
      BY <2>1, <2>2
  <1> QED
    BY InitInv, <1>1, PTL DEF Spec

(* HAAR_Comparison returns true exactly if the running score of every      *)
(* stage reaches the stage's threshold, for all tables and images: the     *)
(* score is never cleared and every stage starts at the first feature,     *)
(* every feature at the first rectangle.                                   *)
THEOREM VerdictIsClosedForm == Spec => []VerdictInClosedForm
  <1>1. IInv => VerdictInClosedForm
    <2> SUFFICES ASSUME IInv, pc = "returned"
                 PROVE  result <=> \A s \in 0 .. Stages - 1 : RunningScore(s, image) >= STAGE_DATA[s]
      BY DEF VerdictInClosedForm
    <2>1. CASE result
      BY <2>1 DEF IInv, StageLoop, Verdict
    <2>2. CASE ~result
      <3>1. i \in 0 .. Stages - 1 /\ RunningScore(i, image) < STAGE_DATA[i]
        BY <2>2, TableAssumption DEF IInv, StageLoop, Verdict
      <3>2. STAGE_DATA[i] \in Int /\ RunningScore(i, image) \in Int
        BY <3>1, TableAssumption, RunningIsInt, ScoreIsInt
      <3> QED
        BY <2>2, <3>1, <3>2
    <2> QED
      BY <2>1, <2>2
  <1> QED
    BY <1>1, Invariance, PTL
(***************************************************************************)
(* The reads of the tables and the ways on from each point of the code.    *)
(***************************************************************************)
ReadsInRange ==
  /\ (pc = "stage" /\ i < Stages) => i \in DOMAIN FEAT_NUMS
  /\ (pc = "feature" /\ j < feat_upper_bound) => j \in DOMAIN RECT_NUMS
  /\ (pc = "feature" /\ j = feat_upper_bound) => i \in DOMAIN STAGE_DATA
  /\ (pc = "rectangle" /\ k < rect_upper_bound) => k \in DOMAIN RECT_DATA
  /\ (pc = "rectangle" /\ k = rect_upper_bound) => j \in DOMAIN FEAT_DATA

GoesOn ==
  \/ pc = "stage" /\ (i < Stages \/ i = Stages)
  \/ pc = "feature" /\ (j < feat_upper_bound \/ j = feat_upper_bound)
  \/ pc = "rectangle" /\ (k < rect_upper_bound \/ k = rect_upper_bound)
  \/ pc = "returned"

(* No loop passes its bound: every entry of the tables the function reads  *)
(* exists, for the offsets as main.c sets them, and the function is never  *)
(* between two of its steps with none to take.                             *)
THEOREM LoopsStayInTables == Spec => [](ReadsInRange /\ GoesOn)
  <1>1. IInv => ReadsInRange /\ GoesOn
    <2> SUFFICES ASSUME IInv
                 PROVE  ReadsInRange /\ GoesOn
      OBVIOUS
    <2> USE DEF IInv
    <2>1. CASE pc = "stage"
      BY <2>1, TableAssumption DEF StageLoop, ReadsInRange, GoesOn
    <2>2. CASE pc = "feature"
      BY <2>2, TableAssumption DEF StageLoop, FeatureLoop, ReadsInRange, GoesOn
    <2>3. CASE pc = "rectangle"
      <3>1. i \in 0 .. Stages - 1 /\ j \in 0 .. FEAT_NUMS[i] - 1 /\ k \in 0 .. rect_upper_bound
        BY <2>3, TableAssumption DEF StageLoop, FeatureLoop, RectangleLoop
      <3>2. RECT_NUMS[j] \in Nat /\ rect_upper_bound = RECT_NUMS[j]
        BY <2>3, <3>1, TableAssumption DEF RectangleLoop
      <3>3. k < rect_upper_bound \/ k = rect_upper_bound
        BY <3>1, <3>2
      <3>4. k < rect_upper_bound => k \in 0 .. RECT_NUMS[j] - 1
        BY <3>1, <3>2
      <3> QED
        BY <2>3, <3>1, <3>3, <3>4, TableAssumption DEF ReadsInRange, GoesOn
    <2>4. CASE pc = "returned"
      BY <2>4 DEF ReadsInRange, GoesOn
    <2> QED
      BY <2>1, <2>2, <2>3, <2>4 DEF Labels
  <1> QED
    BY <1>1, Invariance, PTL

(***************************************************************************)
(* What of an image the verdict depends on.                                *)
(***************************************************************************)
LEMMA SameSums ==
  ASSUME NEW f, NEW g, NEW n \in Nat, \A m \in 0 .. n - 1 : f[m] = g[m]
  PROVE  SumBelow(f, n) = SumBelow(g, n)
  <1> DEFINE S == {m \in Nat : m <= n => SumBelow(f, m) = SumBelow(g, m)}
  <1>1. 0 \in S
    BY SumSteps
  <1>2. ASSUME NEW m \in S
        PROVE  m + 1 \in S
    <2> SUFFICES ASSUME m + 1 <= n
                 PROVE  SumBelow(f, m + 1) = SumBelow(g, m + 1)
      OBVIOUS
    <2>1. SumBelow(f, m) = SumBelow(g, m) /\ f[m] = g[m]
      OBVIOUS
    <2>2. SumBelow(f, m + 1) = SumBelow(f, m) + f[m]
      BY SumSteps
    <2>3. SumBelow(g, m + 1) = SumBelow(g, m) + g[m]
      BY SumSteps
    <2> QED
      BY <2>1, <2>2, <2>3
  <1> HIDE DEF S
  <1>3. S = Nat
    <2>1. S \subseteq Nat
      BY DEF S
    <2> QED
      BY <1>1, <1>2, <2>1, Everything
  <1> QED
    BY <1>3 DEF S

Above(f, img) == FirstRectangles(RECT_NUMS[f], img) > FEAT_DATA[f].threshold

SameSides(img1, img2) ==
  \A s \in 0 .. Stages - 1 : \A f \in 0 .. FEAT_NUMS[s] - 1 : Above(f, img1) <=> Above(f, img2)

Accepted(img) == \A s \in 0 .. Stages - 1 : RunningScore(s, img) >= STAGE_DATA[s]

LEMMA SidesScore ==
  ASSUME NEW img1, NEW img2, SameSides(img1, img2)
  PROVE  \A s \in 0 .. Stages - 1 : RunningScore(s, img1) = RunningScore(s, img2)
  <1>1. ASSUME NEW s \in 0 .. Stages - 1
        PROVE  StageScores(img1)[s] = StageScores(img2)[s]
    <2>1. \A f \in 0 .. FEAT_NUMS[s] - 1 : FeatureScore(f, img1) = FeatureScore(f, img2)
      BY DEF SameSides, Above, FeatureScore
    <2>2. \A f \in 0 .. FEAT_NUMS[s] - 1 : FeatureScores(img1)[f] = FeatureScores(img2)[f]
      BY <2>1, ScoreIsInt
    <2>3. FEAT_NUMS[s] \in Nat
      BY TableAssumption
    <2>4. StageScore(s, img1) = StageScore(s, img2)
      BY <2>2, <2>3, SameSums DEF StageScore
    <2> QED
      BY <2>4 DEF StageScores
  <1> TAKE s \in 0 .. Stages - 1
  <1>2. s + 1 \in Nat /\ \A t \in 0 .. (s + 1) - 1 : StageScores(img1)[t] = StageScores(img2)[t]
    BY <1>1, TableAssumption
  <1> QED
    BY <1>2, SameSums DEF RunningScore

(* The verdict on an image is that on every other image which each of the  *)
(* features scored puts on the same side of its threshold: nothing else of *)
(* the image counts, so that images in which the same sums are zero cannot *)
(* be told apart where all thresholds are below 1.                         *)
THEOREM SidesDecide ==
  Spec => [](pc = "returned" => \A img : SameSides(image, img) => (result <=> Accepted(img)))
  <1>1. VerdictInClosedForm =>
          (pc = "returned" => \A img : SameSides(image, img) => (result <=> Accepted(img)))
    BY SidesScore DEF VerdictInClosedForm, Accepted
  <1> QED
    BY <1>1, VerdictIsClosedForm, PTL

(***************************************************************************)
(* Sums of naturals.                                                       *)
(***************************************************************************)
LEMMA SumIsNat ==
  ASSUME NEW f, NEW n \in Nat, \A m \in 0 .. n - 1 : f[m] \in Nat
  PROVE  /\ \A m \in 0 .. n : SumBelow(f, m) \in Nat /\ SumBelow(f, m) <= SumBelow(f, n)
         /\ \A m \in 0 .. n - 1 : f[m] <= SumBelow(f, n)
  <1> DEFINE Grown(m) == /\ SumBelow(f, m) \in Nat
                         /\ \A l \in 0 .. m : SumBelow(f, l) <= SumBelow(f, m)
                         /\ \A l \in 0 .. m - 1 : f[l] <= SumBelow(f, m)
             S == {m \in Nat : m <= n => Grown(m)}
  <1>1. 0 \in S
    BY SumSteps
  <1>2. ASSUME NEW m \in S
        PROVE  m + 1 \in S
    <2> SUFFICES ASSUME m + 1 <= n
                 PROVE  Grown(m + 1)
      OBVIOUS
    <2>1. m \in Nat /\ Grown(m) /\ f[m] \in Nat
      OBVIOUS
    <2>2. SumBelow(f, m + 1) = SumBelow(f, m) + f[m]
      BY SumSteps
    <2>3. SumBelow(f, m + 1) \in Nat /\ SumBelow(f, m) <= SumBelow(f, m + 1) /\ f[m] <= SumBelow(f, m + 1)
      BY <2>1, <2>2
    <2>4. ASSUME NEW l \in 0 .. m + 1
          PROVE  SumBelow(f, l) <= SumBelow(f, m + 1)
      <3>1. CASE l = m + 1
        BY <2>3, <3>1
      <3>2. CASE l \in 0 .. m
        <4>1. SumBelow(f, l) <= SumBelow(f, m)
          BY <2>1, <3>2
        <4>2. l <= n /\ l \in Nat
          BY <2>1, <3>2
        <4>3. SumBelow(f, l) \in Int
          <5>1. \A e \in 0 .. l - 1 : f[e] \in Int
            BY <4>2
          <5> QED
            BY <4>2, <5>1, SumIsInt
        <4> QED
          BY <2>1, <2>3, <4>1, <4>3
      <3> QED
        BY <2>1, <3>1, <3>2
    <2>5. ASSUME NEW l \in 0 .. (m + 1) - 1
          PROVE  f[l] <= SumBelow(f, m + 1)
      <3>1. CASE l = m
        BY <2>3, <3>1
      <3>2. CASE l \in 0 .. m - 1
        <4>1. f[l] <= SumBelow(f, m) /\ f[l] \in Nat
          BY <2>1, <3>2
        <4> QED
          BY <2>1, <2>3, <4>1
      <3> QED
        BY <2>1, <3>1, <3>2
    <2> QED
      BY <2>3, <2>4, <2>5
  <1> HIDE DEF S, Grown
  <1>3. S = Nat
    <2>1. S \subseteq Nat
      BY DEF S
    <2> QED
      BY <1>1, <1>2, <2>1, Everything
  <1>4. \A m \in 0 .. n : Grown(m)
    BY <1>3 DEF S
  <1> QED
    BY <1>4 DEF Grown

LEMMA SumOfZeros ==
  ASSUME NEW f, NEW n \in Nat, \A m \in 0 .. n - 1 : f[m] = 0
  PROVE  SumBelow(f, n) = 0
  <1> DEFINE S == {m \in Nat : m <= n => SumBelow(f, m) = 0}
  <1>1. 0 \in S
    BY SumSteps
  <1>2. ASSUME NEW m \in S
        PROVE  m + 1 \in S
    <2> SUFFICES ASSUME m + 1 <= n
                 PROVE  SumBelow(f, m + 1) = 0
      OBVIOUS
    <2>1. SumBelow(f, m) = 0 /\ f[m] = 0
      OBVIOUS
    <2> QED
      BY <2>1, SumSteps
  <1> HIDE DEF S
  <1>3. S = Nat
    <2>1. S \subseteq Nat
      BY DEF S
    <2> QED
      BY <1>1, <1>2, <2>1, Everything
  <1> QED
    BY <1>3 DEF S

(***************************************************************************)
(* A rectangle's sum.                                                      *)
(***************************************************************************)
Cells == 0 .. 399
OnGrid(r) == /\ r.x \in Nat /\ r.y \in Nat /\ r.w \in Nat /\ r.h \in Nat
             /\ r.x + r.w <= 20 /\ r.y + r.h <= 20

LEMMA ColumnIsNat ==
  ASSUME Width = 20, Scale = Divisor, NEW img \in [Cells -> Nat],
         NEW r, OnGrid(r), NEW x \in r.x .. r.x + r.w - 1
  PROVE  /\ Column(r, x, img) \in Nat
         /\ \A y \in r.y .. r.y + r.h - 1 : img[y * 20 + x] >= Scale => Column(r, x, img) >= 1
         /\ (\A y \in r.y .. r.y + r.h - 1 : img[y * 20 + x] < Scale) => Column(r, x, img) = 0
  <1> DEFINE col == [dy \in 0 .. r.h - 1 |-> img[(r.y + dy) * Width + x] \div Scale]
  <1>1. ASSUME NEW dy \in 0 .. r.h - 1
        PROVE  (r.y + dy) * 20 + x \in Cells
    <2>1. \A a, b \in 0 .. 19 : a * 20 + b \in 0 .. 399
      BY SMT
    <2>2. r.y + dy \in 0 .. 19 /\ x \in 0 .. 19
      BY SMT DEF OnGrid
    <2> QED
      BY SMT, <2>1, <2>2 DEF Cells
  <1>2. \A dy \in 0 .. r.h - 1 : /\ img[(r.y + dy) * 20 + x] \in Nat
                                 /\ col[dy] = img[(r.y + dy) * 20 + x] \div Divisor
    BY <1>1
  <1>3. \A v \in Nat : /\ v \div Divisor \in Nat
                       /\ v >= Divisor => v \div Divisor >= 1
                       /\ v < Divisor => v \div Divisor = 0
    BY SMT DEF Divisor
  <1>4. \A dy \in 0 .. r.h - 1 : col[dy] \in Nat
    BY <1>2, <1>3
  <1>5. r.h \in Nat /\ Column(r, x, img) = SumBelow(col, r.h)
    BY DEF OnGrid, Column
  <1> HIDE DEF col
  <1>6. Column(r, x, img) \in Nat
    BY <1>4, <1>5, SumIsNat
  <1>7. ASSUME NEW y \in r.y .. r.y + r.h - 1, img[y * 20 + x] >= Scale
        PROVE  Column(r, x, img) >= 1
    <2> DEFINE dy == y - r.y
    <2>1. dy \in 0 .. r.h - 1 /\ r.y + dy = y
      BY DEF OnGrid
    <2>2. col[dy] >= 1 /\ col[dy] \in Nat
      BY <1>2, <1>3, <1>7, <2>1
    <2>3. col[dy] <= Column(r, x, img)
      BY <1>4, <1>5, <2>1, SumIsNat
    <2> HIDE DEF dy
    <2> QED
      BY <1>6, <2>2, <2>3
  <1>8. ASSUME \A y \in r.y .. r.y + r.h - 1 : img[y * 20 + x] < Scale
        PROVE  Column(r, x, img) = 0
    <2>1. \A dy \in 0 .. r.h - 1 : r.y + dy \in r.y .. r.y + r.h - 1
      BY DEF OnGrid
    <2>2. \A dy \in 0 .. r.h - 1 : col[dy] = 0
      BY <1>2, <1>3, <1>8, <2>1
    <2> QED
      BY <1>5, <2>2, SumOfZeros
  <1> QED
    BY <1>6, <1>7, <1>8

LEMMA RectSumIsNat ==
  ASSUME Width = 20, Scale = Divisor, NEW img \in [Cells -> Nat], NEW r, OnGrid(r)
  PROVE  /\ RectSum(r, img) \in Nat
         /\ (\E c \in RectCells(r) : img[c] >= Scale) => RectSum(r, img) >= 1
         /\ (\A c \in RectCells(r) : img[c] < Scale) => RectSum(r, img) = 0
  <1> DEFINE cols == [dx \in 0 .. r.w - 1 |-> Column(r, r.x + dx, img)]
  <1>1. r.w \in Nat /\ RectSum(r, img) = SumBelow(cols, r.w)
    BY DEF OnGrid, RectSum
  <1>2. \A dx \in 0 .. r.w - 1 : r.x + dx \in r.x .. r.x + r.w - 1 /\ cols[dx] = Column(r, r.x + dx, img)
    BY DEF OnGrid
  <1> HIDE DEF cols
  <1>3. \A dx \in 0 .. r.w - 1 : cols[dx] \in Nat
    BY <1>2, ColumnIsNat
  <1>4. RectSum(r, img) \in Nat
    BY <1>1, <1>3, SumIsNat
  <1>5. ASSUME NEW c \in RectCells(r), img[c] >= Scale
        PROVE  RectSum(r, img) >= 1
    <2>1. PICK dx \in 0 .. r.w - 1, dy \in 0 .. r.h - 1 : c = (r.y + dy) * 20 + r.x + dx
      BY DEF RectCells
    <2>2. /\ r.y + dy \in r.y .. r.y + r.h - 1
          /\ c = (r.y + dy) * 20 + (r.x + dx)
      BY <2>1 DEF OnGrid
    <2>3. cols[dx] >= 1
      BY <1>2, <1>5, <2>2, ColumnIsNat
    <2>4. cols[dx] <= RectSum(r, img) /\ cols[dx] \in Nat
      BY <1>1, <1>3, SumIsNat
    <2> QED
      BY <1>4, <2>3, <2>4
  <1>6. ASSUME \A c \in RectCells(r) : img[c] < Scale
        PROVE  RectSum(r, img) = 0
    <2>1. ASSUME NEW dx \in 0 .. r.w - 1, NEW y \in r.y .. r.y + r.h - 1
          PROVE  y * 20 + (r.x + dx) \in RectCells(r)
      <3> DEFINE dy == y - r.y
      <3>1. /\ dy \in 0 .. r.h - 1
            /\ y * 20 + (r.x + dx) = (r.y + dy) * Width + r.x + dx
        BY DEF OnGrid
      <3> QED
        BY <3>1 DEF RectCells
    <2>2. \A dx \in 0 .. r.w - 1 : cols[dx] = 0
      BY <1>2, <1>6, <2>1, ColumnIsNat
    <2> QED
      BY <1>1, <2>2, SumOfZeros
  <1> QED
    BY <1>4, <1>5, <1>6

(***************************************************************************)
(* The tables of the header.  Of the feature scores only a few sums over   *)
(* the first right values matter; the others need only not be negative.    *)
(***************************************************************************)
LEMMA HeaderRectangles ==
  ASSUME OnHeader
  PROVE  /\ \A r \in 0 .. 2 : OnGrid(RECT_DATA[r])
         /\ RECT_DATA[0] = [w |-> 14, h |-> 4, x |-> 3, y |-> 7]
         /\ RECT_DATA[1] = [w |-> 14, h |-> 2, x |-> 3, y |-> 9]
  BY SMT DEF OnHeader, HeaderRectData, OnGrid

LEMMA HeaderScores ==
  /\ \A n \in 1 .. 150 : FirstScores[n] \in Nat \X Nat
  /\ \A n \in 1 .. 63 : LaterScores[n] \in Nat \X Nat
  /\ Len(FirstScores) = 150 /\ Len(LaterScores) = 63
  /\ FirstScores \in Seq(Nat \X Nat) /\ LaterScores \in Seq(Nat \X Nat)
  BY SMT DEF FirstScores, LaterScores

LEMMA Concatenated ==
  ASSUME NEW T, NEW a \in Seq(T), NEW b \in Seq(T)
  PROVE  /\ a \o b \in Seq(T) /\ Len(a \o b) = Len(a) + Len(b)
         /\ \A n \in 1 .. Len(a) : (a \o b)[n] = a[n]
         /\ \A n \in 1 .. Len(b) : (a \o b)[Len(a) + n] = b[n]
         /\ \A n \in 1 .. Len(a) + Len(b) : (a \o b)[n] \in T
  BY SMT

LEMMA HeaderFeatures ==
  ASSUME OnHeader
  PROVE  \A f \in 0 .. 212 :
           /\ FEAT_DATA[f].threshold \in {0, -1}
           /\ FEAT_DATA[f].left \in Nat /\ FEAT_DATA[f].right \in Nat
           /\ RECT_NUMS[f] \in {2, 3}
           /\ FEAT_DATA[f].threshold = IF f \in NegativeThreshold THEN -1 ELSE 0
           /\ RECT_NUMS[f] = IF f \in ThreeRectangles THEN 3 ELSE 2
           /\ f \in DOMAIN FEAT_DATA
           /\ f < 150 => /\ FEAT_DATA[f].left = FirstScores[f + 1][1]
                         /\ FEAT_DATA[f].right = FirstScores[f + 1][2]
  <1> DEFINE Scores == FirstScores \o LaterScores
  <1>1. /\ Len(Scores) = 213
        /\ \A n \in 1 .. 150 : Scores[n] = FirstScores[n]
        /\ \A n \in 1 .. 213 : Scores[n] \in Nat \X Nat
    <2> DEFINE T == Nat \X Nat
    <2>1. FirstScores \in Seq(T) /\ LaterScores \in Seq(T)
      BY HeaderScores
    <2>2. Len(FirstScores) = 150 /\ Len(LaterScores) = 63 /\ 150 + 63 = 213
      BY SMT, HeaderScores
    <2> HIDE DEF T
    <2>3. /\ Len(Scores) = Len(FirstScores) + Len(LaterScores)
          /\ \A n \in 1 .. Len(FirstScores) : Scores[n] = FirstScores[n]
          /\ \A n \in 1 .. Len(FirstScores) + Len(LaterScores) : Scores[n] \in T
      BY SMT, <2>1, Concatenated
    <2> HIDE DEF Scores
    <2> QED
      BY SMT, <2>2, <2>3 DEF T
  <1>3. FEAT_DATA = [f \in 0 .. Len(Scores) - 1 |->
          [threshold |-> IF f \in NegativeThreshold THEN -1 ELSE 0,
           left |-> Scores[f + 1][1], right |-> Scores[f + 1][2]]]
    BY SMT DEF OnHeader, HeaderFeatData
  <1> HIDE DEF Scores
  <1>4. DOMAIN FEAT_DATA = 0 .. 212 /\ HeaderFeatData = FEAT_DATA
    <2>1. DOMAIN FEAT_DATA = 0 .. Len(Scores) - 1
      BY Zenon, <1>3
    <2>2. Len(Scores) = 213
      BY Zenon, <1>1
    <2>3. Len(Scores) - 1 = 212
      BY SMT, <2>2
    <2>4. DOMAIN FEAT_DATA = 0 .. 212
      BY Zenon, <2>1, <2>3
    <2> QED
      BY Zenon, <2>4 DEF OnHeader
  <1> TAKE f \in 0 .. 212
  <1>5. /\ FEAT_DATA[f].threshold \in {0, -1}
        /\ FEAT_DATA[f].left = Scores[f + 1][1] /\ FEAT_DATA[f].right = Scores[f + 1][2]
        /\ FEAT_DATA[f].threshold = IF f \in NegativeThreshold THEN -1 ELSE 0
    <2>1. f \in 0 .. Len(Scores) - 1
      <3>1. Len(Scores) = 213
        BY Zenon, <1>1
      <3> QED
        BY SMT, <3>1
    <2>2. FEAT_DATA[f] = [threshold |-> IF f \in NegativeThreshold THEN -1 ELSE 0,
                          left |-> Scores[f + 1][1], right |-> Scores[f + 1][2]]
      BY SMT, <1>3, <2>1
    <2> QED
      BY SMT, <2>2
  <1>6. Scores[f + 1] \in Nat \X Nat
    BY SMT, <1>1
  <1>7. RECT_NUMS[f] \in {2, 3} /\ RECT_NUMS[f] = IF f \in ThreeRectangles THEN 3 ELSE 2
    BY SMT, <1>4 DEF OnHeader, HeaderRectNums
  <1>8. f < 150 => Scores[f + 1] = FirstScores[f + 1]
    <2>1. f < 150 => f + 1 \in 1 .. 150
      BY SMT
    <2> QED
      BY Zenon, <1>1, <2>1
  <1> QED
    <2>1. Scores[f + 1][1] \in Nat /\ Scores[f + 1][2] \in Nat
      BY SMT, <1>6
    <2>2. f \in DOMAIN FEAT_DATA
      BY Zenon, <1>4
    <2> QED
      BY Zenon, <1>5, <1>7, <1>8, <2>1, <2>2

LEMMA FirstFeatures ==
  ASSUME OnHeader
  PROVE  /\ \A f \in 0 .. 2 : FEAT_DATA[f].threshold = 0 /\ RECT_NUMS[f] = 2
         /\ FEAT_DATA[0].left = 337 /\ FEAT_DATA[1].left = 1514 /\ FEAT_DATA[2].left = 900
  <1>1. \A f \in 0 .. 2 : f \in 0 .. 212
    BY SMT
  <1>2. \A f \in 0 .. 2 : f \notin NegativeThreshold /\ f \notin ThreeRectangles
    BY SMT DEF NegativeThreshold, ThreeRectangles
  <1>3. \A f \in 0 .. 2 : FEAT_DATA[f].threshold = 0 /\ RECT_NUMS[f] = 2
    BY Zenon, <1>1, <1>2, HeaderFeatures
  <1>4. FirstScores[1][1] = 337 /\ FirstScores[2][1] = 1514 /\ FirstScores[3][1] = 900
    BY SMT DEF FirstScores
  <1> QED
    <2>1. \A f \in 0 .. 2 : FEAT_DATA[f].left = FirstScores[f + 1][1]
      <3>1. \A f \in 0 .. 2 : f \in 0 .. 212 /\ f < 150
        BY SMT
      <3> QED
        BY Zenon, <3>1, HeaderFeatures
    <2>2. /\ 0 \in 0 .. 2 /\ 1 \in 0 .. 2 /\ 2 \in 0 .. 2
          /\ 0 + 1 = 1 /\ 1 + 1 = 2 /\ 2 + 1 = 3
      BY SMT
    <2> QED
      BY SMT, <1>3, <1>4, <2>1, <2>2

(* What the first three stages score on the right, and 177277 for each     *)
(* later one.                                                              *)
AtLeast(s) == 216508 + 177277 * (s - 2)

LEMMA HeaderStages ==
  ASSUME OnHeader
  PROVE  /\ \A s \in 0 .. 21 : FEAT_NUMS[s] \in 3 .. 213 /\ (s >= 3 => FEAT_NUMS[s] >= 33)
         /\ FEAT_NUMS[0] = 3 /\ FEAT_NUMS[1] = 16 /\ FEAT_NUMS[2] = 21
  BY SMT DEF OnHeader, HeaderFeatNums

LEMMA HeaderThresholds ==
  ASSUME OnHeader
  PROVE  \A s \in 0 .. 21 : STAGE_DATA[s] \in Nat /\ (s >= 3 => STAGE_DATA[s] + 1 < AtLeast(s))
  BY SMT DEF OnHeader, HeaderStageData, AtLeast

LEMMA FirstThresholds ==
  ASSUME OnHeader
  PROVE  STAGE_DATA[0] = 8226 /\ STAGE_DATA[1] = 69566 /\ STAGE_DATA[2] = 94985
  BY SMT DEF OnHeader, HeaderStageData

(* Every feature goes right.                                               *)
Rights == [f \in 0 .. 212 |-> FEAT_DATA[f].right]

LEMMA RightSums ==
  ASSUME OnHeader
  PROVE  /\ SumBelow(Rights, 3) = 22240 /\ SumBelow(Rights, 16) = 86385
         /\ SumBelow(Rights, 21) = 107883 /\ SumBelow(Rights, 33) = 177277
         /\ \A n \in 0 .. 213 : SumBelow(Rights, n) \in Nat
         /\ \A n \in 33 .. 213 : SumBelow(Rights, n) >= 177277
  <1>1. \A n \in 0 .. 32 : Rights[n] = FirstScores[n + 1][2]
    <2> TAKE n \in 0 .. 32
    <2>1. n \in 0 .. 212 /\ n < 150
      BY SMT
    <2>2. FEAT_DATA[n].right = FirstScores[n + 1][2]
      BY Zenon, <2>1, HeaderFeatures
    <2> QED
      BY Zenon, <2>1, <2>2 DEF Rights
  <1>2. SumBelow(Rights, 0) = 0
    BY Zenon, SumSteps
  <1>3. \A n \in 0 .. 32 : SumBelow(Rights, n + 1) = SumBelow(Rights, n) + FirstScores[n + 1][2]
    <2> TAKE n \in 0 .. 32
    <2>1. n \in Nat
      BY SMT
    <2>2. SumBelow(Rights, n + 1) = SumBelow(Rights, n) + Rights[n]
      BY Zenon, <2>1, SumSteps
    <2> QED
      BY Zenon, <1>1, <2>2
  <1>4. SumBelow(Rights, 3) = 22240
    <2>1. /\ FirstScores[1][2] = 8378
          /\ FirstScores[2][2] = 7488
          /\ FirstScores[3][2] = 6374
      BY SMT DEF FirstScores
    <2> QED
      BY SMT, <1>3, <1>2, <2>1
  <1>5. SumBelow(Rights, 9) = 57437
    <2>1. /\ FirstScores[4][2] = 7110
          /\ FirstScores[5][2] = 6668
          /\ FirstScores[6][2] = 6554
          /\ FirstScores[7][2] = 914
          /\ FirstScores[8][2] = 6031
          /\ FirstScores[9][2] = 7920
      BY SMT DEF FirstScores
    <2> QED
      BY SMT, <1>3, <1>4, <2>1
  <1>6. SumBelow(Rights, 16) = 86385
    <2>1. /\ FirstScores[10][2] = 2088
          /\ FirstScores[11][2] = 6360
          /\ FirstScores[12][2] = 5800
          /\ FirstScores[13][2] = 5787
          /\ FirstScores[14][2] = 1362
          /\ FirstScores[15][2] = 4717
          /\ FirstScores[16][2] = 2834
      BY SMT DEF FirstScores
    <2> QED
      BY SMT, <1>3, <1>5, <2>1
  <1>7. SumBelow(Rights, 21) = 107883
    <2>1. /\ FirstScores[17][2] = 7060
          /\ FirstScores[18][2] = 6051
          /\ FirstScores[19][2] = 5675
          /\ FirstScores[20][2] = 1424
          /\ FirstScores[21][2] = 1288
      BY SMT DEF FirstScores
    <2> QED
      BY SMT, <1>3, <1>6, <2>1
  <1>8. SumBelow(Rights, 27) = 142866
    <2>1. /\ FirstScores[22][2] = 6193
          /\ FirstScores[23][2] = 5670
          /\ FirstScores[24][2] = 5905
          /\ FirstScores[25][2] = 5738
          /\ FirstScores[26][2] = 5782
          /\ FirstScores[27][2] = 5695
      BY SMT DEF FirstScores
    <2> QED
      BY SMT, <1>3, <1>7, <2>1
  <1>9. SumBelow(Rights, 33) = 177277
    <2>1. /\ FirstScores[28][2] = 5956
          /\ FirstScores[29][2] = 5522
          /\ FirstScores[30][2] = 5559
          /\ FirstScores[31][2] = 6188
          /\ FirstScores[32][2] = 5475
          /\ FirstScores[33][2] = 5711
      BY SMT DEF FirstScores
    <2> QED
      BY SMT, <1>3, <1>8, <2>1
  <1>10. \A f \in 0 .. 213 - 1 : Rights[f] \in Nat
    <2> TAKE f \in 0 .. 213 - 1
    <2>1. f \in 0 .. 212
      BY SMT
    <2> QED
      BY Zenon, <2>1, HeaderFeatures DEF Rights
  <1>11. \A n \in 0 .. 213 : SumBelow(Rights, n) \in Nat
    <2>1. 213 \in Nat
      BY SMT
    <2> QED
      BY Zenon, <1>10, <2>1, SumIsNat
  <1>12. ASSUME NEW n \in 33 .. 213
        PROVE  SumBelow(Rights, n) >= 177277
    <2>1. n \in Nat /\ 33 \in 0 .. n
      BY SMT
    <2>2. \A f \in 0 .. n - 1 : Rights[f] \in Nat
      <3> TAKE f \in 0 .. n - 1
      <3>1. f \in 0 .. 213 - 1
        BY SMT
      <3> QED
        BY Zenon, <1>10, <3>1
    <2>3. SumBelow(Rights, 33) <= SumBelow(Rights, n)
      BY Zenon, <2>1, <2>2, SumIsNat
    <2>4. SumBelow(Rights, n) \in Nat
      BY SMT, <1>11
    <2> QED
      BY SMT, <1>9, <2>3, <2>4
  <1> QED
    BY SMT, <1>4, <1>6, <1>7, <1>9, <1>11, <1>12

(***************************************************************************)
(* The block: the cells of the first rectangle, of which the second one is *)
(* a part.                                                                 *)
(***************************************************************************)
BrightBlock(img) == \E c \in RectCells(RECT_DATA[0]) : img[c] >= Scale

LEMMA BlockCells ==
  ASSUME OnHeader
  PROVE  RectCells(RECT_DATA[1]) \subseteq RectCells(RECT_DATA[0]) /\ RectCells(RECT_DATA[0]) \subseteq Cells
  <1> DEFINE CellsOf(w, h, x, y) == {(y + dy) * Width + x + dx : dx \in 0 .. w - 1, dy \in 0 .. h - 1}
  <1>1. RectCells(RECT_DATA[0]) = CellsOf(14, 4, 3, 7) /\ RectCells(RECT_DATA[1]) = CellsOf(14, 2, 3, 9)
    <2>2. RectCells(RECT_DATA[0]) = CellsOf(RECT_DATA[0].w, RECT_DATA[0].h, RECT_DATA[0].x, RECT_DATA[0].y)
      BY SMT DEF RectCells
    <2>3. RectCells(RECT_DATA[1]) = CellsOf(RECT_DATA[1].w, RECT_DATA[1].h, RECT_DATA[1].x, RECT_DATA[1].y)
      BY SMT DEF RectCells
    <2> HIDE DEF CellsOf
    <2>4. /\ RECT_DATA[0].w = 14 /\ RECT_DATA[0].h = 4 /\ RECT_DATA[0].x = 3 /\ RECT_DATA[0].y = 7
          /\ RECT_DATA[1].w = 14 /\ RECT_DATA[1].h = 2 /\ RECT_DATA[1].x = 3 /\ RECT_DATA[1].y = 9
      BY SMT, HeaderRectangles
    <2> QED
      BY Zenon, <2>2, <2>3, <2>4
  <1>2. Width = 20
    BY Zenon DEF OnHeader
  <1>3. \A dx \in 0 .. 13, dy \in 0 .. 3 : (7 + dy) * 20 + 3 + dx \in Cells
    BY SMT DEF Cells
  <1>4. CellsOf(14, 4, 3, 7) \subseteq Cells
    BY SMT, <1>2, <1>3
  <1>5. ASSUME NEW dx \in 0 .. 13, NEW dy \in 0 .. 1
        PROVE  (9 + dy) * 20 + 3 + dx \in CellsOf(14, 4, 3, 7)
    <2>1. (9 + dy) * 20 + 3 + dx = (7 + (dy + 2)) * 20 + 3 + dx /\ dy + 2 \in 0 .. 3
      BY SMT
    <2> QED
      BY SMT, <1>2, <2>1
  <1>6. CellsOf(14, 2, 3, 9) \subseteq CellsOf(14, 4, 3, 7)
    BY SMT, <1>2, <1>5
  <1> HIDE DEF CellsOf
  <1> QED
    BY Zenon, <1>1, <1>4, <1>6

LEMMA HeaderSums ==
  ASSUME OnHeader, NEW img \in [Cells -> Nat]
  PROVE  /\ \A r \in 0 .. 2 : RectSums(img)[r] \in Nat
         /\ BrightBlock(img) => RectSums(img)[0] >= 1
         /\ ~BrightBlock(img) => RectSums(img)[0] = 0 /\ RectSums(img)[1] = 0
  <1>1. Width = 20 /\ Scale = Divisor
    BY Zenon DEF OnHeader
  <1>2. \A r \in 0 .. 2 : RectSums(img)[r] = RectSum(RECT_DATA[r], img)
    <2>1. 0 .. 2 \subseteq DOMAIN RECT_DATA
      BY SMT DEF OnHeader, HeaderRectData
    <2> QED
      BY Zenon, <2>1 DEF RectSums
  <1>3. \A r \in 0 .. 2 :
          /\ RectSum(RECT_DATA[r], img) \in Nat
          /\ (\E c \in RectCells(RECT_DATA[r]) : img[c] >= Scale) => RectSum(RECT_DATA[r], img) >= 1
          /\ (\A c \in RectCells(RECT_DATA[r]) : img[c] < Scale) => RectSum(RECT_DATA[r], img) = 0
    BY Zenon, <1>1, HeaderRectangles, RectSumIsNat
  <1>4. 0 \in 0 .. 2 /\ 1 \in 0 .. 2
    BY SMT
  <1>5. ASSUME ~BrightBlock(img)
        PROVE  \A c \in RectCells(RECT_DATA[0]) : img[c] < Scale
    <2> TAKE c \in RectCells(RECT_DATA[0])
    <2>1. img[c] \in Nat
      BY Zenon, BlockCells
    <2>2. ~(img[c] >= Scale)
      BY Zenon, <1>5 DEF BrightBlock
    <2> QED
      BY SMT, <1>1, <2>1, <2>2 DEF Divisor
  <1> QED
    BY Zenon, <1>2, <1>3, <1>4, <1>5, BlockCells DEF BrightBlock

(* A bright block turns every feature to the right, and then every stage   *)
(* passes.                                                                 *)
LEMMA BrightScores ==
  ASSUME OnHeader, NEW img \in [Cells -> Nat], BrightBlock(img)
  PROVE  \A f \in 0 .. 212 : FeatureScores(img)[f] = Rights[f]
  <1> TAKE f \in 0 .. 212
  <1>1. /\ FEAT_DATA[f].threshold \in {0, -1}
        /\ RECT_NUMS[f] \in {2, 3}
        /\ f \in DOMAIN FEAT_DATA
    BY Zenon, HeaderFeatures
  <1>2. FirstRectangles(RECT_NUMS[f], img) >= 1 /\ FirstRectangles(RECT_NUMS[f], img) \in Nat
    <2> DEFINE n == RECT_NUMS[f]
    <2>1. n \in Nat /\ 0 \in 0 .. n - 1 /\ n \in 0 .. n /\ \A r \in 0 .. n - 1 : r \in 0 .. 2
      BY SMT, <1>1
    <2>2. /\ \A r \in 0 .. n - 1 : RectSums(img)[r] \in Nat
          /\ RectSums(img)[0] >= 1
      BY Zenon, <2>1, HeaderSums
    <2> HIDE DEF n
    <2>3. SumBelow(RectSums(img), n) \in Nat /\ RectSums(img)[0] <= SumBelow(RectSums(img), n)
      BY Zenon, <2>1, <2>2, SumIsNat
    <2>4. SumBelow(RectSums(img), n) >= 1
      BY SMT, <2>1, <2>2, <2>3
    <2> QED
      BY Zenon, <2>3, <2>4 DEF FirstRectangles, n
  <1>3. FirstRectangles(RECT_NUMS[f], img) > FEAT_DATA[f].threshold
    BY SMT, <1>1, <1>2
  <1> QED
    BY Zenon, <1>1, <1>3 DEF FeatureScores, FeatureScore, Rights

LEMMA BrightPasses ==
  ASSUME OnHeader, NEW img \in [Cells -> Nat], BrightBlock(img)
  PROVE  \A s \in 0 .. 21 : RunningScore(s, img) \in Int /\ RunningScore(s, img) - STAGE_DATA[s] > 1
  <1>1. \A s \in 0 .. 21 : StageScore(s, img) = SumBelow(Rights, FEAT_NUMS[s])
    <2> TAKE s \in 0 .. 21
    <2>1. FEAT_NUMS[s] \in 3 .. 213
      BY Zenon, HeaderStages
    <2>2. FEAT_NUMS[s] \in Nat /\ \A f \in 0 .. FEAT_NUMS[s] - 1 : f \in 0 .. 212
      BY SMT, <2>1
    <2>3. \A f \in 0 .. FEAT_NUMS[s] - 1 : FeatureScores(img)[f] = Rights[f]
      BY Zenon, <2>2, BrightScores
    <2> QED
      BY Zenon, <2>2, <2>3, SameSums DEF StageScore
  <1>2. /\ StageScore(0, img) = 22240 /\ StageScore(1, img) = 86385 /\ StageScore(2, img) = 107883
        /\ \A s \in 3 .. 21 : StageScore(s, img) \in Nat /\ StageScore(s, img) >= 177277
    <2>1. \A s \in 3 .. 21 : FEAT_NUMS[s] \in 33 .. 213 /\ s \in 0 .. 21 /\ FEAT_NUMS[s] \in 0 .. 213
      <3> TAKE s \in 3 .. 21
      <3>1. s \in 0 .. 21 /\ s >= 3
        BY SMT
      <3>2. FEAT_NUMS[s] \in 3 .. 213 /\ FEAT_NUMS[s] >= 33
        BY Zenon, <3>1, HeaderStages
      <3> QED
        BY SMT, <3>1, <3>2
    <2>2. 0 \in 0 .. 21 /\ 1 \in 0 .. 21 /\ 2 \in 0 .. 21
      BY SMT
    <2>3. FEAT_NUMS[0] = 3 /\ FEAT_NUMS[1] = 16 /\ FEAT_NUMS[2] = 21
      BY SMT, HeaderStages
    <2>4. /\ SumBelow(Rights, 3) = 22240 /\ SumBelow(Rights, 16) = 86385
          /\ SumBelow(Rights, 21) = 107883
      BY SMT, RightSums
    <2>5. \A n \in 33 .. 213 : SumBelow(Rights, n) \in Nat /\ SumBelow(Rights, n) >= 177277
      BY SMT, RightSums
    <2>6. /\ StageScore(0, img) = SumBelow(Rights, 3) /\ StageScore(1, img) = SumBelow(Rights, 16)
          /\ StageScore(2, img) = SumBelow(Rights, 21)
      BY Zenon, <1>1, <2>2, <2>3
    <2>7. ASSUME NEW s \in 3 .. 21
          PROVE  StageScore(s, img) \in Nat /\ StageScore(s, img) >= 177277
      <3>1. StageScore(s, img) = SumBelow(Rights, FEAT_NUMS[s]) /\ FEAT_NUMS[s] \in 33 .. 213
        BY Zenon, <1>1, <2>1
      <3> QED
        BY SMT, <2>5, <3>1
    <2> QED
      BY SMT, <2>4, <2>6, <2>7
  <1>3. Stages = 22
    BY SMT DEF OnHeader
  <1>4. \A s \in 0 .. 21 :
          /\ s \in Nat /\ SumBelow(StageScores(img), s) \in Int
          /\ SumBelow(StageScores(img), s + 1) = SumBelow(StageScores(img), s) + StageScore(s, img)
    <2> TAKE s \in 0 .. 21
    <2>1. s \in 0 .. Stages /\ s < Stages /\ s \in Nat
      BY SMT, <1>3
    <2> QED
      BY SMT, <2>1, RunningIsInt DEF RunningScore
  <1> DEFINE S == {n \in Nat : 2 <= n /\ n <= 21 =>
                     SumBelow(StageScores(img), n + 1) >= AtLeast(n)}
  <1>5. SumBelow(StageScores(img), 0) = 0
    BY SumSteps
  <1>6. /\ SumBelow(StageScores(img), 1) = 22240
        /\ SumBelow(StageScores(img), 2) = 108625
        /\ SumBelow(StageScores(img), 3) = 216508
    <2>1. 0 \in 0 .. 21 /\ 1 \in 0 .. 21 /\ 2 \in 0 .. 21 /\ 0 + 1 = 1 /\ 1 + 1 = 2 /\ 2 + 1 = 3
      BY SMT
    <2>2. SumBelow(StageScores(img), 1) = SumBelow(StageScores(img), 0) + StageScore(0, img)
      BY SMT, <1>4, <2>1
    <2>3. SumBelow(StageScores(img), 2) = SumBelow(StageScores(img), 1) + StageScore(1, img)
      BY SMT, <1>4, <2>1
    <2>4. SumBelow(StageScores(img), 3) = SumBelow(StageScores(img), 2) + StageScore(2, img)
      BY SMT, <1>4, <2>1
    <2> QED
      BY SMT, <1>2, <1>5, <2>2, <2>3, <2>4
  <1>7. 0 \in S
    BY SMT
  <1>8. ASSUME NEW n \in S
        PROVE  n + 1 \in S
    <2> SUFFICES ASSUME 2 <= n + 1, n + 1 <= 21
                 PROVE  SumBelow(StageScores(img), (n + 1) + 1) >= AtLeast(n + 1)
      BY SMT
    <2>1. CASE n = 1
      BY SMT, <1>6, <2>1 DEF AtLeast
    <2>2. CASE n # 1
      <3>1. n \in Nat /\ SumBelow(StageScores(img), n + 1) >= AtLeast(n)
        BY SMT, <2>2
      <3>2. n + 1 \in 0 .. 21 /\ n + 1 \in 3 .. 21
        BY SMT, <2>2
      <3> HIDE DEF S
      <3>3. /\ SumBelow(StageScores(img), n + 1) \in Int
            /\ SumBelow(StageScores(img), (n + 1) + 1)
                 = SumBelow(StageScores(img), n + 1) + StageScore(n + 1, img)
        BY Zenon, <1>4, <3>2
      <3>4. StageScore(n + 1, img) \in Nat /\ StageScore(n + 1, img) >= 177277
        BY SMT, <1>2, <3>2
      <3> QED
        BY SMT, <3>1, <3>3, <3>4 DEF AtLeast
    <2> QED
      BY Zenon, <2>1, <2>2
  <1> HIDE DEF S
  <1>9. S = Nat
    <2>1. S \subseteq Nat
      BY Zenon DEF S
    <2> QED
      BY Zenon, <1>7, <1>8, <2>1, Everything
  <1> TAKE s \in 0 .. 21
  <1>10. RunningScore(s, img) \in Int
    <2>1. s \in 0 .. 21 /\ StageScore(s, img) \in Int
      <3>1. s \in 0 .. Stages - 1
        BY SMT, <1>3
      <3> QED
        BY Zenon, <3>1, ScoreIsInt
    <2> QED
      BY SMT, <1>4, <2>1 DEF RunningScore
  <1>11. CASE s \in 0 .. 2
    <2>1. STAGE_DATA[0] = 8226 /\ STAGE_DATA[1] = 69566 /\ STAGE_DATA[2] = 94985
      BY SMT, FirstThresholds
    <2> QED
      BY SMT, <1>6, <1>10, <1>11, <2>1 DEF RunningScore
  <1>12. CASE s \in 3 .. 21
    <2>1. s >= 3 /\ s \in Nat /\ 2 <= s /\ s <= 21
      BY SMT, <1>12
    <2>2. SumBelow(StageScores(img), s + 1) >= AtLeast(s)
      <3>1. s \in S
        BY Zenon, <1>9, <2>1
      <3> QED
        BY Zenon, <2>1, <3>1 DEF S
    <2>3. STAGE_DATA[s] \in Nat /\ STAGE_DATA[s] + 1 < AtLeast(s)
      BY Zenon, <2>1, HeaderThresholds
    <2> QED
      BY SMT, <1>10, <2>1, <2>2, <2>3 DEF RunningScore, AtLeast
  <1> QED
    BY SMT, <1>10, <1>11, <1>12

(* Without one the three features of the first stage turn to the left.     *)
LEMMA DarkFails ==
  ASSUME OnHeader, NEW img \in [Cells -> Nat], ~BrightBlock(img)
  PROVE  RunningScore(0, img) = 2751
  <1>1. SumBelow(RectSums(img), 2) = 0
    <2>1. 2 \in Nat /\ \A r \in 0 .. 2 - 1 : r = 0 \/ r = 1
      BY SMT
    <2>2. \A r \in 0 .. 2 - 1 : RectSums(img)[r] = 0
      <3>1. RectSums(img)[0] = 0 /\ RectSums(img)[1] = 0
        BY Zenon, HeaderSums
      <3> QED
        BY Zenon, <2>1, <3>1
    <2> QED
      BY Zenon, <2>1, <2>2, SumOfZeros
  <1>2. \A f \in 0 .. 2 : FeatureScores(img)[f] = FEAT_DATA[f].left
    <2> TAKE f \in 0 .. 2
    <2>1. FEAT_DATA[f].threshold = 0 /\ RECT_NUMS[f] = 2
      BY SMT, FirstFeatures
    <2>2. f \in 0 .. 212
      BY SMT
    <2>3. f \in DOMAIN FEAT_DATA
      BY Zenon, <2>2, HeaderFeatures
    <2>4. ~(FirstRectangles(RECT_NUMS[f], img) > FEAT_DATA[f].threshold)
      BY SMT, <1>1, <2>1 DEF FirstRectangles
    <2> QED
      BY Zenon, <2>3, <2>4 DEF FeatureScores, FeatureScore
  <1>3. SumBelow(FeatureScores(img), 3) = 2751
    <2> DEFINE f == FeatureScores(img)
    <2>1. f[0] = 337 /\ f[1] = 1514 /\ f[2] = 900
      <3>1. 0 \in 0 .. 2 /\ 1 \in 0 .. 2 /\ 2 \in 0 .. 2
        BY SMT
      <3>2. FEAT_DATA[0].left = 337 /\ FEAT_DATA[1].left = 1514 /\ FEAT_DATA[2].left = 900
        BY SMT, FirstFeatures
      <3> QED
        BY SMT, <1>2, <3>1, <3>2
    <2> HIDE DEF f
    <2>2. /\ SumBelow(f, 0) = 0
          /\ SumBelow(f, 0 + 1) = SumBelow(f, 0) + f[0]
          /\ SumBelow(f, 1 + 1) = SumBelow(f, 1) + f[1]
          /\ SumBelow(f, 2 + 1) = SumBelow(f, 2) + f[2]
      BY SMT, SumSteps
    <2>3. SumBelow(f, 3) = 2751
      BY SMT, <2>1, <2>2
    <2> QED
      BY SMT, <2>3 DEF f
  <1>4. FEAT_NUMS[0] = 3
    BY SMT, HeaderStages
  <1>5. RunningScore(0, img) = StageScore(0, img)
    <2>1. 0 \in 0 .. Stages /\ 0 < Stages /\ SumBelow(StageScores(img), 0) = 0 /\ 0 \in 0 .. Stages - 1
      BY SMT, TableAssumption, SumSteps
    <2>2. StageScore(0, img) \in Int
      BY Zenon, <2>1, ScoreIsInt
    <2>3. RunningScore(0, img) = SumBelow(StageScores(img), 0) + StageScore(0, img)
      BY Zenon, <2>1, RunningIsInt
    <2> QED
      BY SMT, <2>1, <2>2, <2>3
  <1> QED
    BY SMT, <1>3, <1>4, <1>5 DEF StageScore

(***************************************************************************)
(* The verdict on the header's tables.                                     *)
(***************************************************************************)
LEMMA ImageIsKept == Spec => [](image \in Images)
  <1>1. Init => image \in Images
    BY DEF Init
  <1>2. image \in Images /\ [Next]_vars => (image \in Images)'
    BY DEF Next, vars, EnterStage, EnterFeature, AddRectangle, ScoreFeature,
       PassStage, FailStage, ReturnTrue
  <1> QED
    BY <1>1, <1>2, PTL DEF Spec

(* Every stage's score at its end, in one of the two cases.                *)
LEMMA StagesOnHeader ==
  ASSUME OnHeader, IInv, image \in Images
  PROVE  /\ image \in [Cells -> Nat] /\ Stages = 22
         /\ i > 0 => BrightBlock(image)
         /\ (pc = "feature" /\ j = feat_upper_bound /\ BrightBlock(image)) => accumulator - STAGE_DATA[i] > 1
         /\ (pc = "feature" /\ j = feat_upper_bound /\ ~BrightBlock(image)) =>
              i = 0 /\ j = 3 /\ accumulator = 2751 /\ STAGE_DATA[i] = 8226
  <1>1. image \in [Cells -> Nat] /\ Stages = 22
    BY SMT DEF OnHeader, Cells
  <1>2. i > 0 => BrightBlock(image)
    <2> SUFFICES ASSUME i > 0, ~BrightBlock(image)
                 PROVE  FALSE
      BY SMT
    <2>1. 0 \in 0 .. i - 1
      BY SMT, TableAssumption DEF IInv, StageLoop
    <2>2. RunningScore(0, image) >= STAGE_DATA[0]
      BY Zenon, <2>1 DEF IInv, StageLoop
    <2>3. RunningScore(0, image) = 2751
      BY SMT, <1>1, DarkFails
    <2>4. STAGE_DATA[0] = 8226
      BY SMT, FirstThresholds
    <2> QED
      BY SMT, <2>2, <2>3, <2>4
  <1>3. ASSUME pc = "feature", j = feat_upper_bound
        PROVE  i \in 0 .. 21 /\ accumulator = RunningScore(i, image) /\ j = FEAT_NUMS[i]
    <2>1. i \in 0 .. Stages - 1 /\ accumulator = RunningScore(i, image)
      BY Zenon, <1>3, StageIsScored
    <2>2. j = FEAT_NUMS[i]
      BY Zenon, <1>3 DEF IInv, FeatureLoop
    <2> QED
      BY SMT, <1>1, <2>1, <2>2
  <1>4. ASSUME pc = "feature", j = feat_upper_bound, BrightBlock(image)
        PROVE  accumulator - STAGE_DATA[i] > 1
    BY Zenon, <1>1, <1>3, <1>4, BrightPasses
  <1>5. ASSUME pc = "feature", j = feat_upper_bound, ~BrightBlock(image)
        PROVE  i = 0 /\ j = 3 /\ accumulator = 2751 /\ STAGE_DATA[i] = 8226
    <2>1. i = 0
      BY SMT, <1>2, <1>3, <1>5
    <2>2. RunningScore(0, image) = 2751
      BY SMT, <1>1, <1>5, DarkFails
    <2>3. FEAT_NUMS[0] = 3
      BY SMT, HeaderStages
    <2>4. STAGE_DATA[0] = 8226
      BY SMT, FirstThresholds
    <2> QED
      BY SMT, <1>3, <1>5, <2>1, <2>2, <2>3, <2>4
  <1> QED
    BY SMT, <1>1, <1>2, <1>4, <1>5

LEMMA OneBlock ==
  ASSUME OnHeader, IInv, image \in Images
  PROVE  VerdictIsOneBlock /\ OnlyFirstStageRejects
  <1>1. ASSUME pc = "returned"
        PROVE  (result <=> BrightBlock(image)) /\ (~result => i = 0)
    <2>1. CASE result
      <3>1. i = 22
        BY SMT, <1>1, <2>1, StagesOnHeader DEF IInv, Verdict
      <3>2. i > 0
        BY SMT, <3>1
      <3> QED
        BY SMT, <2>1, <3>2, StagesOnHeader
    <2>2. CASE ~result
      <3>1. i \in 0 .. 21 /\ RunningScore(i, image) < STAGE_DATA[i]
        BY SMT, <1>1, <2>2, StagesOnHeader DEF IInv, StageLoop, Verdict
      <3>2. ~BrightBlock(image)
        <4> SUFFICES ASSUME BrightBlock(image)
                     PROVE  FALSE
          BY Zenon
        <4>1. image \in [Cells -> Nat]
          BY SMT, StagesOnHeader
        <4>2. RunningScore(i, image) \in Int /\ RunningScore(i, image) - STAGE_DATA[i] > 1
          BY Zenon, <3>1, <4>1, BrightPasses
        <4>3. STAGE_DATA[i] \in Nat
          BY Zenon, <3>1, HeaderThresholds
        <4> QED
          BY SMT, <3>1, <4>2, <4>3
      <3>3. i = 0
        BY SMT, <3>1, <3>2, StagesOnHeader
      <3> QED
        BY SMT, <2>2, <3>2, <3>3
    <2> QED
      BY Zenon, <2>1, <2>2
  <1>2. ASSUME pc = "feature", j = feat_upper_bound
        PROVE  \/ accumulator - STAGE_DATA[i] > 1
               \/ accumulator - STAGE_DATA[i] < -((ScoredBefore(i) + j) + 1)
    <2>1. CASE BrightBlock(image)
      BY SMT, <1>2, <2>1, StagesOnHeader
    <2>2. CASE ~BrightBlock(image)
      <3>1. i = 0 /\ j = 3 /\ accumulator = 2751 /\ STAGE_DATA[i] = 8226
        BY SMT, <1>2, <2>2, StagesOnHeader
      <3>2. ScoredBefore(0) = 0
        BY SMT, SumSteps DEF ScoredBefore
      <3> QED
        BY SMT, <3>1, <3>2
    <2> QED
      BY Zenon, <2>1, <2>2
  <1> QED
    BY SMT, <1>1, <1>2 DEF VerdictIsOneBlock, OnlyFirstStageRejects, BrightBlock

(* On the header's tables the verdict on every image, whatever its 400     *)
(* words hold, is whether some cell of the first rectangle reaches the     *)
(* divisor, and no stage comes so close to its threshold that the rounding *)
(* of the tables would matter.                                             *)
THEOREM OneBlockDecides ==
  ASSUME OnHeader
  PROVE  Spec => []VerdictIsOneBlock
  BY OneBlock, Invariance, ImageIsKept, PTL

(* On the header's tables no image is turned down after the first stage:   *)
(* the other 21 stages with their 2132 scores never decide.                *)
THEOREM LaterStagesAlwaysPass ==
  ASSUME OnHeader
  PROVE  Spec => []OnlyFirstStageRejects
  BY OneBlock, Invariance, ImageIsKept, PTL

(* On the header's tables the blank image, the only one the firmware is    *)
(* ever given (FaceFirmware_proofs, FirmwareSeesNothing), is turned down.  *)
THEOREM BlankIsTurnedDown ==
  ASSUME OnHeader
  PROVE  Spec => [](pc = "returned" /\ (\A c \in Cells : image[c] = 0) => ~result)
  <1>1. ASSUME VerdictIsOneBlock, pc = "returned", \A c \in Cells : image[c] = 0
        PROVE  ~result
    <2>1. Scale = Divisor
      BY Zenon DEF OnHeader
    <2>2. ~(0 >= Divisor)
      BY SMT DEF Divisor
    <2>3. \A c \in RectCells(RECT_DATA[0]) : image[c] = 0
      BY Zenon, <1>1, BlockCells
    <2>4. \A c \in RectCells(RECT_DATA[0]) : ~(image[c] >= Scale)
      BY Zenon, <2>1, <2>2, <2>3
    <2>5. result <=> \E c \in RectCells(RECT_DATA[0]) : image[c] >= Scale
      BY Zenon, <1>1 DEF VerdictIsOneBlock
    <2> QED
      BY Zenon, <2>4, <2>5
  <1> QED
    BY <1>1, OneBlockDecides, PTL

(***************************************************************************)
(* Recursion over the naturals with values in a set.                       *)
(***************************************************************************)
Recurs(g, V, base, step) ==
  g \in [Nat -> V] /\ g[0] = base /\ \A n \in Nat : g[n + 1] = step[<<n, g[n]>>]

LEMMA Recursion ==
  ASSUME NEW V, NEW base \in V, NEW step \in [Nat \X V -> V]
  PROVE  \E g : Recurs(g, V, base, step)
  <1> DEFINE Begins(n, g) == /\ g \in [0 .. n -> V] /\ g[0] = base
                             /\ \A m \in 0 .. n - 1 : g[m + 1] = step[<<m, g[m]>>]
  <1>1. \A n \in Nat : \E g : Begins(n, g)
    <2> DEFINE S == {n \in Nat : \E g : Begins(n, g)}
    <2>1. 0 \in S
      <3>1. Begins(0, [m \in 0 .. 0 |-> base])
        OBVIOUS
      <3> QED
        BY <3>1
    <2>2. ASSUME NEW n \in S
          PROVE  n + 1 \in S
      <3>1. PICK g : Begins(n, g)
        OBVIOUS
      <3> DEFINE v == step[<<n, g[n]>>]
                 h == [m \in 0 .. n + 1 |-> IF m = n + 1 THEN v ELSE g[m]]
      <3>2. n \in Nat /\ g[n] \in V /\ v \in V
        BY <3>1
      <3>3. h \in [0 .. n + 1 -> V] /\ h[0] = base
        BY <3>1, <3>2
      <3>4. ASSUME NEW m \in 0 .. (n + 1) - 1
            PROVE  h[m + 1] = step[<<m, h[m]>>]
        <4>1. CASE m = n
          <5>1. h[n + 1] = v /\ h[n] = g[n]
            BY <3>2
          <5> HIDE DEF h
          <5> QED
            BY <4>1, <5>1
        <4>2. CASE m \in 0 .. n - 1
          <5>1. h[m] = g[m] /\ h[m + 1] = g[m + 1]
            BY <3>2, <4>2
          <5>2. g[m + 1] = step[<<m, g[m]>>]
            BY <3>1, <4>2
          <5> QED
            BY <5>1, <5>2
        <4> QED
          BY <3>2, <4>1, <4>2
      <3> HIDE DEF h
      <3>5. Begins(n + 1, h)
        BY <3>3, <3>4
      <3> QED
        BY <3>2, <3>5
    <2> HIDE DEF S
    <2>3. S = Nat
      <3>1. S \subseteq Nat
        BY DEF S
      <3> QED
        BY <2>1, <2>2, <3>1, Everything
    <2> QED
      BY <2>3 DEF S
  <1>2. ASSUME NEW n \in Nat, NEW l \in Nat, NEW g, NEW h, Begins(n, g), Begins(l, h)
        PROVE  \A m \in Nat : m <= n /\ m <= l => g[m] = h[m]
    <2> DEFINE S == {m \in Nat : m <= n /\ m <= l => g[m] = h[m]}
    <2>1. 0 \in S
      BY <1>2
    <2>2. ASSUME NEW m \in S
          PROVE  m + 1 \in S
      <3> SUFFICES ASSUME m + 1 <= n, m + 1 <= l
                   PROVE  g[m + 1] = h[m + 1]
        OBVIOUS
      <3>1. m \in 0 .. n - 1 /\ m \in 0 .. l - 1 /\ g[m] = h[m]
        OBVIOUS
      <3>2. g[m + 1] = step[<<m, g[m]>>] /\ h[m + 1] = step[<<m, h[m]>>]
        BY <1>2, <3>1
      <3> QED
        BY <3>1, <3>2
    <2> HIDE DEF S
    <2>3. S = Nat
      <3>1. S \subseteq Nat
        BY DEF S
      <3> QED
        BY <2>1, <2>2, <3>1, Everything
    <2> QED
      BY <2>3 DEF S
  <1> DEFINE upTo == [n \in Nat |-> CHOOSE g : Begins(n, g)]
             f == [n \in Nat |-> upTo[n][n]]
  <1>3. \A n \in Nat : Begins(n, upTo[n])
    <2> HIDE DEF Begins
    <2> QED
      BY <1>1
  <1> HIDE DEF upTo
  <1>4. ASSUME NEW n \in Nat
        PROVE  f[n] \in V /\ f[n + 1] = step[<<n, f[n]>>]
    <2>1. Begins(n, upTo[n]) /\ Begins(n + 1, upTo[n + 1])
      BY <1>3
    <2>2. n + 1 \in Nat /\ n <= n /\ n <= n + 1 /\ n \in 0 .. (n + 1) - 1 /\ n \in 0 .. n
      OBVIOUS
    <2>3. upTo[n][n] = upTo[n + 1][n]
      <3> HIDE DEF Begins
      <3> QED
        BY <1>2, <2>1, <2>2
    <2>4. upTo[n + 1][n + 1] = step[<<n, upTo[n + 1][n]>>]
      BY <2>1, <2>2
    <2>5. upTo[n][n] \in V
      BY <2>1, <2>2
    <2> QED
      BY <2>2, <2>3, <2>4, <2>5
  <1>5. f[0] = base
    BY <1>3
  <1>6. f \in [Nat -> V]
    BY <1>4
  <1> HIDE DEF f
  <1> QED
    BY <1>4, <1>5, <1>6 DEF Recurs

(***************************************************************************)
(* The digits of an exponent.                                              *)
(***************************************************************************)
LEMMA NaturalIsNat ==
  ASSUME NEW ds \in Seq(Nat)
  PROVE  Natural(ds) \in Nat /\ (Natural(ds) = 0 <=> Zeros(ds, Len(ds)))
  <1> DEFINE L == Len(ds)
             Is(v) == v = [n \in 0 .. L |-> IF n = 0 THEN 0 ELSE 10 * v[n - 1] + ds[n]]
             step == [p \in Nat \X Nat |-> IF p[1] < L THEN 10 * p[2] + ds[p[1] + 1] ELSE 0]
             value == CHOOSE v : Is(v)
  <1>1. L \in Nat /\ \A n \in 1 .. L : ds[n] \in Nat
    OBVIOUS
  <1>2. step \in [Nat \X Nat -> Nat]
    BY <1>1
  <1>3. PICK g : Recurs(g, Nat, 0, step)
    <2> HIDE DEF step
    <2>1. 0 \in Nat
      OBVIOUS
    <2> QED
      BY <1>2, <2>1, Recursion
  <1>4. g \in [Nat -> Nat] /\ g[0] = 0 /\ \A n \in Nat : g[n + 1] = step[<<n, g[n]>>]
    <2> HIDE DEF step
    <2> QED
      BY <1>3 DEF Recurs
  <1> DEFINE h == [n \in 0 .. L |-> g[n]]
  <1>5. ASSUME NEW n \in 0 .. L
        PROVE  h[n] = IF n = 0 THEN 0 ELSE 10 * h[n - 1] + ds[n]
    <2>1. CASE n = 0
      BY <1>4, <2>1
    <2>2. CASE n # 0
      <3> HIDE DEF L
      <3>1. n - 1 \in Nat /\ n - 1 < L /\ (n - 1) + 1 = n /\ n - 1 \in 0 .. L
        BY <1>1, <2>2
      <3>2. h[n] = g[n] /\ h[n - 1] = g[n - 1] /\ g[n - 1] \in Nat
        BY <1>4, <3>1
      <3>3. g[n] = step[<<n - 1, g[n - 1]>>]
        BY <1>4, <3>1
      <3>4. step[<<n - 1, g[n - 1]>>] = 10 * g[n - 1] + ds[n]
        BY <3>1, <3>2
      <3> HIDE DEF h, step
      <3> QED
        BY <2>2, <3>2, <3>3, <3>4
    <2> QED
      BY <2>1, <2>2
  <1>6. Is(h)
    <2>1. h = [n \in 0 .. L |-> h[n]]
      OBVIOUS
    <2> HIDE DEF h
    <2> QED
      BY <1>5, <2>1
  <1>7. Is(value)
    <2> HIDE DEF Is, h
    <2> QED
      BY <1>6
  <1>8. Natural(ds) = value[L]
    BY DEF Natural
  <1> HIDE DEF value
  <1>9. value[0] = 0 /\ \A n \in 1 .. L : value[n] = 10 * value[n - 1] + ds[n]
    <2>1. value = [n \in 0 .. L |-> IF n = 0 THEN 0 ELSE 10 * value[n - 1] + ds[n]]
      BY <1>7
    <2>2. ASSUME NEW n \in 0 .. L
          PROVE  value[n] = IF n = 0 THEN 0 ELSE 10 * value[n - 1] + ds[n]
      <3> DEFINE F(m) == IF m = 0 THEN 0 ELSE 10 * value[m - 1] + ds[m]
      <3>1. value = [m \in 0 .. L |-> F(m)]
        BY <2>1
      <3> HIDE DEF F
      <3>2. value[n] = F(n)
        BY <3>1
      <3> QED
        BY <3>2 DEF F
    <2> HIDE DEF L
    <2> QED
      BY <1>1, <2>2
  <1> HIDE DEF Is, h, step, L
  <1> DEFINE Good(n) == value[n] \in Nat /\ (value[n] = 0 <=> Zeros(ds, n))
             S == {n \in Nat : n <= L => Good(n)}
  <1>10. 0 \in S
    BY <1>9 DEF Zeros
  <1>11. ASSUME NEW n \in S
         PROVE  n + 1 \in S
    <2>1. n \in Nat /\ (n <= L => Good(n))
      OBVIOUS
    <2>2. ASSUME n + 1 <= L
          PROVE  Good(n + 1)
      <3>1. Good(n) /\ n + 1 \in 1 .. L
        BY <1>1, <2>1, <2>2
      <3>2. value[n + 1] = 10 * value[n] + ds[n + 1] /\ ds[n + 1] \in Nat
        <4>1. (n + 1) - 1 = n
          BY <2>1
        <4> HIDE DEF Good, S
        <4>2. value[n + 1] = 10 * value[(n + 1) - 1] + ds[n + 1]
          BY <1>9, <3>1, Zenon
        <4> QED
          BY <1>1, <3>1, <4>1, <4>2
      <3>3. Zeros(ds, n + 1) <=> Zeros(ds, n) /\ ds[n + 1] = 0
        <4>1. \A d \in 1 .. n + 1 : d = n + 1 \/ d \in 1 .. n
          BY <2>1
        <4>2. n + 1 \in 1 .. n + 1 /\ \A d \in 1 .. n : d \in 1 .. n + 1
          BY <2>1
        <4> QED
          BY <4>1, <4>2 DEF Zeros
      <3>4. value[n] \in Nat /\ (value[n] = 0 <=> Zeros(ds, n))
        BY <3>1
      <3>5. value[n + 1] \in Nat /\ (value[n + 1] = 0 <=> value[n] = 0 /\ ds[n + 1] = 0)
        <4>1. \A a, b \in Nat : 10 * a + b \in Nat /\ (10 * a + b = 0 <=> a = 0 /\ b = 0)
          OBVIOUS
        <4>2. value[n] \in Nat /\ ds[n + 1] \in Nat
          BY <3>2, <3>4
        <4>3. /\ 10 * value[n] + ds[n + 1] \in Nat
              /\ 10 * value[n] + ds[n + 1] = 0 <=> value[n] = 0 /\ ds[n + 1] = 0
          BY <4>1, <4>2, Zenon
        <4> QED
          BY <3>2, <4>3, Zenon
      <3> QED
        BY <3>3, <3>4, <3>5
    <2> HIDE DEF Good
    <2> QED
      BY <2>1, <2>2
  <1>12. S = Nat
    <2>1. S \subseteq Nat
      OBVIOUS
    <2> HIDE DEF S
    <2> QED
      BY <1>10, <1>11, <2>1, Everything
  <1>13. Good(L)
    <2>1. L \in S
      <3> HIDE DEF S
      <3> QED
        BY <1>1, <1>12
    <2>2. L <= L
      BY <1>1
    <2> HIDE DEF Good
    <2> QED
      BY <2>1, <2>2
  <1> QED
    BY <1>8, <1>13 DEF L

(***************************************************************************)
(* sci_notation_to_float.  What it makes of a number is the number exactly *)
(* if the power of ten in the text it takes for the mantissa is 0.         *)
(***************************************************************************)
LEMMA SciNumbers ==
  ASSUME NEW x \in Numbers, x.sci
  PROVE  /\ x.negative \in BOOLEAN /\ x.sign \in {"", "-", "+"}
         /\ x.digits \in Seq(Nat) /\ Len(x.digits) \in Nat /\ Len(x.digits) >= 1
  <1>1. x \in [negative : BOOLEAN, sci : {TRUE}, sign : {"", "-", "+"}, digits : Exponents]
    BY DEF Numbers
  <1>2. PICK n \in 1 .. MaxDigits : x.digits \in [1 .. n -> Digits]
    BY <1>1 DEF Exponents
  <1>3. n \in Nat /\ n >= 1
    BY <1>2, DigitsAssumption DEF MaxPower
  <1>4. Digits \subseteq Nat
    BY DigitsAssumption
  <1>5. x.digits \in Seq(Nat) /\ Len(x.digits) = n
    <2>1. x.digits \in [1 .. n -> Nat]
      BY <1>2, <1>4
    <2> QED
      BY <1>3, <2>1
  <1> QED
    BY <1>1, <1>3, <1>5

LEMMA CutIsFloat ==
  ASSUME NEW x \in Numbers, x.sci, NEW cut \in Int, cut <= Len(x.digits)
  PROVE  /\ cut < 1 => CutAt(x, cut) = Exception
         /\ cut >= 1 => \E v \in Int : CutAt(x, cut) = Float(v) /\ (v = 0 <=> Zeros(x.digits, cut))
  <1>1. x.digits \in Seq(Nat) /\ Len(x.digits) \in Nat
    BY SciNumbers
  <1>2. cut < 1 => CutAt(x, cut) = Exception
    BY DEF CutAt
  <1>3. ASSUME cut >= 1
        PROVE  \E v \in Int : CutAt(x, cut) = Float(v) /\ (v = 0 <=> Zeros(x.digits, cut))
    <2> DEFINE ds == SubSeq(x.digits, 1, cut)
    <2>1. ds \in Seq(Nat) /\ Len(ds) = cut /\ \A d \in 1 .. cut : ds[d] = x.digits[d]
      BY <1>1, <1>3
    <2>2. Natural(ds) \in Nat /\ (Natural(ds) = 0 <=> Zeros(ds, cut))
      BY <2>1, NaturalIsNat
    <2>3. Zeros(ds, cut) <=> Zeros(x.digits, cut)
      BY <2>1 DEF Zeros
    <2>4. CutAt(x, cut) = Float(Power(x.sign, ds))
      BY <1>3 DEF CutAt
    <2> HIDE DEF ds
    <2>5. Power(x.sign, ds) \in Int /\ (Power(x.sign, ds) = 0 <=> Natural(ds) = 0)
      BY <2>2 DEF Power
    <2> QED
      BY <2>2, <2>3, <2>4, <2>5
  <1> QED
    BY <1>2, <1>3

LEMMA MantissaIsRight ==
  ASSUME NEW x \in Numbers, x.sci
  PROVE  \/ Mantissa(x) = Exception /\ ~SlicedRightly(x)
         \/ \E v \in Int : Mantissa(x) = Float(v) /\ (v = 0 <=> SlicedRightly(x))
  <1> DEFINE L == Len(x.digits)
  <1>1. L \in Nat /\ L >= 1 /\ x.negative \in BOOLEAN
    BY SciNumbers
  <1> HIDE DEF L
  <1>2. ASSUME NEW cut \in {L - 1, L - 2}
        PROVE  /\ cut < 1 => CutAt(x, cut) = Exception
               /\ cut >= 1 => \E v \in Int : CutAt(x, cut) = Float(v) /\ (v = 0 <=> Zeros(x.digits, cut))
    <2>1. cut \in Int /\ cut <= Len(x.digits)
      BY <1>1 DEF L
    <2> QED
      BY <2>1, CutIsFloat
  <1>3. CASE x.negative
    <2>1. Mantissa(x) = CutAt(x, L - 1)
      BY <1>3 DEF Mantissa, L
    <2>2. SlicedRightly(x) <=> L - 1 >= 1 /\ Zeros(x.digits, L - 1)
      BY <1>1, <1>3 DEF SlicedRightly, L
    <2> DEFINE cut == L - 1
    <2>3. cut \in {L - 1, L - 2} /\ ((cut < 1 /\ ~(cut >= 1)) \/ cut >= 1)
      BY <1>1
    <2> HIDE DEF cut
    <2>4. CASE cut < 1 /\ ~(cut >= 1)
      <3>1. Mantissa(x) = Exception /\ ~SlicedRightly(x)
        BY <1>2, <2>1, <2>2, <2>3, <2>4 DEF cut
      <3> QED
        BY <3>1
    <2>5. CASE cut >= 1
      <3>1. PICK v \in Int : CutAt(x, cut) = Float(v) /\ (v = 0 <=> Zeros(x.digits, cut))
        BY <1>2, <2>3, <2>5
      <3>2. Mantissa(x) = Float(v) /\ (v = 0 <=> SlicedRightly(x))
        BY <2>1, <2>2, <2>5, <3>1 DEF cut
      <3> QED
        BY <3>2
    <2> QED
      BY <2>3, <2>4, <2>5
  <1>4. CASE ~x.negative /\ (x.sign = "-" \/ (x.sign = "" /\ L = 1))
    <2>1. Mantissa(x) = Float(0)
      BY <1>4 DEF Mantissa, L
    <2>2. SlicedRightly(x)
      BY <1>4 DEF SlicedRightly, L
    <2> QED
      BY <2>1, <2>2
  <1>5. CASE ~x.negative /\ ~(x.sign = "-" \/ (x.sign = "" /\ L = 1))
    <2>0. ~x.negative /\ ~(x.sign = "-") /\ ~(x.sign = "" /\ L = 1)
      BY <1>5
    <2>1. Mantissa(x) = CutAt(x, L - 2)
      BY <2>0 DEF Mantissa, L
    <2>2. SlicedRightly(x) <=> L - 2 >= 1 /\ Zeros(x.digits, L - 2)
      <3>1. L >= 3 <=> L - 2 >= 1
        BY <1>1
      <3> QED
        BY <2>0, <3>1 DEF SlicedRightly, L
    <2> DEFINE cut == L - 2
    <2>3. cut \in {L - 1, L - 2} /\ ((cut < 1 /\ ~(cut >= 1)) \/ cut >= 1)
      BY <1>1
    <2> HIDE DEF cut
    <2>4. CASE cut < 1 /\ ~(cut >= 1)
      <3>1. Mantissa(x) = Exception /\ ~SlicedRightly(x)
        BY <1>2, <2>1, <2>2, <2>3, <2>4 DEF cut
      <3> QED
        BY <3>1
    <2>5. CASE cut >= 1
      <3>1. PICK v \in Int : CutAt(x, cut) = Float(v) /\ (v = 0 <=> Zeros(x.digits, cut))
        BY <1>2, <2>3, <2>5
      <3>2. Mantissa(x) = Float(v) /\ (v = 0 <=> SlicedRightly(x))
        BY <2>1, <2>2, <2>5, <3>1 DEF cut
      <3> QED
        BY <3>2
    <2> QED
      BY <2>3, <2>4, <2>5
  <1>6. CASE ~x.negative
    <2>1. CASE x.sign = "-" \/ (x.sign = "" /\ L = 1)
      BY <1>4, <1>6, <2>1
    <2>2. CASE ~(x.sign = "-" \/ (x.sign = "" /\ L = 1))
      BY <1>5, <1>6, <2>2
    <2> QED
      BY <2>1, <2>2
  <1> QED
    BY <1>3, <1>6

(* Scaling that mantissa by ten to the e prints ten to the e again exactly *)
(* if there was nothing to scale and e is within what can be printed.      *)
LEMMA ScaledIsRight ==
  ASSUME NEW v \in Int, NEW e \in Int
  PROVE  Printed(Product(Float(v), TenTo(e))) = Number(e)
           <=> v = 0 /\ e \in -Decimals .. MaxPower
  <1> USE DEF MaxPower, MinPower, Decimals
  <1>1. /\ \A m \in Int : /\ Number(m) \notin {Zero, Infinite, Exception}
                          /\ Number(m).is = "number" /\ Number(m).power = m
        /\ Exception \notin {Zero, Infinite} /\ Zero # Infinite
        /\ Printed(Exception) = Exception /\ Printed(Zero) = Zero /\ Printed(Infinite) = Infinite
    BY DEF Number, Zero, Infinite, Exception, Printed
  <1>2. \A m \in Int : /\ m > 308 => Float(m) = Infinite
                       /\ m < -323 => Float(m) = Zero
                       /\ m \in -323 .. 308 => Float(m) = Number(m)
    BY DEF Float
  <1>3. \A m \in Int : /\ m < -20 => Printed(Number(m)) = Zero
                       /\ m >= -20 => Printed(Number(m)) = Number(m)
    BY <1>1 DEF Printed
  <1>4. /\ e > 308 => TenTo(e) = Exception
        /\ e < -323 => TenTo(e) = Zero
        /\ e \in -323 .. 308 => TenTo(e) = Number(e)
    BY <1>2 DEF TenTo
  <1>5. Float(v) # Exception
    BY <1>1, <1>2
  <1>6. CASE e > 308
    <2>1. Product(Float(v), TenTo(e)) = Exception
      BY <1>4, <1>6 DEF Product
    <2> QED
      BY <1>1, <1>6, <2>1
  <1>7. CASE e < -323
    <2>1. Product(Float(v), TenTo(e)) = Zero
      BY <1>1, <1>4, <1>5, <1>7 DEF Product
    <2> QED
      BY <1>1, <1>7, <2>1
  <1>8. CASE e \in -323 .. 308
    <2>1. TenTo(e) = Number(e)
      BY <1>4, <1>8
    <2>2. CASE v \notin -323 .. 308
      <3>1. Product(Float(v), TenTo(e)) \in {Zero, Infinite}
        BY <1>1, <1>2, <1>5, <2>1, <2>2 DEF Product
      <3> QED
        BY <1>1, <2>2, <3>1
    <2>3. CASE v \in -323 .. 308
      <3>1. Product(Float(v), TenTo(e)) = Float(v + e)
        BY <1>1, <1>2, <2>1, <2>3 DEF Product
      <3>2. \/ v + e > 308 /\ Float(v + e) = Infinite
            \/ v + e < -323 /\ Float(v + e) = Zero
            \/ v + e \in -323 .. 308 /\ Float(v + e) = Number(v + e)
        BY <1>2
      <3>3. CASE v = 0
        <4>1. Float(v + e) = Number(e)
          BY <1>2, <1>8, <3>3
        <4> QED
          BY <1>1, <1>3, <1>8, <3>1, <3>3, <4>1
      <3>4. CASE v # 0
        <4>1. Printed(Float(v + e)) \in {Infinite, Zero, Number(v + e)}
          BY <1>1, <1>3, <3>2
        <4>2. Number(v + e) # Number(e)
          BY <1>1, <3>4
        <4> QED
          BY <1>1, <3>1, <3>4, <4>1, <4>2
      <3> QED
        BY <3>3, <3>4
    <2> QED
      BY <2>2, <2>3
  <1> QED
    BY <1>6, <1>7, <1>8

LEMMA ConversionIsRight ==
  ASSUME NEW x \in Numbers
  PROVE  Printed(Converted(x)) = Meaning(x) <=> Convertible(x)
  <1>1. CASE ~x.sci
    <2>1. Float(0) = Number(0) /\ Printed(Number(0)) = Number(0)
      BY DEF Float, Number, Printed, MaxPower, MinPower, Decimals
    <2> QED
      BY <1>1, <2>1 DEF Converted, Meaning, Convertible
  <1>2. CASE x.sci
    <2> DEFINE e == Power(x.sign, x.digits)
    <2>1. e \in Int
      <3>1. x.digits \in Seq(Nat)
        BY <1>2, SciNumbers
      <3>2. Natural(x.digits) \in Nat
        BY <3>1, NaturalIsNat
      <3> QED
        BY <3>2 DEF Power
    <2>2. /\ Meaning(x) = Number(e)
          /\ Converted(x) = Product(Mantissa(x), TenTo(e))
          /\ Convertible(x) <=> SlicedRightly(x) /\ e \in -Decimals .. MaxPower
      BY <1>2 DEF Meaning, Converted, Convertible
    <2> HIDE DEF e
    <2>3. CASE Mantissa(x) = Exception /\ ~SlicedRightly(x)
      <3>1. Converted(x) = Exception
        BY <2>2, <2>3 DEF Product
      <3>2. Printed(Exception) # Number(e)
        BY DEF Printed, Exception, Number
      <3> QED
        BY <2>2, <2>3, <3>1, <3>2
    <2>4. ASSUME NEW v \in Int, Mantissa(x) = Float(v), v = 0 <=> SlicedRightly(x)
          PROVE  Printed(Converted(x)) = Meaning(x) <=> Convertible(x)
      BY <2>1, <2>2, <2>4, ScaledIsRight
    <2> QED
      BY <1>2, <2>3, <2>4, MantissaIsRight
  <1> QED
    BY <1>1, <1>2

(***************************************************************************)
(* The stage thresholds of the header, whatever calls came before.         *)
(***************************************************************************)
ThresholdsPrinted ==
  /\ thresholds \in Files /\ DOMAIN header = Arrays
  /\ header["STAGE_DATA"] # NotPrinted => header["STAGE_DATA"] = StageData

LEMMA ThresholdsKept ==
  ASSUME ThresholdsPrinted, [GenNext]_genVars
  PROVE  ThresholdsPrinted'
  <1>1. thresholds \in Files /\ DOMAIN header = Arrays
    BY DEF ThresholdsPrinted
  <1>2. ASSUME thresholds' = thresholds, DOMAIN header' = Arrays,
               \/ header'["STAGE_DATA"] = header["STAGE_DATA"]
               \/ header'["STAGE_DATA"] = StageData
        PROVE  ThresholdsPrinted'
    BY <1>1, <1>2 DEF ThresholdsPrinted, StageData
  <1>3. CASE GenStage
    <2>1. /\ thresholds' = thresholds
          /\ header' = [header EXCEPT !["STAGE_DATA"] = StageData]
      BY <1>3 DEF GenStage, Call
    <2>2. DOMAIN header' = Arrays /\ header'["STAGE_DATA"] = StageData
      BY <1>1, <2>1 DEF Arrays
    <2> QED
      BY <1>2, <2>1, <2>2
  <1>4. CASE GenFeature
    <2>1. /\ thresholds' = thresholds
          /\ header' = [header EXCEPT !["FEAT_DATA"] = FeatureKeys]
      BY <1>4 DEF GenFeature, Call
    <2>2. DOMAIN header' = Arrays /\ header'["STAGE_DATA"] = header["STAGE_DATA"]
      BY <1>1, <2>1 DEF Arrays
    <2> QED
      BY <1>2, <2>1, <2>2
  <1>5. CASE GenRectangle
    <2>1. /\ thresholds' = thresholds
          /\ header' = [header EXCEPT !["RECT_DATA"] = RectKeys]
      BY <1>5 DEF GenRectangle, Call
    <2>2. DOMAIN header' = Arrays /\ header'["STAGE_DATA"] = header["STAGE_DATA"]
      BY <1>1, <2>1 DEF Arrays
    <2> QED
      BY <1>2, <2>1, <2>2
  <1>6. CASE GenNumbers
    <2>1. /\ thresholds' = thresholds
          /\ header' = [header EXCEPT !["FEAT_NUMS"] = feature_nums', !["RECT_NUMS"] = rectangle_nums']
      BY <1>6 DEF GenNumbers, Call
    <2>2. DOMAIN header' = Arrays /\ header'["STAGE_DATA"] = header["STAGE_DATA"]
      BY <1>1, <2>1 DEF Arrays
    <2> QED
      BY <1>2, <2>1, <2>2
  <1>7. CASE GenRaises \/ GenOther \/ NewProcess \/ UNCHANGED genVars
    <2>1. thresholds' = thresholds /\ header' = header
      BY <1>7 DEF GenRaises, GenOther, NewProcess, Call, genVars
    <2> QED
      BY <1>1, <1>2, <2>1
  <1> QED
    BY <1>3, <1>4, <1>5, <1>6, <1>7 DEF GenNext

LEMMA FileNumbers ==
  ASSUME thresholds \in Files, NEW s \in 1 .. Len(Cascade)
  PROVE  thresholds[s] \in Numbers
  <1>1. thresholds \in Seq(Numbers) /\ Len(thresholds) = Len(Cascade)
    BY CascadeAssumption
  <1> QED
    BY <1>1

(***************************************************************************)
(* Sums and concatenations of sequences.                                   *)
(***************************************************************************)
LEMMA SumToSteps ==
  ASSUME NEW s \in Seq(Nat)
  PROVE  /\ SumTo(s, 0) = 0
         /\ \A n \in 0 .. Len(s) - 1 : SumTo(s, n + 1) = SumTo(s, n) + s[n + 1]
         /\ \A n \in 0 .. Len(s) : SumTo(s, n) \in Nat
  <1> DEFINE f == [e \in 0 .. Len(s) - 1 |-> s[e + 1]]
  <1>1. Len(s) \in Nat /\ \A n \in 1 .. Len(s) : s[n] \in Nat
    OBVIOUS
  <1>2. \A e \in 0 .. Len(s) - 1 : f[e] = s[e + 1] /\ f[e] \in Nat
    BY <1>1
  <1>3. \A n : SumTo(s, n) = SumBelow(f, n)
    BY DEF SumTo
  <1> HIDE DEF f
  <1>4. ASSUME NEW n \in 0 .. Len(s) - 1
        PROVE  SumTo(s, n + 1) = SumTo(s, n) + s[n + 1]
    <2>1. n \in Nat
      OBVIOUS
    <2>2. SumBelow(f, n + 1) = SumBelow(f, n) + f[n]
      BY <2>1, SumSteps
    <2> QED
      BY <1>2, <1>3, <2>2
  <1>5. ASSUME NEW n \in 0 .. Len(s)
        PROVE  SumTo(s, n) \in Nat
    <2>1. n \in Nat /\ \A m \in 0 .. n - 1 : f[m] \in Nat
      BY <1>1, <1>2
    <2>2. SumBelow(f, n) \in Nat
      BY <2>1, SumIsNat
    <2> QED
      BY <1>3, <2>2
  <1>6. SumTo(s, 0) = 0
    BY <1>3, SumSteps
  <1> QED
    BY <1>4, <1>5, <1>6

LEMMA FlattenSteps ==
  ASSUME NEW T, NEW seqs \in Seq(Seq(T)), Len(seqs) # 0
  PROVE  \E v : /\ v \in [1 .. Len(seqs) -> Seq(T)] /\ v[1] = seqs[1]
                /\ \A n \in 1 .. Len(seqs) - 1 : v[n + 1] = v[n] \o seqs[n + 1]
                /\ FlattenSeq(seqs) = v[Len(seqs)]
  <1> DEFINE L == Len(seqs)
             V == Seq(T)
             Is(v) == v = [n \in 1 .. L |-> IF n = 1 THEN seqs[n] ELSE v[n - 1] \o seqs[n]]
             step == [p \in Nat \X V |-> IF p[1] + 2 <= L THEN p[2] \o seqs[p[1] + 2] ELSE p[2]]
             value == CHOOSE v : Is(v)
  <1>1. L \in Nat \ {0} /\ \A n \in 1 .. L : seqs[n] \in V
    OBVIOUS
  <1>2. step \in [Nat \X V -> V]
    <2> SUFFICES ASSUME NEW n \in Nat, NEW acc \in V, n + 2 <= L
                 PROVE  acc \o seqs[n + 2] \in V
      OBVIOUS
    <2>1. seqs[n + 2] \in V
      BY <1>1
    <2> QED
      BY <2>1
  <1>3. PICK g : Recurs(g, V, seqs[1], step)
    <2>1. seqs[1] \in V
      BY <1>1
    <2> HIDE DEF step, V
    <2> QED
      BY <1>2, <2>1, Recursion
  <1>4. g \in [Nat -> V] /\ g[0] = seqs[1] /\ \A n \in Nat : g[n + 1] = step[<<n, g[n]>>]
    <2> HIDE DEF step, V
    <2> QED
      BY <1>3 DEF Recurs
  <1> DEFINE h == [n \in 1 .. L |-> g[n - 1]]
  <1> HIDE DEF L, V
  <1>5. ASSUME NEW n \in 1 .. L
        PROVE  h[n] \in V /\ h[n] = IF n = 1 THEN seqs[n] ELSE h[n - 1] \o seqs[n]
    <2>1. h[n] \in V
      BY <1>1, <1>4
    <2>2. CASE n = 1
      BY <1>1, <1>4, <2>1, <2>2
    <2>3. CASE n # 1
      <3>1. n - 2 \in Nat /\ (n - 2) + 1 = n - 1 /\ n - 1 \in 1 .. L /\ (n - 1) - 1 = n - 2 /\ (n - 2) + 2 = n
        BY <1>1, <2>3
      <3>2. h[n] = g[n - 1] /\ h[n - 1] = g[n - 2] /\ g[n - 2] \in V
        BY <1>4, <3>1
      <3>3. g[n - 1] = step[<<n - 2, g[n - 2]>>]
        BY <1>4, <3>1
      <3>4. step[<<n - 2, g[n - 2]>>] = g[n - 2] \o seqs[n]
        <4>1. <<n - 2, g[n - 2]>> \in Nat \X V /\ (n - 2) + 2 <= L
          BY <1>1, <3>1, <3>2
        <4> QED
          BY <3>1, <4>1
      <3> HIDE DEF h, step
      <3> QED
        BY <2>1, <2>3, <3>2, <3>3, <3>4
    <2> QED
      BY <2>2, <2>3
  <1>6. Is(h)
    <2>1. h = [n \in 1 .. L |-> h[n]]
      OBVIOUS
    <2> HIDE DEF h
    <2> QED
      BY <1>5, <2>1
  <1>7. Is(value)
    <2> HIDE DEF Is, h
    <2> QED
      BY <1>6
  <1>8. FlattenSeq(seqs) = value[L]
    BY DEF FlattenSeq, L
  <1> HIDE DEF value, h, step
  <1>9. ASSUME NEW n \in 1 .. L
        PROVE  value[n] = IF n = 1 THEN seqs[n] ELSE value[n - 1] \o seqs[n]
    <2> DEFINE F(m) == IF m = 1 THEN seqs[m] ELSE value[m - 1] \o seqs[m]
    <2>1. value = [m \in 1 .. L |-> F(m)]
      BY <1>7
    <2> HIDE DEF F
    <2>2. value[n] = F(n)
      BY <2>1
    <2> QED
      BY <2>2 DEF F
  <1>10. value[1] = seqs[1]
    BY <1>1, <1>9
  <1>11. ASSUME NEW n \in 1 .. L - 1
         PROVE  value[n + 1] = value[n] \o seqs[n + 1]
    <2>1. n + 1 \in 1 .. L /\ n + 1 # 1 /\ (n + 1) - 1 = n
      BY <1>1
    <2>2. value[n + 1] = value[(n + 1) - 1] \o seqs[n + 1]
      BY <1>9, <2>1, Zenon
    <2> QED
      BY <2>1, <2>2
  <1> DEFINE S == {n \in Nat : n + 1 <= L => value[n + 1] \in V}
  <1>12. 0 \in S
    BY <1>1, <1>10
  <1>13. ASSUME NEW n \in S
         PROVE  n + 1 \in S
    <2>1. n \in Nat /\ (n + 1 <= L => value[n + 1] \in V)
      OBVIOUS
    <2>2. ASSUME (n + 1) + 1 <= L
          PROVE  value[(n + 1) + 1] \in V
      <3>1. n + 1 \in 1 .. L - 1 /\ (n + 1) + 1 \in 1 .. L /\ n + 1 <= L
        BY <1>1, <2>1, <2>2
      <3>2. value[(n + 1) + 1] = value[n + 1] \o seqs[(n + 1) + 1]
        BY <1>11, <3>1, Zenon
      <3>3. value[n + 1] \in Seq(T) /\ seqs[(n + 1) + 1] \in Seq(T)
        BY <1>1, <2>1, <3>1 DEF V
      <3>4. value[n + 1] \o seqs[(n + 1) + 1] \in Seq(T)
        BY <3>3
      <3> QED
        BY <3>2, <3>4 DEF V
    <2> QED
      BY <2>1, <2>2
  <1>14. S = Nat
    <2>1. S \subseteq Nat
      OBVIOUS
    <2> HIDE DEF S
    <2> QED
      BY <1>12, <1>13, <2>1, Everything
  <1>15. ASSUME NEW n \in 1 .. L
         PROVE  value[n] \in V
    <2>1. n - 1 \in Nat /\ (n - 1) + 1 = n /\ n <= L
      BY <1>1
    <2>2. n - 1 \in S
      <3> HIDE DEF S
      <3> QED
        BY <1>14, <2>1
    <2> QED
      BY <2>1, <2>2
  <1>16. value \in [1 .. L -> V]
    <2>1. value = [n \in 1 .. L |-> value[n]]
      BY <1>7
    <2> QED
      BY <1>15, <2>1
  <1> QED
    BY <1>8, <1>10, <1>11, <1>16 DEF L, V

(* The lengths of sequences, and the sums of sequences of numbers.         *)
Lens(seqs)   == [n \in 1 .. Len(seqs) |-> Len(seqs[n])]
Totals(seqs) == [n \in 1 .. Len(seqs) |-> SumTo(seqs[n], Len(seqs[n]))]

LEMMA LensAreNats ==
  ASSUME NEW T, NEW seqs \in Seq(Seq(T))
  PROVE  /\ Lens(seqs) \in Seq(Nat) /\ Len(Lens(seqs)) = Len(seqs)
         /\ \A n \in 1 .. Len(seqs) : /\ seqs[n] \in Seq(T) /\ Len(seqs[n]) \in Nat
                                      /\ Lens(seqs)[n] = Len(seqs[n])
         /\ SumTo(Lens(seqs), 0) = 0
         /\ \A n \in 0 .. Len(seqs) : SumTo(Lens(seqs), n) \in Nat
         /\ \A n \in 0 .. Len(seqs) - 1 :
              SumTo(Lens(seqs), n + 1) = SumTo(Lens(seqs), n) + Len(seqs[n + 1])
  <1>1. Len(seqs) \in Nat /\ \A n \in 1 .. Len(seqs) : seqs[n] \in Seq(T)
    OBVIOUS
  <1>2. \A n \in 1 .. Len(seqs) : Len(seqs[n]) \in Nat
    BY <1>1
  <1>3. Lens(seqs) \in Seq(Nat) /\ Len(Lens(seqs)) = Len(seqs)
    BY <1>1, <1>2 DEF Lens
  <1>4. \A n \in 1 .. Len(seqs) : Lens(seqs)[n] = Len(seqs[n])
    BY DEF Lens
  <1>5. \A n \in 0 .. Len(seqs) - 1 : n + 1 \in 1 .. Len(seqs)
    BY <1>1
  <1> QED
    BY <1>1, <1>2, <1>3, <1>4, <1>5, SumToSteps

(* The concatenation of the sequences seqs[1] ... seqs[m] is acc.          *)
Joins(seqs, T, m, acc) ==
  /\ acc \in Seq(T) /\ Len(acc) = SumTo(Lens(seqs), m)
  /\ \A n \in 1 .. m : \A e \in 1 .. Len(seqs[n]) :
       /\ SumTo(Lens(seqs), n - 1) + e \in 1 .. Len(acc)
       /\ acc[SumTo(Lens(seqs), n - 1) + e] = seqs[n][e]
  /\ \A p \in 1 .. Len(acc) : \E n \in 1 .. m : \E e \in 1 .. Len(seqs[n]) :
       p = SumTo(Lens(seqs), n - 1) + e

LEMMA JoinsOne ==
  ASSUME NEW T, NEW seqs \in Seq(Seq(T)), Len(seqs) # 0
  PROVE  Joins(seqs, T, 1, seqs[1])
  <1> DEFINE off(n) == SumTo(Lens(seqs), n)
  <1>1. 1 \in 1 .. Len(seqs) /\ 0 \in 0 .. Len(seqs) - 1
    OBVIOUS
  <1>2. seqs[1] \in Seq(T) /\ Len(seqs[1]) \in Nat
    BY <1>1, LensAreNats
  <1>3. off(0) = 0 /\ off(0 + 1) = off(0) + Len(seqs[1])
    BY <1>1, LensAreNats
  <1>4. off(1) = Len(seqs[1])
    BY <1>2, <1>3
  <1>5. \A n \in 1 .. 1 : n = 1 /\ off(n - 1) = 0
    BY <1>3
  <1> HIDE DEF off
  <1>6. \A n \in 1 .. 1 : \A e \in 1 .. Len(seqs[n]) :
          off(n - 1) + e \in 1 .. Len(seqs[1]) /\ seqs[1][off(n - 1) + e] = seqs[n][e]
    BY <1>2, <1>5
  <1>7. \A p \in 1 .. Len(seqs[1]) : \E n \in 1 .. 1 : \E e \in 1 .. Len(seqs[n]) : p = off(n - 1) + e
    <2> TAKE p \in 1 .. Len(seqs[1])
    <2>1. 1 \in 1 .. 1 /\ p = off(1 - 1) + p
      BY <1>2, <1>5
    <2> QED
      BY <2>1
  <1> QED
    BY <1>2, <1>4, <1>6, <1>7 DEF Joins, off

LEMMA JoinsNext ==
  ASSUME NEW T, NEW seqs \in Seq(Seq(T)), NEW m \in 1 .. Len(seqs) - 1, NEW acc, Joins(seqs, T, m, acc)
  PROVE  Joins(seqs, T, m + 1, acc \o seqs[m + 1])
  <1> DEFINE off(n) == SumTo(Lens(seqs), n)
             s == seqs[m + 1]
             all == acc \o s
  <1>1. m \in Nat /\ m + 1 \in 1 .. Len(seqs) /\ m \in 0 .. Len(seqs) - 1 /\ m \in 0 .. Len(seqs) /\ (m + 1) - 1 = m
    OBVIOUS
  <1>2. s \in Seq(T) /\ Len(s) \in Nat
    BY <1>1, LensAreNats
  <1>3. off(m) \in Nat /\ off(m + 1) = off(m) + Len(s)
    BY <1>1, LensAreNats
  <1>4. acc \in Seq(T) /\ Len(acc) = off(m)
    BY DEF Joins
  <1> HIDE DEF s
  <1>5. /\ all \in Seq(T) /\ Len(all) = off(m + 1)
        /\ \A p \in 1 .. Len(acc) : p \in 1 .. Len(all) /\ all[p] = acc[p]
        /\ \A e \in 1 .. Len(s) : off(m) + e \in 1 .. Len(all) /\ all[off(m) + e] = s[e]
    <2>1. /\ all \in Seq(T) /\ Len(all) = Len(acc) + Len(s)
          /\ \A p \in 1 .. Len(acc) : all[p] = acc[p]
          /\ \A e \in 1 .. Len(s) : all[Len(acc) + e] = s[e]
      <3>1. acc \in Seq(T) /\ s \in Seq(T)
        BY <1>2, <1>4
      <3>2. /\ all \in Seq(T) /\ Len(all) = Len(acc) + Len(s)
            /\ \A p \in 1 .. Len(acc) : all[p] = acc[p]
        BY <3>1, Concatenated
      <3>3. \A e \in 1 .. Len(s) : all[Len(acc) + e] = s[e]
        BY <3>1, Concatenated
      <3> QED
        BY <3>2, <3>3
    <2> HIDE DEF all, off
    <2>2. \A p \in 1 .. Len(acc) : p \in 1 .. Len(all)
      BY <1>2, <1>3, <1>4, <2>1
    <2>3. \A e \in 1 .. Len(s) : off(m) + e \in 1 .. Len(all)
      BY <1>2, <1>3, <1>4, <2>1
    <2> QED
      BY <1>3, <1>4, <2>1, <2>2, <2>3
  <1> HIDE DEF all
  <1>6. ASSUME NEW n \in 1 .. m + 1, NEW e \in 1 .. Len(seqs[n])
        PROVE  off(n - 1) + e \in 1 .. Len(all) /\ all[off(n - 1) + e] = seqs[n][e]
    <2>1. CASE n = m + 1
      <3>1. n - 1 = m /\ e \in 1 .. Len(s) /\ seqs[n] = s
        BY <1>1, <2>1 DEF s
      <3> HIDE DEF off
      <3> QED
        BY <1>5, <3>1
    <2>2. CASE n \in 1 .. m
      <3>1. off(n - 1) + e \in 1 .. Len(acc) /\ acc[off(n - 1) + e] = seqs[n][e]
        BY <2>2 DEF Joins
      <3> HIDE DEF off
      <3> QED
        BY <1>5, <3>1
    <2> QED
      BY <1>1, <2>1, <2>2
  <1>7. ASSUME NEW p \in 1 .. Len(all)
        PROVE  \E n \in 1 .. m + 1 : \E e \in 1 .. Len(seqs[n]) : p = off(n - 1) + e
    <2>1. CASE p \in 1 .. Len(acc)
      <3>1. PICK n \in 1 .. m : \E e \in 1 .. Len(seqs[n]) : p = off(n - 1) + e
        BY <2>1 DEF Joins
      <3>2. n \in 1 .. m + 1
        BY <1>1
      <3> QED
        BY <3>1, <3>2
    <2>2. CASE p \notin 1 .. Len(acc)
      <3> DEFINE e == p - off(m)
      <3> HIDE DEF off
      <3>1. e \in 1 .. Len(s) /\ p = off(m) + e
        BY <1>2, <1>3, <1>4, <1>5, <2>2
      <3> HIDE DEF e
      <3>2. m + 1 \in 1 .. m + 1 /\ e \in 1 .. Len(seqs[m + 1]) /\ p = off((m + 1) - 1) + e
        BY <1>1, <3>1 DEF s
      <3> QED
        BY <3>2
    <2> QED
      BY <2>1, <2>2
  <1> QED
    BY <1>5, <1>6, <1>7 DEF Joins, all, s

LEMMA Flattened ==
  ASSUME NEW T, NEW seqs \in Seq(Seq(T)), Len(seqs) # 0
  PROVE  /\ Joins(seqs, T, Len(seqs), FlattenSeq(seqs))
         /\ Len(seqs) = 1 => FlattenSeq(seqs) = seqs[1]
  <1> DEFINE L == Len(seqs)
  <1>1. L \in Nat \ {0}
    OBVIOUS
  <1>2. PICK v : /\ v \in [1 .. L -> Seq(T)] /\ v[1] = seqs[1]
                 /\ \A n \in 1 .. L - 1 : v[n + 1] = v[n] \o seqs[n + 1]
                 /\ FlattenSeq(seqs) = v[L]
    BY FlattenSteps
  <1> DEFINE S == {n \in Nat : n + 1 <= L => Joins(seqs, T, n + 1, v[n + 1])}
  <1>3. 0 \in S
    BY <1>2, JoinsOne
  <1>4. ASSUME NEW n \in S
        PROVE  n + 1 \in S
    <2>1. n \in Nat /\ (n + 1 <= L => Joins(seqs, T, n + 1, v[n + 1]))
      OBVIOUS
    <2>2. ASSUME (n + 1) + 1 <= L
          PROVE  Joins(seqs, T, (n + 1) + 1, v[(n + 1) + 1])
      <3>1. n + 1 \in 1 .. L - 1 /\ n + 1 <= L
        BY <1>1, <2>1, <2>2
      <3>2. v[(n + 1) + 1] = v[n + 1] \o seqs[(n + 1) + 1]
        BY <1>2, <3>1, Zenon
      <3>3. Joins(seqs, T, n + 1, v[n + 1])
        BY <2>1, <3>1
      <3>4. Joins(seqs, T, (n + 1) + 1, v[n + 1] \o seqs[(n + 1) + 1])
        BY <3>1, <3>3, JoinsNext
      <3> QED
        BY <3>2, <3>4
    <2> QED
      BY <2>1, <2>2
  <1>5. S = Nat
    <2>1. S \subseteq Nat
      OBVIOUS
    <2> HIDE DEF S
    <2> QED
      BY <1>3, <1>4, <2>1, Everything
  <1>6. Joins(seqs, T, L, v[L])
    <2>1. L - 1 \in Nat /\ (L - 1) + 1 = L /\ L <= L
      BY <1>1
    <2>2. L - 1 \in S
      <3> HIDE DEF S
      <3> QED
        BY <1>5, <2>1
    <2> QED
      BY <2>1, <2>2
  <1> QED
    BY <1>2, <1>6

LEMMA TotalsAreNats ==
  ASSUME NEW seqs \in Seq(Seq(Nat))
  PROVE  /\ Totals(seqs) \in Seq(Nat) /\ Len(Totals(seqs)) = Len(seqs)
         /\ SumTo(Totals(seqs), 0) = 0
         /\ \A n \in 0 .. Len(seqs) : SumTo(Totals(seqs), n) \in Nat
         /\ \A n \in 0 .. Len(seqs) - 1 :
              SumTo(Totals(seqs), n + 1)
                = SumTo(Totals(seqs), n) + SumTo(seqs[n + 1], Len(seqs[n + 1]))
  <1>1. Len(seqs) \in Nat /\ \A n \in 1 .. Len(seqs) : seqs[n] \in Seq(Nat)
    OBVIOUS
  <1>2. ASSUME NEW n \in 1 .. Len(seqs)
        PROVE  SumTo(seqs[n], Len(seqs[n])) \in Nat
    <2>1. seqs[n] \in Seq(Nat) /\ Len(seqs[n]) \in 0 .. Len(seqs[n])
      <3>1. seqs[n] \in Seq(Nat)
        BY <1>1
      <3> QED
        BY <3>1
    <2> QED
      BY <2>1, SumToSteps
  <1>3. Totals(seqs) \in Seq(Nat) /\ Len(Totals(seqs)) = Len(seqs)
    BY <1>1, <1>2 DEF Totals
  <1>4. \A n \in 0 .. Len(seqs) - 1 :
          Totals(seqs)[n + 1] = SumTo(seqs[n + 1], Len(seqs[n + 1]))
    BY <1>1 DEF Totals
  <1> QED
    BY <1>3, <1>4, SumToSteps

(* A sum over the concatenation is that of the sequences before and of the *)
(* beginning of the one it ends in.                                        *)
LEMMA SumOfFlattened ==
  ASSUME NEW seqs \in Seq(Seq(Nat)), Len(seqs) # 0, NEW n \in 1 .. Len(seqs)
  PROVE  \A e \in 0 .. Len(seqs[n]) :
           SumTo(FlattenSeq(seqs), SumTo(Lens(seqs), n - 1) + e)
             = SumTo(Totals(seqs), n - 1) + SumTo(seqs[n], e)
  <1> DEFINE F == FlattenSeq(seqs)
             L == Len(seqs)
             off(m) == SumTo(Lens(seqs), m)
             tot(m) == SumTo(Totals(seqs), m)
             Good(m) == SumTo(F, off(m)) = tot(m)
  <1>1. /\ F \in Seq(Nat) /\ Len(F) \in Nat
        /\ \A m \in 1 .. L : \A e \in 1 .. Len(seqs[m]) : off(m - 1) + e \in 1 .. Len(F)
    <2>1. Joins(seqs, Nat, L, F)
      BY Flattened
    <2>2. F \in Seq(Nat)
      BY <2>1 DEF Joins
    <2>3. Len(F) \in Nat
      BY <2>2
    <2>4. \A m \in 1 .. L : \A e \in 1 .. Len(seqs[m]) : off(m - 1) + e \in 1 .. Len(F)
      BY <2>1 DEF Joins
    <2> QED
      BY <2>2, <2>3, <2>4
  <1>2. L \in Nat \ {0}
    OBVIOUS
  <1>3. /\ off(0) = 0 /\ tot(0) = 0 /\ SumTo(F, 0) = 0
        /\ \A m \in 0 .. L : off(m) \in Nat /\ tot(m) \in Nat
        /\ \A m \in 0 .. L - 1 : off(m + 1) = off(m) + Len(seqs[m + 1])
    BY <1>1, LensAreNats, TotalsAreNats, SumToSteps
  <1>4. \A m \in 0 .. L - 1 : tot(m + 1) = tot(m) + SumTo(seqs[m + 1], Len(seqs[m + 1]))
    BY TotalsAreNats
  <1>5. \A q \in 0 .. Len(F) - 1 : SumTo(F, q + 1) = SumTo(F, q) + F[q + 1]
    BY <1>1, SumToSteps
  <1>6. \A m \in 1 .. L : \A e \in 1 .. Len(seqs[m]) : F[off(m - 1) + e] = seqs[m][e]
    BY Flattened DEF Joins
  <1> HIDE DEF F, off, tot
  <1>7. ASSUME NEW m \in 1 .. L, Good(m - 1)
        PROVE  \A e \in 0 .. Len(seqs[m]) : SumTo(F, off(m - 1) + e) = tot(m - 1) + SumTo(seqs[m], e)
    <2> DEFINE s == seqs[m]
               o == off(m - 1)
               S == {e \in Nat : e <= Len(s) => SumTo(F, o + e) = tot(m - 1) + SumTo(s, e)}
    <2>1. s \in Seq(Nat) /\ Len(s) \in Nat
      BY <1>2, LensAreNats
    <2>2. m - 1 \in 0 .. L /\ o \in Nat /\ tot(m - 1) \in Nat
      BY <1>2, <1>3
    <2>3. /\ SumTo(s, 0) = 0
          /\ \A e \in 0 .. Len(s) - 1 : SumTo(s, e + 1) = SumTo(s, e) + s[e + 1]
          /\ \A e \in 0 .. Len(s) : SumTo(s, e) \in Nat
      BY <2>1, SumToSteps
    <2>4. SumTo(F, o) = tot(m - 1)
      BY <1>7
    <2>5. \A e \in 1 .. Len(s) : o + e \in 1 .. Len(F) /\ F[o + e] = s[e] /\ s[e] \in Nat
      <3>1. \A e \in 1 .. Len(s) : s[e] \in Nat
        BY <2>1
      <3>2. \A e \in 1 .. Len(s) : o + e \in 1 .. Len(F)
        BY <1>1
      <3>3. \A e \in 1 .. Len(s) : F[o + e] = s[e]
        BY <1>6
      <3> QED
        BY <3>1, <3>2, <3>3
    <2> HIDE DEF s, o
    <2>6. 0 \in S
      <3>1. o + 0 = o /\ tot(m - 1) + 0 = tot(m - 1)
        BY <2>2
      <3> QED
        BY <2>3, <2>4, <3>1
    <2>7. ASSUME NEW e \in S
          PROVE  e + 1 \in S
      <3>1. e \in Nat /\ (e <= Len(s) => SumTo(F, o + e) = tot(m - 1) + SumTo(s, e))
        OBVIOUS
      <3>2. ASSUME e + 1 <= Len(s)
            PROVE  SumTo(F, o + (e + 1)) = tot(m - 1) + SumTo(s, e + 1)
        <4>1. e \in 0 .. Len(s) - 1 /\ e + 1 \in 1 .. Len(s) /\ e <= Len(s) /\ e \in 0 .. Len(s)
          BY <2>1, <3>1, <3>2
        <4>2. o + (e + 1) = (o + e) + 1
          BY <2>2, <3>1
        <4>3. o + (e + 1) \in 1 .. Len(F) /\ F[o + (e + 1)] = s[e + 1] /\ s[e + 1] \in Nat
          BY <2>5, <4>1
        <4>4. o + e \in 0 .. Len(F) - 1
          BY <1>1, <2>2, <3>1, <4>3
        <4>5. SumTo(F, (o + e) + 1) = SumTo(F, o + e) + F[(o + e) + 1]
          BY <1>5, <4>4
        <4>6. SumTo(s, e + 1) = SumTo(s, e) + s[e + 1] /\ SumTo(s, e) \in Nat
          BY <2>3, <4>1
        <4>7. SumTo(F, o + e) = tot(m - 1) + SumTo(s, e)
          BY <3>1, <4>1
        <4>8. (tot(m - 1) + SumTo(s, e)) + s[e + 1] = tot(m - 1) + (SumTo(s, e) + s[e + 1])
          BY <2>2, <4>3, <4>6
        <4> QED
          BY <4>2, <4>3, <4>5, <4>6, <4>7, <4>8
      <3> QED
        BY <3>1, <3>2
    <2>8. S = Nat
      <3>1. S \subseteq Nat
        OBVIOUS
      <3> HIDE DEF S
      <3> QED
        BY <2>6, <2>7, <3>1, Everything
    <2>9. ASSUME NEW e \in 0 .. Len(s)
          PROVE  SumTo(F, o + e) = tot(m - 1) + SumTo(s, e)
      <3>1. e \in Nat /\ e <= Len(s)
        BY <2>1
      <3>2. e \in S
        <4> HIDE DEF S
        <4> QED
          BY <2>8, <3>1
      <3> QED
        BY <3>1, <3>2
    <2> QED
      BY <2>9 DEF s, o
  <1> DEFINE S == {m \in Nat : m <= L => Good(m)}
  <1>8. 0 \in S
    BY <1>3
  <1>9. ASSUME NEW m \in S
        PROVE  m + 1 \in S
    <2>1. m \in Nat /\ (m <= L => Good(m))
      OBVIOUS
    <2>2. ASSUME m + 1 <= L
          PROVE  Good(m + 1)
      <3>1. m \in 0 .. L - 1 /\ m + 1 \in 1 .. L /\ (m + 1) - 1 = m /\ m <= L
        BY <1>2, <2>1, <2>2
      <3>2. Good((m + 1) - 1)
        BY <2>1, <3>1
      <3>3. Len(seqs[m + 1]) \in 0 .. Len(seqs[m + 1])
        <4>1. Len(seqs[m + 1]) \in Nat
          BY <3>1, LensAreNats
        <4> QED
          BY <4>1
      <3>4. SumTo(F, off(m) + Len(seqs[m + 1])) = tot(m) + SumTo(seqs[m + 1], Len(seqs[m + 1]))
        <4> HIDE DEF Good
        <4> QED
          BY <1>7, <3>1, <3>2, <3>3
      <3> QED
        BY <1>3, <1>4, <3>1, <3>4
    <2> HIDE DEF Good
    <2> QED
      BY <2>1, <2>2
  <1>10. S = Nat
    <2>1. S \subseteq Nat
      OBVIOUS
    <2> HIDE DEF S
    <2> QED
      BY <1>8, <1>9, <2>1, Everything
  <1>11. Good(n - 1)
    <2>1. n - 1 \in Nat /\ n - 1 <= L
      BY <1>2
    <2>2. n - 1 \in S
      <3> HIDE DEF S
      <3> QED
        BY <1>10, <2>1
    <2> HIDE DEF Good
    <2> QED
      BY <2>1, <2>2
  <1> QED
    BY <1>7, <1>11 DEF F, off, tot

LEMMA FlattenedToo ==
  ASSUME NEW T, NEW seqs \in Seq(Seq(T))
  PROVE  Joins(seqs, T, Len(seqs), FlattenSeq(seqs))
  <1>1. CASE Len(seqs) # 0
    BY <1>1, Flattened
  <1>2. CASE Len(seqs) = 0
    <2>1. FlattenSeq(seqs) = <<>>
      <3>1. FlattenSeq(seqs) = seqs
        BY <1>2 DEF FlattenSeq
      <3>2. seqs = <<>>
        BY <1>2
      <3> QED
        BY <3>1, <3>2
    <2>2. <<>> \in Seq(T) /\ Len(<<>>) = 0
      OBVIOUS
    <2>3. SumTo(Lens(seqs), 0) = 0
      BY LensAreNats
    <2>4. \A n : n \notin 1 .. 0
      OBVIOUS
    <2> HIDE DEF Lens
    <2> QED
      BY <1>2, <2>1, <2>2, <2>3, <2>4 DEF Joins
  <1> QED
    BY <1>1, <1>2

(***************************************************************************)
(* The dictionaries of haar_parser, in the order main.c counts along.      *)
(***************************************************************************)
LEMMA CascadeStages ==
  /\ Cascade \in Seq(Seq(Nat)) /\ Len(Cascade) \in Nat \ {0}
  /\ FeatureCounts = Lens(Cascade) /\ Len(FeatureCounts) = Len(Cascade)
  /\ \A s \in 1 .. Len(Cascade) : /\ Cascade[s] \in Seq(Nat) /\ Len(Cascade[s]) \in Nat
                                  /\ \A f \in 1 .. Len(Cascade[s]) : Cascade[s][f] \in Nat
  <1>1. Cascade \in Seq(Seq(Nat)) /\ Cascade # <<>>
    BY CascadeAssumption
  <1>2. Len(Cascade) \in Nat \ {0}
    BY <1>1
  <1>3. FeatureCounts = Lens(Cascade) /\ Len(FeatureCounts) = Len(Cascade)
    BY <1>2 DEF FeatureCounts, Lens
  <1>4. ASSUME NEW s \in 1 .. Len(Cascade)
        PROVE  /\ Cascade[s] \in Seq(Nat) /\ Len(Cascade[s]) \in Nat
               /\ \A f \in 1 .. Len(Cascade[s]) : Cascade[s][f] \in Nat
    <2>1. Cascade[s] \in Seq(Nat)
      BY <1>1
    <2> QED
      BY <2>1
  <1> QED
    BY <1>1, <1>2, <1>3, <1>4

LEMMA KeysOfFeatures ==
  /\ Len(FeatureKeys) \in Nat /\ Len(FeatureKeys) = SumTo(FeatureCounts, Len(Cascade))
  /\ \A s \in 1 .. Len(Cascade) : \A f \in 1 .. Len(Cascade[s]) :
       /\ SumTo(FeatureCounts, s - 1) + f \in 1 .. Len(FeatureKeys)
       /\ FeatureKeys[SumTo(FeatureCounts, s - 1) + f] = <<s - 1, f - 1>>
  /\ \A p \in 1 .. Len(FeatureKeys) : \E s \in 1 .. Len(Cascade) : \E f \in 1 .. Len(Cascade[s]) :
       p = SumTo(FeatureCounts, s - 1) + f
  <1> DEFINE T == Nat \X Nat
             L == Len(Cascade)
             stage(s) == [f \in 1 .. Len(Cascade[s]) |-> <<s - 1, f - 1>>]
             seqs == [s \in 1 .. L |-> stage(s)]
  <1>1. L \in Nat /\ \A s \in 1 .. L : Len(Cascade[s]) \in Nat
    BY CascadeStages
  <1>2. ASSUME NEW s \in 1 .. L
        PROVE  stage(s) \in Seq(T) /\ Len(stage(s)) = Len(Cascade[s])
    <2>1. \A f \in 1 .. Len(Cascade[s]) : <<s - 1, f - 1>> \in T
      BY <1>1
    <2>2. Len(Cascade[s]) \in Nat
      BY <1>1
    <2> HIDE DEF T
    <2>3. stage(s) \in [1 .. Len(Cascade[s]) -> T]
      BY <2>1
    <2> HIDE DEF stage
    <2> QED
      BY <2>2, <2>3
  <1>3. FeatureKeys = FlattenSeq(seqs)
    BY DEF FeatureKeys
  <1> HIDE DEF stage
  <1>4. seqs \in Seq(Seq(T)) /\ Len(seqs) = L /\ \A s \in 1 .. L : seqs[s] = stage(s)
    <2> DEFINE U == Seq(T)
    <2>1. \A s \in 1 .. L : stage(s) \in U
      BY <1>2
    <2> HIDE DEF U
    <2>2. seqs \in Seq(U) /\ Len(seqs) = L
      BY <1>1, <2>1
    <2> QED
      BY <2>2 DEF U
  <1> HIDE DEF seqs, T
  <1>5. Lens(seqs) = FeatureCounts
    BY <1>2, <1>4 DEF Lens, FeatureCounts
  <1>6. Joins(seqs, T, L, FeatureKeys)
    BY <1>3, <1>4, FlattenedToo
  <1>7. FeatureKeys \in Seq(T) /\ Len(FeatureKeys) = SumTo(FeatureCounts, L)
    BY <1>5, <1>6 DEF Joins
  <1>8. Len(FeatureKeys) \in Nat
    BY <1>7
  <1>9. ASSUME NEW s \in 1 .. L, NEW f \in 1 .. Len(Cascade[s])
        PROVE  /\ SumTo(FeatureCounts, s - 1) + f \in 1 .. Len(FeatureKeys)
               /\ FeatureKeys[SumTo(FeatureCounts, s - 1) + f] = <<s - 1, f - 1>>
    <2>1. Len(seqs[s]) = Len(Cascade[s])
      BY <1>2, <1>4
    <2>2. seqs[s][f] = <<s - 1, f - 1>>
      BY <1>4 DEF stage
    <2> QED
      BY <1>5, <1>6, <2>1, <2>2 DEF Joins
  <1>10. ASSUME NEW p \in 1 .. Len(FeatureKeys)
         PROVE  \E s \in 1 .. L : \E f \in 1 .. Len(Cascade[s]) : p = SumTo(FeatureCounts, s - 1) + f
    <2>1. PICK s \in 1 .. L : \E f \in 1 .. Len(seqs[s]) : p = SumTo(FeatureCounts, s - 1) + f
      BY <1>5, <1>6 DEF Joins
    <2>2. Len(seqs[s]) = Len(Cascade[s])
      BY <1>2, <1>4
    <2> QED
      BY <2>1, <2>2
  <1> QED
    BY <1>7, <1>8, <1>9, <1>10

LEMMA CountsOfRectangles ==
  /\ Len(RectCounts) = SumTo(FeatureCounts, Len(Cascade))
  /\ \A s \in 1 .. Len(Cascade) : \A e \in 0 .. Len(Cascade[s]) :
       SumTo(RectCounts, SumTo(FeatureCounts, s - 1) + e)
         = SumTo(Totals(Cascade), s - 1) + SumTo(Cascade[s], e)
  <1>1. Joins(Cascade, Nat, Len(Cascade), RectCounts)
    BY CascadeStages, FlattenedToo DEF RectCounts
  <1>2. Len(RectCounts) = SumTo(FeatureCounts, Len(Cascade))
    BY <1>1, CascadeStages DEF Joins
  <1>3. \A s \in 1 .. Len(Cascade) : \A e \in 0 .. Len(Cascade[s]) :
          SumTo(RectCounts, SumTo(FeatureCounts, s - 1) + e)
            = SumTo(Totals(Cascade), s - 1) + SumTo(Cascade[s], e)
    BY CascadeStages, SumOfFlattened DEF RectCounts
  <1> QED
    BY <1>2, <1>3

(* One stage's part of RectKeys.                                           *)
StageKeys(s) ==
  FlattenSeq([f \in 1 .. Len(Cascade[s]) |->
    [r \in 1 .. Cascade[s][f] |-> <<s - 1, f - 1, r - 1>>]])

LEMMA KeysOfStage ==
  ASSUME NEW s \in 1 .. Len(Cascade)
  PROVE  /\ StageKeys(s) \in Seq(Nat \X Nat \X Nat)
         /\ Len(StageKeys(s)) = SumTo(Cascade[s], Len(Cascade[s]))
         /\ \A e \in 1 .. Len(StageKeys(s)) :
              \E f \in 1 .. Len(Cascade[s]) : \E r \in 1 .. Cascade[s][f] :
                e = SumTo(Cascade[s], f - 1) + r /\ StageKeys(s)[e] = <<s - 1, f - 1, r - 1>>
  <1> DEFINE T == Nat \X Nat \X Nat
             C == Cascade[s]
             feature(f) == [r \in 1 .. C[f] |-> <<s - 1, f - 1, r - 1>>]
             seqs == [f \in 1 .. Len(C) |-> feature(f)]
  <1>1. /\ s - 1 \in Nat /\ C \in Seq(Nat) /\ Len(C) \in Nat
        /\ \A f \in 1 .. Len(C) : C[f] \in Nat
    BY CascadeStages
  <1>2. StageKeys(s) = FlattenSeq(seqs)
    BY DEF StageKeys
  <1> HIDE DEF C
  <1>3. ASSUME NEW f \in 1 .. Len(C)
        PROVE  feature(f) \in Seq(T) /\ Len(feature(f)) = C[f]
    <2>1. \A r \in 1 .. C[f] : <<s - 1, f - 1, r - 1>> \in T
      BY <1>1
    <2>2. C[f] \in Nat
      BY <1>1
    <2> HIDE DEF T, C
    <2>3. feature(f) \in [1 .. C[f] -> T]
      BY <2>1
    <2> HIDE DEF feature
    <2> QED
      BY <2>2, <2>3
  <1> HIDE DEF feature
  <1>4. seqs \in Seq(Seq(T)) /\ Len(seqs) = Len(C) /\ \A f \in 1 .. Len(C) : seqs[f] = feature(f)
    <2> DEFINE U == Seq(T)
    <2>1. \A f \in 1 .. Len(C) : feature(f) \in U
      BY <1>3
    <2> HIDE DEF U
    <2>2. seqs \in Seq(U) /\ Len(seqs) = Len(C)
      BY <1>1, <2>1
    <2> QED
      BY <2>2 DEF U
  <1> HIDE DEF seqs, T
  <1>5. Lens(seqs) = C
    <2>1. C = [f \in 1 .. Len(C) |-> C[f]]
      BY <1>1
    <2>2. Lens(seqs) = [f \in 1 .. Len(C) |-> Len(seqs[f])]
      BY <1>4 DEF Lens
    <2>3. \A f \in 1 .. Len(C) : Len(seqs[f]) = C[f]
      BY <1>3, <1>4
    <2> QED
      BY <2>1, <2>2, <2>3
  <1>6. Joins(seqs, T, Len(C), StageKeys(s))
    BY <1>2, <1>4, FlattenedToo
  <1>7. StageKeys(s) \in Seq(T) /\ Len(StageKeys(s)) = SumTo(C, Len(C))
    BY <1>5, <1>6 DEF Joins
  <1>8. ASSUME NEW e \in 1 .. Len(StageKeys(s))
        PROVE  \E f \in 1 .. Len(C) : \E r \in 1 .. C[f] :
                 e = SumTo(C, f - 1) + r /\ StageKeys(s)[e] = <<s - 1, f - 1, r - 1>>
    <2>1. PICK f \in 1 .. Len(C) : \E r \in 1 .. Len(seqs[f]) : e = SumTo(C, f - 1) + r
      BY <1>5, <1>6 DEF Joins
    <2>2. PICK r \in 1 .. Len(seqs[f]) : e = SumTo(C, f - 1) + r
      BY <2>1
    <2>3. StageKeys(s)[SumTo(C, f - 1) + r] = seqs[f][r]
      BY <1>5, <1>6 DEF Joins
    <2>4. r \in 1 .. C[f]
      BY <1>3, <1>4
    <2>5. seqs[f][r] = <<s - 1, f - 1, r - 1>>
      BY <1>4, <2>4 DEF feature
    <2> QED
      BY <2>2, <2>3, <2>4, <2>5
  <1> QED
    BY <1>7, <1>8 DEF C, T

LEMMA KeysOfRectangles ==
  /\ Len(RectKeys) = SumTo(Totals(Cascade), Len(Cascade))
  /\ \A p \in 1 .. Len(RectKeys) :
       \E s \in 1 .. Len(Cascade) : \E f \in 1 .. Len(Cascade[s]) : \E r \in 1 .. Cascade[s][f] :
         /\ p = SumTo(Totals(Cascade), s - 1) + (SumTo(Cascade[s], f - 1) + r)
         /\ RectKeys[p] = <<s - 1, f - 1, r - 1>>
  <1> DEFINE T == Nat \X Nat \X Nat
             L == Len(Cascade)
             seqs == [s \in 1 .. L |-> StageKeys(s)]
  <1>1. L \in Nat
    BY CascadeStages
  <1>2. RectKeys = FlattenSeq(seqs)
    BY DEF RectKeys, StageKeys
  <1>3. \A s \in 1 .. L : seqs[s] = StageKeys(s)
    OBVIOUS
  <1>4. seqs \in Seq(Seq(T)) /\ Len(seqs) = L
    <2> DEFINE U == Seq(T)
    <2>1. \A s \in 1 .. L : StageKeys(s) \in U
      BY KeysOfStage
    <2> HIDE DEF U
    <2>2. seqs \in Seq(U) /\ Len(seqs) = L
      BY <1>1, <2>1
    <2> QED
      BY <2>2 DEF U
  <1> HIDE DEF seqs, T
  <1>5. Lens(seqs) = Totals(Cascade)
    <2>1. \A s \in 1 .. L : Len(seqs[s]) = SumTo(Cascade[s], Len(Cascade[s]))
      BY <1>3, KeysOfStage
    <2> QED
      BY <1>4, <2>1 DEF Lens, Totals
  <1>6. Joins(seqs, T, L, RectKeys)
    BY <1>2, <1>4, FlattenedToo
  <1>7. Len(RectKeys) = SumTo(Totals(Cascade), L)
    BY <1>5, <1>6 DEF Joins
  <1>8. ASSUME NEW p \in 1 .. Len(RectKeys)
        PROVE  \E s \in 1 .. L : \E f \in 1 .. Len(Cascade[s]) : \E r \in 1 .. Cascade[s][f] :
                 /\ p = SumTo(Totals(Cascade), s - 1) + (SumTo(Cascade[s], f - 1) + r)
                 /\ RectKeys[p] = <<s - 1, f - 1, r - 1>>
    <2>1. PICK s \in 1 .. L : \E e \in 1 .. Len(seqs[s]) : p = SumTo(Totals(Cascade), s - 1) + e
      BY <1>5, <1>6 DEF Joins
    <2>2. PICK e \in 1 .. Len(seqs[s]) : p = SumTo(Totals(Cascade), s - 1) + e
      BY <2>1
    <2>3. RectKeys[SumTo(Totals(Cascade), s - 1) + e] = seqs[s][e]
      BY <1>5, <1>6 DEF Joins
    <2>4. PICK f \in 1 .. Len(Cascade[s]) : \E r \in 1 .. Cascade[s][f] :
            e = SumTo(Cascade[s], f - 1) + r /\ StageKeys(s)[e] = <<s - 1, f - 1, r - 1>>
      <3>1. e \in 1 .. Len(StageKeys(s))
        BY <1>3
      <3>2. \A d \in 1 .. Len(StageKeys(s)) :
              \E f \in 1 .. Len(Cascade[s]) : \E r \in 1 .. Cascade[s][f] :
                d = SumTo(Cascade[s], f - 1) + r /\ StageKeys(s)[d] = <<s - 1, f - 1, r - 1>>
        BY KeysOfStage
      <3> QED
        BY <3>1, <3>2, Zenon
    <2>5. PICK r \in 1 .. Cascade[s][f] :
            e = SumTo(Cascade[s], f - 1) + r /\ StageKeys(s)[e] = <<s - 1, f - 1, r - 1>>
      BY <2>4
    <2>6. p = SumTo(Totals(Cascade), s - 1) + (SumTo(Cascade[s], f - 1) + r)
      BY <2>2, <2>5
    <2>7. RectKeys[p] = <<s - 1, f - 1, r - 1>>
      BY <1>3, <2>2, <2>3, <2>5
    <2> QED
      BY <2>6, <2>7
  <1> QED
    BY <1>7, <1>8

(* What TablesAgree says, of the values that are printed.                  *)
LEMMA ArraysFit ==
  /\ Len(FeatureCounts) = Len(StageData)
  /\ Len(RectCounts) = Len(FeatureKeys)
  /\ Len(FeatureKeys) = SumTo(FeatureCounts, Len(FeatureCounts))
  /\ Len(RectKeys) = SumTo(RectCounts, Len(RectCounts))
  /\ \A p \in 1 .. Len(FeatureKeys) :
       LET s == FeatureKeys[p][1]
           f == FeatureKeys[p][2]
       IN  p = SumTo(FeatureCounts, s) + f + 1
  /\ \A p \in 1 .. Len(RectKeys) :
       \E q \in 1 .. Len(FeatureKeys) :
         LET key == RectKeys[p]
         IN  /\ FeatureKeys[q] = <<key[1], key[2]>>
             /\ p = SumTo(RectCounts, q - 1) + key[3] + 1
  <1> DEFINE L == Len(Cascade)
             off(s) == SumTo(FeatureCounts, s)
             tot(s) == SumTo(Totals(Cascade), s)
  <1>1. L \in Nat \ {0} /\ \A s \in 1 .. L : Len(Cascade[s]) \in Nat
    BY CascadeStages
  <1>2. /\ \A s \in 0 .. L : off(s) \in Nat /\ tot(s) \in Nat
        /\ \A s \in 0 .. L - 1 : off(s + 1) = off(s) + Len(Cascade[s + 1])
    BY CascadeStages, LensAreNats, TotalsAreNats
  <1>3. Len(FeatureCounts) = L /\ Len(StageData) = L
    BY <1>1 DEF FeatureCounts, StageData
  <1>4. Len(RectCounts) = off(L) /\ Len(FeatureKeys) = off(L)
    BY CountsOfRectangles, KeysOfFeatures
  <1>5. \A s \in 1 .. L : \A e \in 0 .. Len(Cascade[s]) :
          SumTo(RectCounts, off(s - 1) + e) = tot(s - 1) + SumTo(Cascade[s], e)
    BY CountsOfRectangles
  <1>6. Len(RectKeys) = tot(L)
    BY KeysOfRectangles
  <1>7. SumTo(RectCounts, off(L)) = tot(L)
    <2>1. /\ L \in 1 .. L /\ L - 1 \in 0 .. L - 1 /\ (L - 1) + 1 = L
          /\ Len(Cascade[L]) \in 0 .. Len(Cascade[L])
      BY <1>1
    <2>2. off(L) = off(L - 1) + Len(Cascade[L])
      BY <1>2, <2>1
    <2>3. tot(L) = tot(L - 1) + SumTo(Cascade[L], Len(Cascade[L]))
      BY <2>1, CascadeStages, TotalsAreNats
    <2> HIDE DEF L, off, tot
    <2> QED
      BY <1>5, <2>1, <2>2, <2>3
  <1>8. ASSUME NEW p \in 1 .. Len(FeatureKeys)
        PROVE  p = SumTo(FeatureCounts, FeatureKeys[p][1]) + FeatureKeys[p][2] + 1
    <2>1. PICK s \in 1 .. L : \E f \in 1 .. Len(Cascade[s]) : p = off(s - 1) + f
      BY KeysOfFeatures
    <2>2. PICK f \in 1 .. Len(Cascade[s]) : p = off(s - 1) + f
      BY <2>1
    <2>3. FeatureKeys[off(s - 1) + f] = <<s - 1, f - 1>>
      BY KeysOfFeatures
    <2>4. FeatureKeys[p][1] = s - 1 /\ FeatureKeys[p][2] = f - 1
      BY <2>2, <2>3
    <2>5. off(s - 1) \in Nat
      BY <1>1, <1>2
    <2>6. f \in Int
      OBVIOUS
    <2> HIDE DEF off
    <2>7. p = off(s - 1) + (f - 1) + 1
      BY <2>2, <2>5, <2>6
    <2> QED
      BY <2>4, <2>7 DEF off
  <1>9. ASSUME NEW p \in 1 .. Len(RectKeys)
        PROVE  \E q \in 1 .. Len(FeatureKeys) :
                 /\ FeatureKeys[q] = <<RectKeys[p][1], RectKeys[p][2]>>
                 /\ p = SumTo(RectCounts, q - 1) + RectKeys[p][3] + 1
    <2>1. PICK s \in 1 .. L : \E f \in 1 .. Len(Cascade[s]) : \E r \in 1 .. Cascade[s][f] :
            /\ p = tot(s - 1) + (SumTo(Cascade[s], f - 1) + r)
            /\ RectKeys[p] = <<s - 1, f - 1, r - 1>>
      BY KeysOfRectangles
    <2>2. PICK f \in 1 .. Len(Cascade[s]) : \E r \in 1 .. Cascade[s][f] :
            /\ p = tot(s - 1) + (SumTo(Cascade[s], f - 1) + r)
            /\ RectKeys[p] = <<s - 1, f - 1, r - 1>>
      BY <2>1
    <2>3. PICK r \in 1 .. Cascade[s][f] :
            /\ p = tot(s - 1) + (SumTo(Cascade[s], f - 1) + r)
            /\ RectKeys[p] = <<s - 1, f - 1, r - 1>>
      BY <2>2
    <2> DEFINE q == off(s - 1) + f
               below == SumTo(Cascade[s], f - 1)
    <2>4. q \in 1 .. Len(FeatureKeys) /\ FeatureKeys[q] = <<s - 1, f - 1>>
      BY KeysOfFeatures
    <2>5. /\ s - 1 \in 0 .. L /\ f \in Int /\ r \in Int
          /\ f - 1 \in 0 .. Len(Cascade[s])
      BY <1>1
    <2>6. off(s - 1) \in Nat /\ tot(s - 1) \in Nat
      BY <1>2, <2>5
    <2>7. below \in Nat
      BY <2>5, CascadeStages, SumToSteps
    <2> HIDE DEF off, tot, below
    <2>8. q - 1 = off(s - 1) + (f - 1)
      BY <2>5, <2>6
    <2>9. SumTo(RectCounts, off(s - 1) + (f - 1)) = tot(s - 1) + below
      BY <1>5, <2>5 DEF below
    <2>10. p = (tot(s - 1) + below) + (r - 1) + 1
      BY <2>3, <2>5, <2>6, <2>7 DEF below
    <2>11. RectKeys[p][1] = s - 1 /\ RectKeys[p][2] = f - 1 /\ RectKeys[p][3] = r - 1
      BY <2>3
    <2> HIDE DEF q
    <2> QED
      BY <2>4, <2>8, <2>9, <2>10, <2>11
  <1> QED
    BY <1>3, <1>4, <1>6, <1>7, <1>8, <1>9

(***************************************************************************)
(* The header, whatever calls came before.  A process appends to its lists *)
(* once, so what the call prints of them is one parse.                     *)
(***************************************************************************)
OneParse ==
  /\ called \in BOOLEAN
  /\ ~called => feature_nums = <<>> /\ rectangle_nums = <<>>

ArraysPrinted ==
  /\ DOMAIN header = Arrays
  /\ header["FEAT_DATA"] # NotPrinted => header["FEAT_DATA"] = FeatureKeys
  /\ header["RECT_DATA"] # NotPrinted => header["RECT_DATA"] = RectKeys
  /\ header["FEAT_NUMS"] # NotPrinted => header["FEAT_NUMS"] = FeatureCounts
  /\ header["RECT_NUMS"] # NotPrinted => header["RECT_NUMS"] = RectCounts

LEMMA OnePass ==
  ASSUME haar_parser(1), feature_nums = <<>>, rectangle_nums = <<>>
  PROVE  feature_nums' = FeatureCounts /\ rectangle_nums' = RectCounts
  <1>1. FeatureCounts \in Seq(Nat)
    BY CascadeStages DEF FeatureCounts
  <1>2. RectCounts \in Seq(Nat)
    BY CascadeStages, FlattenedToo DEF RectCounts, Joins
  <1>3. ASSUME NEW s \in Seq(Nat)
        PROVE  <<>> \o FlattenSeq([p \in 1 .. 1 |-> s]) = s
    <2> DEFINE seqs == [p \in 1 .. 1 |-> s]
    <2>1. seqs \in Seq(Seq(Nat)) /\ Len(seqs) = 1 /\ seqs[1] = s
      <3> DEFINE U == Seq(Nat)
      <3>1. s \in U
        OBVIOUS
      <3> HIDE DEF U
      <3>2. seqs \in Seq(U) /\ Len(seqs) = 1 /\ seqs[1] = s
        BY <3>1
      <3> QED
        BY <3>2 DEF U
    <2>2. FlattenSeq(seqs) = s
      <3> HIDE DEF seqs
      <3> QED
        BY <2>1, Flattened
    <2>3. <<>> \o s = s
      OBVIOUS
    <2> QED
      BY <2>2, <2>3
  <1> QED
    BY <1>1, <1>2, <1>3 DEF haar_parser

LEMMA ListsKept ==
  ASSUME OneParse, [GenNext]_genVars
  PROVE  OneParse'
  <1>1. CASE Call
    BY <1>1 DEF Call, OneParse
  <1>2. CASE NewProcess
    BY <1>2 DEF NewProcess, OneParse
  <1>3. CASE UNCHANGED genVars
    BY <1>3 DEF genVars, OneParse
  <1> QED
    BY <1>1, <1>2, <1>3
       DEF GenNext, GenStage, GenFeature, GenRectangle, GenNumbers, GenRaises, GenOther

LEMMA ArraysKept ==
  ASSUME OneParse, ArraysPrinted, [GenNext]_genVars
  PROVE  ArraysPrinted'
  <1>1. /\ FeatureKeys' = FeatureKeys /\ RectKeys' = RectKeys
        /\ FeatureCounts' = FeatureCounts /\ RectCounts' = RectCounts
    BY DEF FeatureKeys, RectKeys, FeatureCounts, RectCounts
  <1>2. DOMAIN header = Arrays
    BY DEF ArraysPrinted
  <1>3. CASE GenStage
    <2>1. header' = [header EXCEPT !["STAGE_DATA"] = StageData]
      BY <1>3 DEF GenStage
    <2>2. DOMAIN header' = Arrays /\ \A a \in Arrays \ {"STAGE_DATA"} : header'[a] = header[a]
      BY <1>2, <2>1
    <2> QED
      BY <1>1, <2>2 DEF ArraysPrinted, Arrays
  <1>4. CASE GenFeature
    <2>1. header' = [header EXCEPT !["FEAT_DATA"] = FeatureKeys]
      BY <1>4 DEF GenFeature
    <2>2. /\ DOMAIN header' = Arrays /\ \A a \in Arrays \ {"FEAT_DATA"} : header'[a] = header[a]
          /\ header'["FEAT_DATA"] = FeatureKeys
      BY <1>2, <2>1 DEF Arrays
    <2> QED
      BY <1>1, <2>2 DEF ArraysPrinted, Arrays
  <1>5. CASE GenRectangle
    <2>1. header' = [header EXCEPT !["RECT_DATA"] = RectKeys]
      BY <1>5 DEF GenRectangle
    <2>2. /\ DOMAIN header' = Arrays /\ \A a \in Arrays \ {"RECT_DATA"} : header'[a] = header[a]
          /\ header'["RECT_DATA"] = RectKeys
      BY <1>2, <2>1 DEF Arrays
    <2> QED
      BY <1>1, <2>2 DEF ArraysPrinted, Arrays
  <1>6. CASE GenNumbers
    <2>1. feature_nums' = FeatureCounts /\ rectangle_nums' = RectCounts
      BY <1>6, OnePass DEF GenNumbers, Call, OneParse
    <2>2. header' = [header EXCEPT !["FEAT_NUMS"] = FeatureCounts, !["RECT_NUMS"] = RectCounts]
      BY <1>6, <2>1 DEF GenNumbers
    <2>3. /\ DOMAIN header' = Arrays
          /\ \A a \in Arrays \ {"FEAT_NUMS", "RECT_NUMS"} : header'[a] = header[a]
          /\ header'["FEAT_NUMS"] = FeatureCounts /\ header'["RECT_NUMS"] = RectCounts
      BY <1>2, <2>2 DEF Arrays
    <2> QED
      BY <1>1, <2>3 DEF ArraysPrinted, Arrays
  <1>7. CASE GenRaises \/ GenOther \/ NewProcess \/ UNCHANGED genVars
    <2>1. header' = header
      BY <1>7 DEF GenRaises, GenOther, NewProcess, genVars
    <2> QED
      BY <1>1, <2>1 DEF ArraysPrinted
  <1> QED
    BY <1>3, <1>4, <1>5, <1>6, <1>7 DEF GenNext

GenInv == ThresholdsPrinted /\ OneParse /\ ArraysPrinted

LEMMA GenInvHolds == GenSpec => []GenInv
  <1>1. GenInit => GenInv
    BY DEF GenInit, GenInv, ThresholdsPrinted, OneParse, ArraysPrinted, Arrays
  <1>2. GenInv /\ [GenNext]_genVars => GenInv'
    BY ThresholdsKept, ListsKept, ArraysKept DEF GenInv
  <1> QED
    BY <1>1, <1>2, PTL DEF GenSpec

Complete == \A a \in Arrays : header[a] # NotPrinted

LEMMA CompleteHeader ==
  ASSUME GenInv, Complete
  PROVE  /\ header["STAGE_DATA"] = StageData
         /\ header["FEAT_DATA"] = FeatureKeys /\ header["RECT_DATA"] = RectKeys
         /\ header["FEAT_NUMS"] = FeatureCounts /\ header["RECT_NUMS"] = RectCounts
  BY DEF GenInv, Complete, ThresholdsPrinted, ArraysPrinted, Arrays

(* Every behaviour: which thresholds of the header main.c compiles are the *)
(* numbers of the cascade file, up to rounding, is decided by how each is  *)
(* written there, whatever order, number and failures the calls have had,  *)
(* for exponents of up to 308 digits, overflow and underflow included.     *)
THEOREM ThresholdsRightIffConvertible == GenSpec => []RightIffConvertible
  <1>1. GenInv => RightIffConvertible
    <2> SUFFICES ASSUME ThresholdsPrinted, header["STAGE_DATA"] # NotPrinted,
                        NEW s \in 1 .. Len(Cascade)
                 PROVE  header["STAGE_DATA"][s] = Meaning(thresholds[s])
                          <=> Convertible(thresholds[s])
      BY DEF RightIffConvertible, GenInv
    <2>1. thresholds[s] \in Numbers
      BY FileNumbers DEF ThresholdsPrinted
    <2>2. header["STAGE_DATA"][s] = Printed(Converted(thresholds[s]))
      BY DEF ThresholdsPrinted, StageData
    <2> QED
      BY <2>1, <2>2, ConversionIsRight
  <1> QED
    BY <1>1, GenInvHolds, PTL

(* Every behaviour: the arrays of a complete header, each printed by a     *)
(* process of its own, fit together as main.c's counts need them to, for   *)
(* any cascade and any order of the calls, a stage without features or a   *)
(* feature without rectangles included.                                    *)
THEOREM GeneratedTablesAgree == GenSpec => []TablesAgree
  <1>1. GenInv => TablesAgree
    <2> SUFFICES ASSUME GenInv, Complete
                 PROVE  TablesAgree
      BY DEF TablesAgree, Complete
    <2> QED
      BY CompleteHeader, ArraysFit DEF TablesAgree
  <1> QED
    BY <1>1, GenInvHolds, PTL

(***************************************************************************)
(* What main.c needs of the tables (TableAssumption): its loops, which     *)
(* start every stage at feature 0 and every feature at rectangle 0, stay   *)
(* inside the arrays of the header.                                        *)
(***************************************************************************)
LoopsInRange ==
  Complete =>
    /\ Len(header["STAGE_DATA"]) = Len(header["FEAT_NUMS"])
    /\ \A s \in 1 .. Len(header["FEAT_NUMS"]) :
         /\ header["FEAT_NUMS"][s] \in Nat
         /\ \A f \in 1 .. header["FEAT_NUMS"][s] :
              /\ f \in 1 .. Len(header["FEAT_DATA"]) /\ f \in 1 .. Len(header["RECT_NUMS"])
              /\ header["RECT_NUMS"][f] \in Nat
              /\ header["RECT_NUMS"][f] <= Len(header["RECT_DATA"])

LEMMA EntryBelowSum ==
  ASSUME NEW s \in Seq(Nat), NEW e \in 1 .. Len(s)
  PROVE  s[e] \in Nat /\ s[e] <= SumTo(s, Len(s))
  <1> DEFINE f == [d \in 0 .. Len(s) - 1 |-> s[d + 1]]
  <1>1. Len(s) \in Nat /\ \A d \in 1 .. Len(s) : s[d] \in Nat
    OBVIOUS
  <1>2. \A d \in 0 .. Len(s) - 1 : f[d] = s[d + 1] /\ f[d] \in Nat
    BY <1>1
  <1>3. SumTo(s, Len(s)) = SumBelow(f, Len(s))
    BY DEF SumTo
  <1> HIDE DEF f
  <1>4. \A d \in 0 .. Len(s) - 1 : f[d] <= SumBelow(f, Len(s))
    BY <1>1, <1>2, SumIsNat
  <1>5. e - 1 \in 0 .. Len(s) - 1 /\ (e - 1) + 1 = e
    BY <1>1
  <1>6. f[e - 1] = s[e] /\ f[e - 1] <= SumBelow(f, Len(s))
    BY <1>2, <1>4, <1>5
  <1> QED
    BY <1>1, <1>3, <1>6

(* Every behaviour of the generator leaves a header that TableAssumption's *)
(* index conditions hold of, so what is proved of main.c's loop under that *)
(* assumption is about headers that the repository's generator prints.     *)
THEOREM GeneratedLoopsInRange == GenSpec => []LoopsInRange
  <1>1. GenInv => LoopsInRange
    <2> SUFFICES ASSUME GenInv, Complete
                 PROVE  LoopsInRange
      BY DEF LoopsInRange
    <2>1. FeatureCounts \in Seq(Nat)
      BY CascadeStages, LensAreNats
    <2>2. RectCounts \in Seq(Nat) /\ Len(RectCounts) \in Nat
      <3>1. RectCounts \in Seq(Nat)
        BY CascadeStages, FlattenedToo DEF RectCounts, Joins
      <3> QED
        BY <3>1
    <2>3. ASSUME NEW s \in 1 .. Len(FeatureCounts)
          PROVE  /\ FeatureCounts[s] \in Nat
                 /\ \A f \in 1 .. FeatureCounts[s] :
                      /\ f \in 1 .. Len(FeatureKeys) /\ f \in 1 .. Len(RectCounts)
                      /\ RectCounts[f] \in Nat /\ RectCounts[f] <= Len(RectKeys)
      <3>1. FeatureCounts[s] \in Nat /\ FeatureCounts[s] <= Len(FeatureKeys)
        BY <2>1, EntryBelowSum, ArraysFit
      <3>2. Len(FeatureKeys) = Len(RectCounts)
        BY ArraysFit
      <3>3. \A f \in 1 .. FeatureCounts[s] : f \in 1 .. Len(RectCounts)
        BY <2>2, <3>1, <3>2
      <3>4. \A f \in 1 .. Len(RectCounts) : RectCounts[f] \in Nat /\ RectCounts[f] <= Len(RectKeys)
        BY <2>2, EntryBelowSum, ArraysFit
      <3> QED
        BY <3>1, <3>2, <3>3, <3>4
    <2>4. Len(StageData) = Len(FeatureCounts)
      BY ArraysFit
    <2> QED
      BY <2>3, <2>4, CompleteHeader DEF LoopsInRange
  <1> QED
    BY <1>1, GenInvHolds, PTL
=============================================================================
