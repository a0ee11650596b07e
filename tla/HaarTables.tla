----------------------------- MODULE HaarTables -----------------------------
(***************************************************************************)
(* HAAR_Constants.h as far as main.c can read it: all 22 stages, but, as   *)
(* feat_count and rect_count stay 0, only the first MAX(FEAT_NUMS) = 213   *)
(* of 2135 features and the first MAX(RECT_NUMS) = 3 of 4630 rectangles.   *)
(* Scores and stage thresholds are rounded down to 1/10000.  A feature     *)
(* threshold is compared with an integer sum, so only its floor counts: it *)
(* is 0, or -1 where the header's number is negative.                      *)
(***************************************************************************)
EXTENDS HaarSoftware, Sequences

HeaderStageData ==
  LET T == <<
    8226, 69566, 94985, 184129, 153241, 210106, 239187, 245278, 271533, 345541, 391072, 506104,
    546200, 501697, 666691, 676989, 692298, 792490, 876960, 902533, 1047491, 1057611>>
  IN  [s \in 0 .. Len(T) - 1 |-> T[s + 1]]

HeaderFeatNums ==
  LET T == <<3, 16, 21, 39, 33, 44, 50, 51, 56, 71, 80, 103, 111, 102, 135, 137,
              140, 160, 177, 182, 211, 213>>
  IN  [s \in 0 .. Len(T) - 1 |-> T[s + 1]]

(* Left and right of the features 0 to 149. *)
FirstScores == <<
  <<337,8378>>, <<1514,7488>>, <<900,6374>>, <<693,7110>>, <<1795,6668>>, <<1693,6554>>,
  <<5866,914>>, <<1413,6031>>, <<3675,7920>>, <<6161,2088>>, <<2836,6360>>, <<2223,5800>>,
  <<2406,5787>>, <<5559,1362>>, <<8502,4717>>, <<5993,2834>>, <<4341,7060>>, <<3027,6051>>,
  <<1798,5675>>, <<6644,1424>>, <<6325,1288>>, <<1240,6193>>, <<1432,5670>>, <<1657,5905>>,
  <<2695,5738>>, <<1893,5782>>, <<2309,5695>>, <<2759,5956>>, <<1732,5522>>, <<1339,5559>>,
  <<3628,6188>>, <<912,5475>>, <<3715,5711>>, <<5953,3318>>, <<1844,5602>>, <<3594,6131>>,
  <<5994,3459>>, <<4172,6990>>, <<4509,7801>>, <<5438,1319>>, <<1415,6199>>, <<6191,1884>>,
  <<1487,5857>>, <<2746,6359>>, <<5870,2175>>, <<5880,2979>>, <<2373,5876>>, <<1220,5194>>,
  <<2631,5817>>, <<3638,5698>>, <<4303,7559>>, <<2122,5613>>, <<5631,2642>>, <<5797,2751>>,
  <<2705,5752>>, <<5435,2334>>, <<5319,2063>>, <<5418,3068>>, <<3695,6112>>, <<3565,6025>>,
  <<1913,5362>>, <<3835,5529>>, <<4312,7101>>, <<3984,6391>>, <<2366,5433>>, <<5817,3239>>,
  <<5540,2911>>, <<1775,5196>>, <<3024,5533>>, <<4414,6975>>, <<2791,5497>>, <<5263,2385>>,
  <<4319,6983>>, <<3082,5390>>, <<5521,3120>>, <<5401,1770>>, <<5178,1211>>, <<5290,3311>>,
  <<7471,4451>>, <<2064,6076>>, <<5851,1255>>, <<940,5728>>, <<1781,5694>>, <<1638,5788>>,
  <<2085,5508>>, <<5702,1857>>, <<5116,2189>>, <<7131,4043>>, <<2567,5463>>, <<1700,5590>>,
  <<5410,2619>>, <<3732,6535>>, <<2626,5537>>, <<2003,5544>>, <<5591,3031>>, <<2730,5646>>,
  <<1405,5461>>, <<1795,5459>>, <<5736,2809>>, <<2370,5503>>, <<5608,3304>>, <<1640,5378>>,
  <<5227,2288>>, <<7016,4252>>, <<2767,5355>>, <<4342,7442>>, <<5726,2582>>, <<2106,5361>>,
  <<7593,4552>>, <<1252,5344>>, <<3315,5601>>, <<5506,2768>>, <<1762,6156>>, <<6118,1832>>,
  <<990,5723>>, <<5579,2377>>, <<2231,5858>>, <<2653,5794>>, <<5803,2484>>, <<1830,5484>>,
  <<3363,6051>>, <<2286,5441>>, <<5625,2392>>, <<3906,5964>>, <<5248,1575>>, <<4194,6748>>,
  <<1882,5473>>, <<1339,5227>>, <<3762,6109>>, <<2663,5404>>, <<5363,2232>>, <<5358,2453>>,
  <<2409,5376>>, <<5425,3155>>, <<4158,6597>>, <<2811,5505>>, <<5260,1891>>, <<5673,3344>>,
  <<5343,2395>>, <<6010,4022>>, <<8199,4543>>, <<2200,5357>>, <<4413,7181>>, <<5478,2791>>,
  <<6357,3989>>, <<3493,5300>>, <<1119,5229>>, <<2387,5453>>, <<7586,4439>>, <<2565,5489>>>>

(* Left and right of the features 150 to 212. *)
LaterScores == <<
  <<6734,4252>>, <<5488,2292>>, <<6104,4022>>, <<5310,1536>>, <<1729,5241>>, <<6597,4325>>,
  <<6103,1469>>, <<2632,5896>>, <<5872,1760>>, <<1567,5596>>, <<1913,5732>>, <<2914,5623>>,
  <<1943,5648>>, <<3134,5504>>, <<2536,5760>>, <<5767,3659>>, <<2843,5918>>, <<4052,6183>>,
  <<5783,3135>>, <<5541,1916>>, <<4032,6644>>, <<3535,5709>>, <<3037,5610>>, <<7181,4580>>,
  <<5621,2953>>, <<4615,7619>>, <<5343,1772>>, <<1686,5340>>, <<3792,6026>>, <<1512,5324>>,
  <<2081,5319>>, <<4098,5210>>, <<5693,3478>>, <<5326,2257>>, <<1551,5200>>, <<5500,3820>>,
  <<4238,6639>>, <<2150,5382>>, <<6675,4215>>, <<2267,5386>>, <<4308,6855>>, <<5836,3467>>,
  <<7016,4311>>, <<2895,5224>>, <<2975,5481>>, <<4888,8182>>, <<1481,5239>>, <<4786,7378>>,
  <<7374,4470>>, <<3489,5537>>, <<2379,5315>>, <<1964,5138>>, <<5590,3365>>, <<634,5162>>,
  <<7323,4490>>, <<4114,5985>>, <<2663,6643>>, <<6143,2518>>, <<5766,2397>>, <<5682,2529>>,
  <<1640,5556>>, <<6123,4762>>, <<5707,2839>>>>

NegativeThreshold == {
  7, 12, 14, 18, 19, 22, 23, 25, 27, 28, 29, 31, 33, 34, 41, 45, 46, 47, 48, 52, 60, 61, 64, 66,
  67, 68, 70, 73, 74, 78, 79, 83, 84, 87, 88, 89, 92, 93, 96, 97, 98, 99, 101, 103, 104, 107, 108,
  109, 113, 114, 115, 116, 119, 121, 126, 127, 129, 135, 139, 140, 141, 144, 145, 146, 147, 148,
  149, 150, 152, 154, 155, 156, 160, 162, 164, 173, 177, 179, 180, 181, 182, 184, 185, 187, 188,
  189, 192, 193, 194, 196, 198, 199, 200, 201, 202, 203, 204, 207, 208, 209, 210, 211, 212}

HeaderFeatData ==
  LET Scores == FirstScores \o LaterScores
  IN  [f \in 0 .. Len(Scores) - 1 |->
         [threshold |-> IF f \in NegativeThreshold THEN -1 ELSE 0,
          left |-> Scores[f + 1][1], right |-> Scores[f + 1][2]]]

(* The features of three rectangles; the others have two. *)
ThreeRectangles == {
  15, 31, 32, 33, 34, 45, 49, 53, 58, 75, 92, 106, 109, 111, 118, 120, 124, 126, 131, 137, 147,
  168, 169, 182, 191, 199, 203, 207, 209, 211, 212}

HeaderRectNums == [f \in DOMAIN HeaderFeatData |-> IF f \in ThreeRectangles THEN 3 ELSE 2]

HeaderRectData ==
  LET T == <<<<14, 4, 3, 7>>, <<14, 2, 3, 9>>, <<18, 4, 1, 2>>>>
  IN  [r \in 0 .. Len(T) - 1 |-> [w |-> T[r + 1][1], h |-> T[r + 1][2], x |-> T[r + 1][3], y |-> T[r + 1][4]]]

(* The divisor of main.c.                                                  *)
Divisor == 10000000

(* The firmware as it is built.                                            *)
OnHeader ==
  /\ Stages = 22 /\ FEAT_NUMS = HeaderFeatNums /\ STAGE_DATA = HeaderStageData
  /\ RECT_NUMS = HeaderRectNums /\ FEAT_DATA = HeaderFeatData /\ RECT_DATA = HeaderRectData
  /\ Width = 20 /\ Scale = Divisor
  /\ \A img \in Images : img \in [0 .. 399 -> Nat]

(***************************************************************************)
(* On the tables of the header all 22 stages come down to one test: the    *)
(* verdict is "face" exactly if some cell of the table's first rectangle   *)
(* holds the divisor or more.  The blank image is never a face.  No stage  *)
(* is decided by less than the tables' rounding, a unit per feature        *)
(* scored.                                                                 *)
(***************************************************************************)
ScoredBefore(s) == SumBelow(FEAT_NUMS, s)

VerdictIsOneBlock ==
  /\ pc = "returned" =>
       (result <=> \E c \in RectCells(RECT_DATA[0]) : image[c] >= Scale)
  /\ (pc = "feature" /\ j = feat_upper_bound) =>
       LET margin == accumulator - STAGE_DATA[i]
           scored == ScoredBefore(i) + j
       IN  margin > 1 \/ margin < -(scored + 1)

(* Whatever the image, a stage after the first passes if it is reached:    *)
(* only the first one ever turns an image down.                            *)
OnlyFirstStageRejects == (pc = "returned" /\ ~result) => i = 0
=============================================================================
