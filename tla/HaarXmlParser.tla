--------------------------- MODULE HaarXmlParser ---------------------------
(***************************************************************************)
(* HaarXmlParser.py: each process calls C_Code_Gen once, which prints one  *)
(* array (or pair of arrays) of HAAR_Constants.h.  A call parses the whole *)
(* file, up to four times, appends the counts it finds to two lists of the *)
(* module, and converts every number it meets; one it cannot convert ends  *)
(* the process before anything is printed.  Of the numbers the model keeps *)
(* the stage thresholds; the others take the same way.                     *)
(***************************************************************************)
EXTENDS SciNotation, SequencesExt, Sums

CONSTANTS
  Cascade,           \* per stage, per feature, the number of rectangles
  Files,             \* the stage thresholds a file may hold
  MaxCalls           \* bound on the calls of a behaviour

ASSUME CascadeAssumption ==
  /\ Cascade \in Seq(Seq(Nat)) /\ Cascade # <<>>
  /\ \A file \in Files : file \in Seq(Numbers) /\ Len(file) = Len(Cascade)
  /\ MaxCalls \in Nat

VARIABLES
  thresholds,                    \* the file
  feature_nums, rectangle_nums,  \* the lists of the process
  called, calls,                 \* this process's call, calls in all
  header                         \* the last printed value of each array

genVars == <<thresholds, feature_nums, rectangle_nums, called, calls, header>>

Arrays == {"STAGE_DATA", "FEAT_DATA", "RECT_DATA", "FEAT_NUMS", "RECT_NUMS"}
NotPrinted == <<"not printed">>

(***************************************************************************)
(* haar_parser.  Its dictionaries keep the order of insertion, so each is  *)
(* the sequence of its keys, numbered from 0.                              *)
(***************************************************************************)
StageData == [s \in 1 .. Len(Cascade) |-> Printed(Converted(thresholds[s]))]

FeatureKeys ==
  FlattenSeq([s \in 1 .. Len(Cascade) |->
    [f \in 1 .. Len(Cascade[s]) |-> <<s - 1, f - 1>>]])

RectKeys ==
  FlattenSeq([s \in 1 .. Len(Cascade) |->
    FlattenSeq([f \in 1 .. Len(Cascade[s]) |->
      [r \in 1 .. Cascade[s][f] |-> <<s - 1, f - 1, r - 1>>]])])

FeatureCountsKept == [s \in 1 .. Len(Cascade) |-> Len(FlattenSeq(SubSeq(Cascade, 1, s)))]

FeatureCounts == [s \in 1 .. Len(Cascade) |-> Len(Cascade[s])]
RectCounts    == FlattenSeq(Cascade)

Rejected == {s \in 1 .. Len(Cascade) : Converted(thresholds[s]) = Exception}

(* What one parse appends before stage s.                                  *)
CountStages(s) ==
  /\ feature_nums' = feature_nums \o SubSeq(FeatureCounts, 1, s - 1)
  /\ rectangle_nums' = rectangle_nums \o FlattenSeq(SubSeq(Cascade, 1, s - 1))

haar_parser(passes) ==
  /\ Rejected = {}
  /\ feature_nums' = feature_nums \o FlattenSeq([p \in 1 .. passes |-> FeatureCounts])
  /\ rectangle_nums' = rectangle_nums \o FlattenSeq([p \in 1 .. passes |-> RectCounts])

(***************************************************************************)
(* C_Code_Gen, one action per parameter.                                   *)
(***************************************************************************)
Call ==
  /\ ~called /\ calls < MaxCalls
  /\ called' = TRUE
  /\ calls' = calls + 1
  /\ UNCHANGED thresholds

GenStage ==
  /\ Call /\ haar_parser(1)
  /\ header' = [header EXCEPT !["STAGE_DATA"] = StageData]

GenFeature ==
  /\ Call /\ haar_parser(3)
  /\ header' = [header EXCEPT !["FEAT_DATA"] = FeatureKeys]

GenRectangle ==
  /\ Call /\ haar_parser(4)
  /\ header' = [header EXCEPT !["RECT_DATA"] = RectKeys]

GenNumbers ==
  /\ Call /\ haar_parser(1)
  /\ header' = [header EXCEPT !["FEAT_NUMS"] = feature_nums', !["RECT_NUMS"] = rectangle_nums']

(* Any of the four on a file with a number that raises.                    *)
GenRaises ==
  /\ Call /\ Rejected # {}
  /\ CountStages(Min(Rejected))
  /\ UNCHANGED header

GenOther == Call /\ UNCHANGED <<feature_nums, rectangle_nums, header>>

NewProcess ==
  /\ called
  /\ called' = FALSE
  /\ feature_nums' = <<>> /\ rectangle_nums' = <<>>
  /\ UNCHANGED <<thresholds, calls, header>>

GenInit ==
  /\ thresholds \in Files
  /\ feature_nums = <<>> /\ rectangle_nums = <<>>
  /\ called = FALSE /\ calls = 0
  /\ header = [a \in Arrays |-> NotPrinted]

GenNext == GenStage \/ GenFeature \/ GenRectangle \/ GenNumbers \/ GenRaises \/ GenOther \/ NewProcess

GenSpec == GenInit /\ [][GenNext]_genVars

(* The arrays of a finished header fit together: the counts lead from a    *)
(* stage to its features and from a feature to its rectangles, so that     *)
(* entry FEAT_NUMS[0] + ... + FEAT_NUMS[s-1] + f of FEAT_DATA is feature f *)
(* of stage s, likewise for the rectangles, and no entry is left over.     *)
TablesAgree ==
  (\A a \in Arrays : header[a] # NotPrinted) =>
    /\ Len(header["FEAT_NUMS"]) = Len(header["STAGE_DATA"])
    /\ Len(header["RECT_NUMS"]) = Len(header["FEAT_DATA"])
    /\ Len(header["FEAT_DATA"]) = SumTo(header["FEAT_NUMS"], Len(header["FEAT_NUMS"]))
    /\ Len(header["RECT_DATA"]) = SumTo(header["RECT_NUMS"], Len(header["RECT_NUMS"]))
    /\ \A p \in 1 .. Len(header["FEAT_DATA"]) :
         LET s == header["FEAT_DATA"][p][1]
             f == header["FEAT_DATA"][p][2]
         IN  p = SumTo(header["FEAT_NUMS"], s) + f + 1
    /\ \A p \in 1 .. Len(header["RECT_DATA"]) :
         \E q \in 1 .. Len(header["FEAT_DATA"]) :
           LET key == header["RECT_DATA"][p]
           IN  /\ header["FEAT_DATA"][q] = <<key[1], key[2]>>
               /\ p = SumTo(header["RECT_NUMS"], q - 1) + key[3] + 1

(* A printed threshold is the number of the file, up to rounding, exactly  *)
(* if that is Convertible: the conversion cuts the mantissa at the wrong   *)
(* place for negative numbers and for exponents that are not negative, and *)
(* twenty decimals print a small number as 0.                              *)
RightIffConvertible ==
  header["STAGE_DATA"] # NotPrinted =>
    \A s \in 1 .. Len(Cascade) :
      header["STAGE_DATA"][s] = Meaning(thresholds[s]) <=> Convertible(thresholds[s])
============================================================================
