------------------------ MODULE FaceDetection_proofs ------------------------
(***************************************************************************)
(* The capture path, and the composed design, for every geometry, address  *)
(* width, frame store and set of colours, and under both readings of the   *)
(* always blocks.  The invariant of the capture path carries over to the   *)
(* composition, which adds nothing to its steps; with it goes that BW is   *)
(* always the luminance of the colour the display reads.                   *)
(***************************************************************************)
EXTENDS FaceDetection, TLAPS

(***************************************************************************)
(* The capture path (FaceCapture).                                         *)
(***************************************************************************)

(* The part of the invariant that ties the address to the samples: DONE is *)
(* down, the address counts the samples taken, all of them on the grid,    *)
(* and VALID means that the scaler still drives the last of them.  Writing *)
(* a slot again is harmless, then: it is the one of that sample.           *)
AddressInv ==
  /\ ~Scaler_DONE
  /\ ADDR = Len(samples)
  /\ \A n \in 1 .. ADDR : /\ InWindow(samples[n].at[1])
                         /\ OnGrid(samples[n].at[1], samples[n].at[2])
  /\ VALID => ADDR >= 1 /\ BW_scaler = samples[ADDR].luminance

IInv == TypeOK /\ AddressInv /\ SlotsHoldSamples

LEMMA ModRange ==
  ASSUME NEW a \in Nat, NEW n \in Nat \ {0}
  PROVE  a % n \in 0 .. n - 1
  OBVIOUS

LEMMA InitInv == Init => IInv
  <1> SUFFICES ASSUME Init PROVE IInv
    OBVIOUS
  <1> USE GeometryAssumption, LuminanceAssumption DEF Init
  <1>1. TypeOK
    <2>1. X_Cont \in 0 .. Columns - 1 /\ Y_Cont \in 0 .. Rows - 1
      OBVIOUS
    <2>2. ADDR \in 0 .. Cells /\ BW \in Luminances /\ BW_scaler \in Luminances
      OBVIOUS
    <2>3. /\ VALID \in BOOLEAN /\ Scaler_DONE \in BOOLEAN
          /\ bwEvent \in BOOLEAN /\ outEvent \in BOOLEAN
      OBVIOUS
    <2>4. /\ integral_buffer \in [Slots -> Luminances]
          /\ samples \in Seq(Samples)
          /\ origin \in [Slots -> 0 .. Cells]
      OBVIOUS
    <2> QED
      BY <2>1, <2>2, <2>3, <2>4 DEF TypeOK
  <1>2. AddressInv
    BY DEF AddressInv
  <1>3. SlotsHoldSamples
    BY DEF SlotsHoldSamples, Slots
  <1> QED
    BY <1>1, <1>2, <1>3 DEF IInv

(* The surroundings touch neither the scaler nor the store.                *)
LEMMA SurroundingsInv ==
  ASSUME IInv, PixelClock \/ LuminanceChange
  PROVE  IInv'
  <1> USE GeometryAssumption, ReadingAssumption
  <1>1. UNCHANGED <<scaler, store>>
    BY DEF PixelClock, LuminanceChange
  <1>2. /\ AddressInv' /\ SlotsHoldSamples'
    BY <1>1 DEF IInv, AddressInv, SlotsHoldSamples, scaler, store
  <1>3. /\ X_Cont' \in 0 .. Columns - 1 /\ Y_Cont' \in 0 .. Rows - 1
    <2>1. CASE PixelClock
      <3>1. X_Cont + 1 \in Nat /\ Y_Cont + 1 \in Nat
        BY DEF IInv, TypeOK
      <3> QED
        BY <2>1, <3>1, ModRange DEF IInv, TypeOK, PixelClock
    <2>2. CASE LuminanceChange
      BY <2>2 DEF IInv, TypeOK, LuminanceChange, sensor
    <2> QED
      BY <2>1, <2>2
  <1>4. BW' \in Luminances /\ bwEvent' \in BOOLEAN /\ outEvent' \in BOOLEAN
    BY Zenon DEF IInv, TypeOK, PixelClock, LuminanceChange
  <1> QED
    BY <1>1, <1>2, <1>3, <1>4 DEF IInv, TypeOK, scaler, store

LEMMA ScaleInv ==
  ASSUME IInv, Scale
  PROVE  IInv'
  <1> USE GeometryAssumption, ReadingAssumption, LuminanceAssumption DEF IInv
  <1>1. UNCHANGED <<sensor, BW, store>> /\ (Sample \/ Skip \/ Crop \/ Full)
    BY DEF Scale
  <1>2. Scaler_DONE' = FALSE
    BY <1>1 DEF AddressInv, TypeOK, Sample, LatchPixel, Skip, Crop, Full, scaler
  <1>3. ASSUME Sample PROVE AddressInv' /\ SlotsHoldSamples' /\ samples' \in Seq(Samples)
    <2> DEFINE sample == [at |-> <<X_Cont, Y_Cont>>, luminance |-> BW]
    <2>1. /\ ADDR' = ADDR + 1 /\ ADDR' \in 1 .. Cells
          /\ BW_scaler' = BW /\ samples' = Append(samples, sample)
      <3>1. /\ ADDR \in Nat /\ ADDR < Cells /\ ADDR' = (ADDR + 1) % AddrSpace
            /\ BW_scaler' = BW /\ samples' = Append(samples, sample)
        <4>1. ADDR \in Nat
          BY DEF TypeOK
        <4>2. /\ ADDR < Cells /\ ADDR' = (ADDR + 1) % AddrSpace
              /\ BW_scaler' = BW /\ samples' = Append(samples, sample)
          BY <1>3, Zenon DEF Sample, LatchPixel
        <4> QED
          BY <4>1, <4>2
      <3>2. (ADDR + 1) % AddrSpace = ADDR + 1
        BY <3>1
      <3> QED
        BY <3>1, <3>2
    <2>2. sample \in Samples /\ sample.luminance = BW
          /\ sample.at[1] = X_Cont /\ sample.at[2] = Y_Cont
      BY DEF TypeOK, Pixels, Samples
    <2>3. InWindow(sample.at[1]) /\ OnGrid(sample.at[1], sample.at[2])
      BY <1>3, <2>2 DEF Sample
    <2> HIDE DEF sample
    <2>4. /\ samples \in Seq(Samples) /\ ADDR = Len(samples) /\ ADDR \in Nat
      BY DEF TypeOK, AddressInv
    <2>5. /\ samples' \in Seq(Samples) /\ Len(samples') = ADDR'
          /\ samples'[ADDR'] = sample
          /\ \A n \in 1 .. ADDR : samples'[n] = samples[n]
      BY <2>1, <2>2, <2>4
    <2>6. AddressInv'
      BY <2>1, <2>2, <2>3, <2>4, <2>5, <1>2 DEF AddressInv, InWindow, OnGrid
    <2>7. SlotsHoldSamples'
      BY <1>1, <2>1, <2>4, <2>5 DEF SlotsHoldSamples, store, Slots, InWindow, OnGrid
    <2> QED
      BY <2>5, <2>6, <2>7
  <1>4. ASSUME Skip PROVE AddressInv' /\ SlotsHoldSamples' /\ samples' \in Seq(Samples)
    <2>1. UNCHANGED <<ADDR, BW_scaler, VALID, samples, store>>
      BY <1>1, <1>4 DEF Skip
    <2> QED
      BY <2>1, <1>2 DEF TypeOK, AddressInv, SlotsHoldSamples, store
  <1>5. ASSUME Crop PROVE AddressInv' /\ SlotsHoldSamples' /\ samples' \in Seq(Samples)
    <2>1. VALID' = FALSE /\ UNCHANGED <<ADDR, samples, store>>
      BY <1>1, <1>5 DEF Crop
    <2> QED
      BY <2>1, <1>2 DEF TypeOK, AddressInv, SlotsHoldSamples, store
  <1>6. ASSUME Full PROVE AddressInv' /\ SlotsHoldSamples' /\ samples' \in Seq(Samples)
    <2>1. UNCHANGED <<scaler, store>>
      BY <1>1, <1>6 DEF Full
    <2> QED
      BY <2>1 DEF TypeOK, AddressInv, SlotsHoldSamples, scaler, store
  <1>7. AddressInv' /\ SlotsHoldSamples' /\ samples' \in Seq(Samples)
    BY <1>1, <1>3, <1>4, <1>5, <1>6
  <1>8. ADDR' \in 0 .. Cells /\ BW_scaler' \in Luminances
    <2>1. ADDR' \in Nat /\ ADDR' <= Cells
      <3>1. ADDR \in Nat /\ ADDR <= Cells
        BY DEF TypeOK
      <3>2. CASE Sample
        <4>1. ADDR < Cells /\ ADDR' = (ADDR + 1) % AddrSpace
          BY <3>2 DEF Sample, LatchPixel
        <4> QED
          BY <3>1, <4>1
      <3>3. CASE Skip \/ Crop \/ Full
        <4>1. ADDR' = ADDR
          BY <3>3 DEF Skip, Crop, Full, scaler
        <4> QED
          BY <3>1, <4>1
      <3> QED
        BY <1>1, <3>2, <3>3
    <2>2. BW_scaler' \in Luminances
      <3>1. BW_scaler' \in {BW, 0, BW_scaler}
        BY <1>1, Zenon DEF Sample, LatchPixel, Skip, Crop, Full, scaler
      <3> QED
        BY <3>1 DEF TypeOK
    <2> QED
      BY <2>1, <2>2
  <1>9. VALID' \in BOOLEAN /\ bwEvent' \in BOOLEAN /\ outEvent' \in BOOLEAN
    <2>1. VALID' \in BOOLEAN
      BY Zenon, <1>1 DEF TypeOK, Sample, LatchPixel, Skip, Crop, Full, scaler
    <2>2. bwEvent' \in BOOLEAN /\ outEvent' \in BOOLEAN
      BY Zenon DEF Scale
    <2> QED
      BY <2>1, <2>2
  <1> QED
    BY <1>1, <1>2, <1>7, <1>8, <1>9 DEF TypeOK, sensor, store

LEMMA StoreInv ==
  ASSUME IInv, Store
  PROVE  IInv'
  <1> USE GeometryAssumption, ReadingAssumption DEF IInv
  <1>1. UNCHANGED <<sensor, BW, scaler, bwEvent>> /\ outEvent' = FALSE
    BY DEF Store
  <1>2. CASE UNCHANGED store
    BY <1>1, <1>2 DEF TypeOK, AddressInv, SlotsHoldSamples, sensor, scaler, store
  <1>3. CASE ~ UNCHANGED store
    <2>1. /\ VALID /\ ADDR \in Slots
          /\ integral_buffer' = [integral_buffer EXCEPT ![ADDR] = BW_scaler]
          /\ origin' = [origin EXCEPT ![ADDR] = Len(samples)]
      BY <1>3 DEF Store, WriteSlot
    <2>2. TypeOK'
      <3>1. Len(samples) \in 0 .. Cells
        BY DEF TypeOK, AddressInv
      <3>2. /\ integral_buffer' \in [Slots -> Luminances]
            /\ origin' \in [Slots -> 0 .. Cells]
        BY <2>1, <3>1 DEF TypeOK
      <3> QED
        BY <1>1, <3>2 DEF TypeOK, sensor, scaler
    <2>3. AddressInv'
      BY <1>1 DEF AddressInv, scaler
    <2>4. SlotsHoldSamples'
      <3>1. /\ ADDR = Len(samples) /\ ADDR \in 1 .. Len(samples)
            /\ BW_scaler = samples[ADDR].luminance
            /\ InWindow(samples[ADDR].at[1]) /\ OnGrid(samples[ADDR].at[1], samples[ADDR].at[2])
        BY <2>1 DEF TypeOK, AddressInv
      <3>2. /\ integral_buffer'[ADDR] = BW_scaler /\ origin'[ADDR] = ADDR
            /\ \A i \in Slots \ {ADDR} : /\ integral_buffer'[i] = integral_buffer[i]
                                      /\ origin'[i] = origin[i]
        BY <2>1, <3>1 DEF TypeOK
      <3>3. samples' = samples
        BY <1>1 DEF scaler
      <3>4. SUFFICES ASSUME NEW i \in Slots, origin'[i] # 0
                     PROVE  /\ origin'[i] = i /\ i \in 1 .. Len(samples)
                            /\ integral_buffer'[i] = samples[i].luminance
                            /\ InWindow(samples[i].at[1]) /\ OnGrid(samples[i].at[1], samples[i].at[2])
        <4>1. \A i \in Slots : origin'[i] = 0 => integral_buffer'[i] = 0
          BY <3>1, <3>2 DEF SlotsHoldSamples
        <4> QED
          BY <3>3, <4>1 DEF SlotsHoldSamples, InWindow, OnGrid
      <3>5. CASE i = ADDR
        BY <3>1, <3>2, <3>5
      <3>6. CASE i # ADDR
        BY <3>2, <3>4, <3>6 DEF SlotsHoldSamples
      <3> QED
        BY <3>5, <3>6
    <2> QED
      BY <2>2, <2>3, <2>4
  <1> QED
    BY <1>2, <1>3

LEMMA StepInv == IInv /\ [Next]_vars => IInv'
  <1> SUFFICES ASSUME IInv, [Next]_vars PROVE IInv'
    OBVIOUS
  <1>1. CASE PixelClock \/ LuminanceChange
    BY <1>1, SurroundingsInv
  <1>2. CASE Scale
    BY <1>2, ScaleInv
  <1>3. CASE Store
    BY <1>3, StoreInv
  <1>4. CASE UNCHANGED vars
    BY <1>4 DEF vars, IInv, TypeOK, AddressInv, SlotsHoldSamples, sensor, scaler, store
  <1> QED
    BY <1>1, <1>2, <1>3, <1>4 DEF Next

LEMMA Invariance == Spec => []IInv
  BY InitInv, StepInv, PTL DEF Spec

(* The state stays within its types: no address beyond its width.          *)
THEOREM TypeCorrect == Spec => []TypeOK
  BY Invariance, PTL DEF IInv

(* ImageScaler never raises DONE: HAAR_Comparison is never started by a    *)
(* captured image.                                                         *)
THEOREM DoneIsDead == Spec => []NeverDone
  <1>1. IInv => NeverDone
    BY DEF IInv, AddressInv, NeverDone
  <1> QED
    BY <1>1, Invariance, PTL

(* Whatever the store holds is a sample of the grid, with the luminance it *)
(* was taken with, in the slot of its number.                              *)
THEOREM OnlySamplesStored == Spec => []SlotsHoldSamples
  BY Invariance, PTL DEF IInv

(* A captured cell is never overwritten.                                   *)
THEOREM CellsAreKept == Spec => WriteOnce
  <1>1. IInv /\ [Next]_vars =>
          [\A i \in Slots : origin[i] # 0 =>
             integral_buffer'[i] = integral_buffer[i] /\ origin'[i] = origin[i]]_vars
    <2> SUFFICES ASSUME IInv, Next, NEW i \in Slots, origin[i] # 0
                 PROVE  integral_buffer'[i] = integral_buffer[i] /\ origin'[i] = origin[i]
      OBVIOUS
    <2>1. CASE UNCHANGED store
      BY <2>1 DEF store
    <2>2. CASE ~ UNCHANGED store
      <3>1. /\ VALID
            /\ integral_buffer' = [integral_buffer EXCEPT ![ADDR] = BW_scaler]
            /\ origin' = [origin EXCEPT ![ADDR] = Len(samples)]
        BY <2>2 DEF Next, PixelClock, LuminanceChange, Scale, Store, WriteSlot
      <3>2. i = ADDR => integral_buffer[i] = BW_scaler /\ origin[i] = Len(samples)
        BY <3>1 DEF IInv, AddressInv, SlotsHoldSamples
      <3> QED
        BY <3>1, <3>2 DEF IInv, TypeOK
    <2> QED
      BY <2>1, <2>2
  <1> QED
    BY <1>1, Invariance, PTL DEF Spec, WriteOnce

(* Once the address has reached the end the capture path never changes.    *)
THEOREM CaptureIsOneShot == Spec => FrozenWhenFull
  <1>1. IInv /\ [Next]_vars => [ADDR = Cells => UNCHANGED <<scaler, store>>]_vars
    <2> SUFFICES ASSUME IInv, Next, ADDR = Cells
                 PROVE  UNCHANGED <<scaler, store>>
      OBVIOUS
    <2> USE GeometryAssumption
    <2>1. CASE PixelClock \/ LuminanceChange
      BY <2>1 DEF PixelClock, LuminanceChange
    <2>2. CASE Scale
      BY <2>2 DEF Scale, Sample, Skip, Crop, Full
    <2>3. CASE Store
      BY <2>3 DEF Store, WriteSlot, Slots
    <2> QED
      BY <2>1, <2>2, <2>3 DEF Next
  <1> QED
    BY <1>1, Invariance, PTL DEF Spec, FrozenWhenFull

(***************************************************************************)
(* The composed design (FaceDetection).                                    *)
(***************************************************************************)
LEMMA DetectStep == [DetectNext]_detectVars => [Next]_vars
  BY DEF DetectNext, Display, Capture, Key, detectVars, Next

LEMMA DetectInvariance == DetectSpec => []IInv
  <1>1. DetectInit => IInv
    BY InitInv DEF DetectInit
  <1>2. IInv /\ [DetectNext]_detectVars => IInv'
    BY DetectStep, StepInv
  <1> QED
    BY <1>1, <1>2, PTL DEF DetectSpec

(* The verdict on the display never changes, whatever the camera sees.     *)
THEOREM DisplayIsConstant == DetectSpec => DisplayNeverChanges
  <1>1. IInv /\ IInv' /\ [DetectNext]_detectVars =>
          [UNCHANGED <<accumulate, integral, is_face>>]_detectVars
    <2> SUFFICES ASSUME IInv', DetectNext
                 PROVE  UNCHANGED <<accumulate, integral, is_face>>
      OBVIOUS
    <2>1. ~START'
      BY DEF IInv, AddressInv, START
    <2>2. CompareOnStart
      BY DEF DetectNext, Display, Capture, Key
    <2> QED
      BY <2>1, <2>2 DEF CompareOnStart
  <1> QED
    BY <1>1, DetectInvariance, PTL DEF DetectSpec, DisplayNeverChanges

(***************************************************************************)
(* The luminance.                                                          *)
(***************************************************************************)
LEMMA NormalizeBounds ==
  ASSUME NEW c \in Channel
  PROVE  /\ Normalize(c) \in Nat
         /\ 255 * Normalize(c) <= 1000000 * c
         /\ 1000000 * c < 255 * Normalize(c) + 255
  <1>1. c \in Int /\ 0 <= c /\ c <= 255
    BY SMT DEF Channel
  <1>2. Normalize(c) \in Int /\ 0 <= Normalize(c) /\ Normalize(c) <= 1000000
    BY <1>1, SMT DEF Normalize
  <1>3. 255 * Normalize(c) <= 1000000 * c /\ 1000000 * c < 255 * Normalize(c) + 255
    BY <1>1, SMT DEF Normalize
  <1> QED
    BY <1>2, <1>3, SMT

LEMMA NormalizeMonotone ==
  ASSUME NEW c \in Channel, NEW d \in Channel, c <= d
  PROVE  Normalize(c) <= Normalize(d)
  BY SMT DEF Normalize, Channel

LEMMA LuminanceMonotone ==
  ASSUME NEW r \in Channel, NEW g \in Channel, NEW b \in Channel,
         NEW rr \in Channel, NEW gg \in Channel, NEW bb \in Channel,
         r <= rr, g <= gg, b <= bb
  PROVE  LuminanceOf(r, g, b) <= LuminanceOf(rr, gg, bb)
  <1> DEFINE R == Normalize(r)  G == Normalize(g)  B == Normalize(b)
             RR == Normalize(rr)  GG == Normalize(gg)  BB == Normalize(bb)
  <1>1. /\ R \in Nat /\ RR \in Nat /\ R <= RR
        /\ G \in Nat /\ GG \in Nat /\ G <= GG
        /\ B \in Nat /\ BB \in Nat /\ B <= BB
    BY NormalizeBounds, NormalizeMonotone
  <1> HIDE DEF R, G, B, RR, GG, BB
  <1>2. (R * 299) \div 1000 <= (RR * 299) \div 1000
    BY <1>1, SMT
  <1>3. (G * 587) \div 1000 <= (GG * 587) \div 1000
    BY <1>1, SMT
  <1>4. (B * 114) \div 1000 <= (BB * 114) \div 1000
    BY <1>1, SMT
  <1>5. ToBW(R, G, B) <= ToBW(RR, GG, BB)
    BY <1>1, <1>2, <1>3, <1>4, SMT DEF ToBW, Weighted
  <1> QED
    BY <1>5 DEF LuminanceOf, R, G, B, RR, GG, BB

LEMMA LuminanceClose ==
  ASSUME NEW r \in Channel, NEW g \in Channel, NEW b \in Channel
  PROVE  /\ 255 * LuminanceOf(r, g, b) <= (299 * r + 587 * g + 114 * b) * 1000
         /\ (299 * r + 587 * g + 114 * b) * 1000 < 255 * LuminanceOf(r, g, b) + 4 * 255
         /\ LuminanceOf(r, g, b) \in Nat
  <1> DEFINE R == Normalize(r)  G == Normalize(g)  B == Normalize(b)
             X == (R * 299) \div 1000  Y == (G * 587) \div 1000  Z == (B * 114) \div 1000
  <1>1. R \in Nat /\ G \in Nat /\ B \in Nat
    BY NormalizeBounds
  <1>2. 255 * R <= 1000000 * r /\ 1000000 * r < 255 * R + 255
    BY NormalizeBounds, SMT
  <1>3. 255 * G <= 1000000 * g /\ 1000000 * g < 255 * G + 255
    BY NormalizeBounds, SMT
  <1>4. 255 * B <= 1000000 * b /\ 1000000 * b < 255 * B + 255
    BY NormalizeBounds, SMT
  <1>5. LuminanceOf(r, g, b) = X + Y + Z
    BY DEF LuminanceOf, ToBW, Weighted
  <1> HIDE DEF R, G, B
  <1>6. X \in Nat /\ 1000 * X <= R * 299 /\ R * 299 < 1000 * X + 1000
    BY <1>1, SMT
  <1>7. Y \in Nat /\ 1000 * Y <= G * 587 /\ G * 587 < 1000 * Y + 1000
    BY <1>1, SMT
  <1>8. Z \in Nat /\ 1000 * Z <= B * 114 /\ B * 114 < 1000 * Z + 1000
    BY <1>1, SMT
  <1> HIDE DEF X, Y, Z
  <1>9. r \in Nat /\ g \in Nat /\ b \in Nat
    BY DEF Channel
  <1> QED
    BY <1>1, <1>2, <1>3, <1>4, <1>5, <1>6, <1>7, <1>8, <1>9, SMT

PixelInv == colour \in Colours /\ BW = LuminanceOf(colour[1], colour[2], colour[3])

LEMMA ChannelsOfColour ==
  ASSUME NEW c \in Colours
  PROVE  c[1] \in Channel /\ c[2] \in Channel /\ c[3] \in Channel
  BY ColourAssumption

LEMMA PixelStep == PixelInv /\ [DetectNext]_detectVars => PixelInv'
  <1> SUFFICES ASSUME PixelInv, [DetectNext]_detectVars
               PROVE  PixelInv'
    OBVIOUS
  <1>1. CASE Display
    <2> PICK c \in Colours :
          /\ colour' = c
          /\ IF LuminanceOf(c[1], c[2], c[3]) = BW
             THEN UNCHANGED vars
             ELSE BW' = LuminanceOf(c[1], c[2], c[3])
      BY <1>1 DEF Display
    <2> QED
      BY DEF PixelInv, vars
  <1>2. CASE Capture
    BY <1>2 DEF Capture, PixelClock, Scale, Store, PixelInv
  <1>3. CASE Key
    BY <1>3 DEF Key, vars, PixelInv
  <1>4. CASE UNCHANGED detectVars
    BY <1>4 DEF detectVars, vars, PixelInv
  <1> QED
    BY <1>1, <1>2, <1>3, <1>4 DEF DetectNext

LEMMA PixelInvariance == DetectSpec => []PixelInv
  <1>1. DetectInit => PixelInv
    <2>1. LuminanceOf(0, 0, 0) = 0
      BY SMT DEF LuminanceOf, ToBW, Weighted, Normalize
    <2> QED
      BY <2>1, ColourAssumption DEF DetectInit, Init, PixelInv
  <1> QED
    BY <1>1, PixelStep, PTL DEF DetectSpec

(* The luminance is the weighted mean but for less than four millionths,   *)
(* for every set of colours.                                               *)
THEOREM LuminanceIsClose == DetectSpec => []CloseToWeightedMean
  <1>1. PixelInv => CloseToWeightedMean
    <2> SUFFICES ASSUME PixelInv
                 PROVE  CloseToWeightedMean
      OBVIOUS
    <2> DEFINE mean == (299 * colour[1] + 587 * colour[2] + 114 * colour[3]) * 1000
    <2>1. colour[1] \in Channel /\ colour[2] \in Channel /\ colour[3] \in Channel
      BY ChannelsOfColour DEF PixelInv
    <2>2. 255 * BW <= mean /\ mean < 255 * BW + 4 * 255 /\ BW \in Nat
      BY <2>1, LuminanceClose DEF PixelInv
    <2>3. colour[1] \in Int /\ colour[2] \in Int /\ colour[3] \in Int
      BY <2>1 DEF Channel
    <2>4. mean \in Int
      BY <2>3, SMT
    <2> QED
      BY <2>2, <2>4, SMT DEF CloseToWeightedMean
  <1> QED
    BY <1>1, PixelInvariance, PTL

(* Raising channels never lowers the luminance, for every set of colours.  *)
THEOREM BrighterIsBrighter == DetectSpec => Monotone
  <1>1. PixelInv /\ PixelInv' => (Brighter(colour, colour') => BW <= BW')
    <2> SUFFICES ASSUME PixelInv, PixelInv', Brighter(colour, colour')
                 PROVE  BW <= BW'
      OBVIOUS
    <2>1. colour[1] \in Channel /\ colour[2] \in Channel /\ colour[3] \in Channel
      BY ChannelsOfColour DEF PixelInv
    <2>2. colour'[1] \in Channel /\ colour'[2] \in Channel /\ colour'[3] \in Channel
      BY ChannelsOfColour DEF PixelInv
    <2>3. colour[1] <= colour'[1] /\ colour[2] <= colour'[2] /\ colour[3] <= colour'[3]
      BY DEF Brighter
    <2> QED
      BY <2>1, <2>2, <2>3, LuminanceMonotone DEF PixelInv
  <1>2. PixelInv /\ PixelInv' /\ [DetectNext]_detectVars
          => [Brighter(colour, colour') => BW <= BW']_detectVars
    BY <1>1
  <1> QED
    BY <1>2, PixelInvariance, PTL DEF DetectSpec, Monotone
=============================================================================
