------------------------ MODULE FaceFirmware_proofs ------------------------
(***************************************************************************)
(* Proofs about FaceFirmware, for any number of cells, any bytes, any      *)
(* cascade and any number of resets.  The exported pair lags the registers *)
(* by one clock edge, and a reset shows the old pair once more, so that    *)
(* what is exported is not a function of the registers: the invariant says *)
(* which registers are still blank at each point of main, and ties the     *)
(* exported pair to the verdict itself.                                    *)
(***************************************************************************)
EXTENDS FaceFirmware, TLAPS

Labels == {"spin", "compare", "publish", "signal", "returned"}

Reported == IF is_face THEN One ELSE Zero

FirmwareTypeOK ==
  /\ RegTypeOK
  /\ pc \in Labels
  /\ seen \in [CellRegs -> Words] /\ next \in 0 .. Cells
  /\ is_face \in BOOLEAN /\ verdict \in BOOLEAN
  /\ resets \in Nat

(* Until the first write of main the cells are as the reset left them.     *)
CellsBlank == pc \in {"spin", "compare", "publish"} => \A c \in CellRegs : Reg[c] = Zero

(* HW_DONE is up only behind the verdict.                                  *)
MarksFollow ==
  /\ pc # "returned" => Reg[HW_DONE] = Zero
  /\ pc = "returned" => Reg[HW_DONE] = One
  /\ pc \in {"signal", "returned"} => Reg[IS_FACE] = Reported
  /\ pc \in {"publish", "signal", "returned"} => verdict = is_face

(* Once HW_DONE is exported the export has caught up with the registers.   *)
ExportCaughtUp ==
  (pc = "returned" /\ Exported(EXPORT_DATA.done)) =>
     EXPORT_DATA = [done |-> Half(Reg[HW_DONE]), face |-> Half(Reg[IS_FACE])]

IInv ==
  /\ FirmwareTypeOK
  /\ CellsBlank
  /\ ImageIsBlank
  /\ MarksFollow
  /\ DoneExportsVerdict
  /\ ExportCaughtUp

(***************************************************************************)
(* The words and what a clock edge does to the registers.                  *)
(***************************************************************************)
LEMMA BlankWords ==
  /\ Zero \in Words /\ One \in Words /\ Reported \in Words
  /\ ~Exported(Half(Zero)) /\ Exported(Half(One))
<1>1. 0 \in Bytes /\ 1 \in Bytes
  BY RegisterAssumption
<1>2. Zero \in Words /\ One \in Words
  BY <1>1 DEF Zero, One, Words
<1>3. Zero[0] = 0 /\ Zero[1] = 0 /\ One[0] = 1 /\ One[1] = 0
  BY DEF Zero, One, Lanes
<1> QED
  BY <1>2, <1>3 DEF Exported, Half, Reported

LEMMA MarkRegisters ==
  /\ SW_START \in Registers /\ HW_DONE \in Registers /\ IS_FACE \in Registers
  /\ Index \in CellRegs /\ CellRegs \subseteq Registers
  /\ SW_START # HW_DONE /\ SW_START # IS_FACE /\ HW_DONE # IS_FACE
  /\ \A c \in CellRegs : c # SW_START /\ c # HW_DONE /\ c # IS_FACE
  BY RegisterAssumption DEF Registers

(* A whole word written leaves nothing of the old one.                     *)
LEMMA MergeWhole ==
  ASSUME NEW old \in Words, NEW data \in Words
  PROVE  Merge(old, WholeWord, data) = data
<1>1. WholeWord \in Enables
  BY DEF Enables
<1>2. Merge(old, WholeWord, data) = [l \in Lanes |-> data[l]]
  BY <1>1 DEF Merge, WholeWord
<1> QED
  BY <1>2 DEF Words

LEMMA WriteMark ==
  ASSUME RegTypeOK, NEW mark \in {HW_DONE, IS_FACE}, NEW word \in Words,
         WriteEdge(mark, WholeWord, word)
  PROVE  /\ Reg' \in [Registers -> Words]
         /\ Reg'[mark] = word
         /\ \A r \in Registers \ {mark, Index} : Reg'[r] = Reg[r]
         /\ Export /\ UNCHANGED <<DONE, integral>>
<1>1. mark \in Registers /\ mark # Index /\ Index \in Registers
  BY MarkRegisters
<1>2. Reg \in [Registers -> Words] /\ integral \in Words /\ Reg[mark] \in Words
  BY <1>1 DEF RegTypeOK
<1> DEFINE stored == [Reg EXCEPT ![Index] = integral]
<1>3. Merge(stored[mark], WholeWord, word) = word
  <2>1. stored[mark] \in Words
    BY <1>1, <1>2
  <2> QED
    BY <2>1, MergeWhole
<1>4. Reg' = [[Reg EXCEPT ![Index] = integral] EXCEPT ![mark] = word]
  BY <1>3 DEF WriteEdge
<1>5. Export /\ UNCHANGED <<DONE, integral>>
  BY DEF WriteEdge
<1> HIDE DEF Export, stored
<1> QED
  BY <1>1, <1>2, <1>4, <1>5

LEMMA ResetClears ==
  ASSUME RegTypeOK, ResetEdge
  PROVE  /\ Reg' \in [Registers -> Words]
         /\ \A r \in Registers \ {SW_START} : Reg'[r] = Zero
         /\ Export /\ UNCHANGED <<DONE, integral>>
<1>1. PICK start \in {Zero, Reg[SW_START]} : Reg' = [ClearReg EXCEPT ![SW_START] = start]
  BY DEF ResetEdge
<1>2. start \in Words
  BY MarkRegisters, BlankWords DEF RegTypeOK
<1>3. ClearReg = [r \in Registers |-> Zero]
  BY DEF ClearReg
<1>4. Export /\ UNCHANGED <<DONE, integral>>
  BY DEF ResetEdge
<1> QED
  BY <1>1, <1>2, <1>3, <1>4, BlankWords, MarkRegisters

LEMMA PixelStarts ==
  ASSUME RegTypeOK, NEW word \in ClassifierWords, Classified(word)
  PROVE  /\ RegTypeOK'
         /\ \A r \in Registers \ {SW_START} : Reg'[r] = Reg[r]
         /\ UNCHANGED EXPORT_DATA
<1>1. PICK start \in {One} \cup (IF DONE THEN {Reg[SW_START]} ELSE {}) :
        Reg' = [Reg EXCEPT ![SW_START] = start]
  BY DEF Classified
<1>2. start \in Words
  BY MarkRegisters, BlankWords DEF RegTypeOK
<1>3. Reg' \in [Registers -> Words] /\ \A r \in Registers \ {SW_START} : Reg'[r] = Reg[r]
  BY <1>1, <1>2, MarkRegisters DEF RegTypeOK
<1>4. DONE' \in BOOLEAN /\ integral' \in Words /\ UNCHANGED EXPORT_DATA
  BY RegisterAssumption DEF Classified
<1> QED
  BY <1>3, <1>4 DEF RegTypeOK

LEMMA ExportType ==
  ASSUME RegTypeOK, Export
  PROVE  /\ EXPORT_DATA' \in [done : Bytes \X Bytes, face : Bytes \X Bytes]
         /\ EXPORT_DATA'.done = Half(Reg[HW_DONE]) /\ EXPORT_DATA'.face = Half(Reg[IS_FACE])
<1>1. Reg[HW_DONE] \in Words /\ Reg[IS_FACE] \in Words
  BY MarkRegisters DEF RegTypeOK
<1>2. \A w \in Words : Half(w) \in Bytes \X Bytes
  BY DEF Half, Words, Lanes
<1> QED
  BY <1>1, <1>2 DEF Export

(***************************************************************************)
(* The invariant.                                                          *)
(***************************************************************************)
LEMMA InitHolds == Init => IInv
<1> SUFFICES ASSUME Init
             PROVE  IInv
  OBVIOUS
<1>1. Reg = [r \in Registers |-> Zero] /\ integral = Zero /\ DONE = FALSE
  BY DEF Init, RegInit
<1>2. EXPORT_DATA = [done |-> <<0, 0>>, face |-> <<0, 0>>]
  BY DEF Init, RegInit
<1>3. EXPORT_DATA \in [done : Bytes \X Bytes, face : Bytes \X Bytes]
  BY <1>2, RegisterAssumption
<1>4. RegTypeOK
  BY <1>1, <1>3, BlankWords DEF RegTypeOK
<1>5. FirmwareTypeOK
  <2>1. is_face \in BOOLEAN /\ verdict \in BOOLEAN
    BY Zenon DEF Init
  <2>2. seen \in [CellRegs -> Words] /\ next \in 0 .. Cells
    BY BlankWords, RegisterAssumption DEF Init
  <2> QED
    BY <1>4, <2>1, <2>2 DEF Init, FirmwareTypeOK, Labels
<1>6. CellsBlank /\ ImageIsBlank /\ MarksFollow
  BY <1>1, MarkRegisters DEF Init, CellsBlank, ImageIsBlank, MarksFollow
<1>7. DoneExportsVerdict /\ ExportCaughtUp
  BY <1>2 DEF Init, DoneExportsVerdict, ExportCaughtUp, Exported
<1> QED
  BY <1>5, <1>6, <1>7 DEF IInv

(* An edge without a write, whatever main does with it.                    *)
LEMMA IdleKeepsTypes ==
  ASSUME RegTypeOK, IdleEdge
  PROVE  RegTypeOK'
  BY ExportType DEF IdleEdge, RegTypeOK

LEMMA StartSeenHolds ==
  ASSUME IInv, StartSeen
  PROVE  IInv'
<1> USE DEF IInv, StartSeen
<1>1. FirmwareTypeOK'
  BY IdleKeepsTypes DEF FirmwareTypeOK, Labels
<1>2. ~Exported(EXPORT_DATA'.done)
  BY ExportType, BlankWords DEF IdleEdge, FirmwareTypeOK, MarksFollow
<1>3. CellsBlank' /\ ImageIsBlank' /\ MarksFollow'
  BY DEF IdleEdge, CellsBlank, ImageIsBlank, MarksFollow
<1>4. DoneExportsVerdict' /\ ExportCaughtUp'
  BY <1>2 DEF DoneExportsVerdict, ExportCaughtUp
<1> QED
  BY <1>1, <1>3, <1>4

LEMMA ReadCellHolds ==
  ASSUME IInv, ReadCell
  PROVE  IInv'
<1> USE DEF IInv
<1>1. next \in CellRegs /\ next + 1 \in 0 .. Cells /\ Reg[next] = Zero
  BY RegisterAssumption DEF ReadCell, FirmwareTypeOK, CellsBlank, CellRegs
<1>2. seen' = [seen EXCEPT ![next] = Zero]
  BY <1>1 DEF ReadCell
<1>3. seen' \in [CellRegs -> Words]
  BY <1>2, BlankWords DEF FirmwareTypeOK
<1>4. FirmwareTypeOK'
  BY <1>1, <1>3, IdleKeepsTypes DEF ReadCell, FirmwareTypeOK
<1>5. ~Exported(EXPORT_DATA'.done)
  BY ExportType, BlankWords DEF ReadCell, IdleEdge, FirmwareTypeOK, MarksFollow
<1>6. ImageIsBlank'
  BY <1>2 DEF ImageIsBlank, FirmwareTypeOK
<1>7. CellsBlank' /\ MarksFollow'
  BY DEF ReadCell, IdleEdge, CellsBlank, MarksFollow, Reported
<1>8. DoneExportsVerdict' /\ ExportCaughtUp'
  BY <1>5 DEF DoneExportsVerdict, ExportCaughtUp
<1> QED
  BY <1>4, <1>6, <1>7, <1>8

LEMMA DecideHolds ==
  ASSUME IInv, Decide
  PROVE  IInv'
<1> USE DEF IInv
<1>1. ImageSeen \in [CellRegs -> Words]
  BY DEF FirmwareTypeOK, ImageSeen
<1>2. is_face' \in BOOLEAN /\ verdict' = is_face'
  BY <1>1, VerdictAssumption DEF Decide
<1>3. FirmwareTypeOK'
  BY <1>2, IdleKeepsTypes DEF Decide, FirmwareTypeOK, Labels
<1>4. ~Exported(EXPORT_DATA'.done)
  BY ExportType, BlankWords DEF Decide, IdleEdge, FirmwareTypeOK, MarksFollow
<1>5. CellsBlank' /\ ImageIsBlank' /\ MarksFollow'
  BY <1>2 DEF Decide, IdleEdge, CellsBlank, ImageIsBlank, MarksFollow
<1>6. DoneExportsVerdict' /\ ExportCaughtUp'
  BY <1>4 DEF DoneExportsVerdict, ExportCaughtUp
<1> QED
  BY <1>3, <1>5, <1>6

LEMMA PublishHolds ==
  ASSUME IInv, Publish
  PROVE  IInv'
<1> USE DEF IInv
<1>1. WriteEdge(IS_FACE, WholeWord, Reported)
  BY DEF Publish, Reported
<1>2. /\ Reg' \in [Registers -> Words]
      /\ Reg'[IS_FACE] = Reported
      /\ \A r \in Registers \ {IS_FACE, Index} : Reg'[r] = Reg[r]
      /\ Export /\ UNCHANGED <<DONE, integral>>
  BY <1>1, WriteMark, BlankWords DEF FirmwareTypeOK
<1>3. Reg'[HW_DONE] = Zero /\ Reg[HW_DONE] = Zero
  BY <1>2, MarkRegisters DEF Publish, MarksFollow
<1>4. FirmwareTypeOK'
  BY <1>2, ExportType DEF Publish, FirmwareTypeOK, RegTypeOK, Labels
<1>5. ~Exported(EXPORT_DATA'.done)
  BY <1>2, <1>3, ExportType, BlankWords DEF FirmwareTypeOK
<1>6. CellsBlank' /\ ImageIsBlank'
  BY DEF Publish, CellsBlank, ImageIsBlank
<1>7. MarksFollow'
  BY <1>2, <1>3 DEF Publish, MarksFollow, Reported
<1>8. DoneExportsVerdict' /\ ExportCaughtUp'
  BY <1>5 DEF DoneExportsVerdict, ExportCaughtUp
<1> QED
  BY <1>4, <1>6, <1>7, <1>8

LEMMA SignalHolds ==
  ASSUME IInv, Signal
  PROVE  IInv'
<1> USE DEF IInv
<1>1. /\ Reg' \in [Registers -> Words]
      /\ Reg'[HW_DONE] = One
      /\ \A r \in Registers \ {HW_DONE, Index} : Reg'[r] = Reg[r]
      /\ Export /\ UNCHANGED <<DONE, integral>>
  BY WriteMark, BlankWords DEF Signal, FirmwareTypeOK
<1>2. Reg'[IS_FACE] = Reported /\ Reg[HW_DONE] = Zero
  BY <1>1, MarkRegisters DEF Signal, MarksFollow
<1>3. FirmwareTypeOK'
  BY <1>1, ExportType DEF Signal, FirmwareTypeOK, RegTypeOK, Labels
<1>4. ~Exported(EXPORT_DATA'.done)
  BY <1>1, <1>2, ExportType, BlankWords DEF FirmwareTypeOK
<1>5. CellsBlank' /\ ImageIsBlank'
  BY DEF Signal, CellsBlank, ImageIsBlank
<1>6. MarksFollow'
  BY <1>1, <1>2 DEF Signal, MarksFollow, Reported
<1>7. DoneExportsVerdict' /\ ExportCaughtUp'
  BY <1>4 DEF DoneExportsVerdict, ExportCaughtUp
<1> QED
  BY <1>3, <1>5, <1>6, <1>7

(* What an edge exports beside the verdict it belongs to.                  *)
LEMMA PairMatches ==
  ASSUME IInv, Export
  PROVE  Exported(EXPORT_DATA'.done) => (Exported(EXPORT_DATA'.face) <=> verdict)
<1> USE DEF IInv
<1>1. Exported(EXPORT_DATA'.done) => pc = "returned"
  BY ExportType, BlankWords DEF FirmwareTypeOK, MarksFollow
<1>2. pc = "returned" => (Exported(EXPORT_DATA'.face) <=> verdict)
  BY ExportType, BlankWords DEF FirmwareTypeOK, MarksFollow, Reported
<1> QED
  BY <1>1, <1>2

LEMMA ClockHolds ==
  ASSUME IInv, Clock
  PROVE  IInv'
<1> USE DEF IInv
<1>1. FirmwareTypeOK'
  BY IdleKeepsTypes DEF Clock, firmware, FirmwareTypeOK
<1>2. CellsBlank' /\ ImageIsBlank' /\ MarksFollow'
  BY DEF Clock, firmware, IdleEdge, CellsBlank, ImageIsBlank, MarksFollow, Reported
<1>3. DoneExportsVerdict'
  BY PairMatches DEF Clock, IdleEdge, DoneExportsVerdict
<1>4. ExportCaughtUp'
  BY DEF Clock, IdleEdge, Export, ExportCaughtUp
<1> QED
  BY <1>1, <1>2, <1>3, <1>4

LEMMA CameraHolds ==
  ASSUME IInv, Camera
  PROVE  IInv'
<1> USE DEF IInv
<1>1. PICK word \in ClassifierWords : Classified(word)
  BY DEF Camera
<1>2. /\ RegTypeOK'
      /\ \A r \in Registers \ {SW_START} : Reg'[r] = Reg[r]
      /\ UNCHANGED EXPORT_DATA
  BY <1>1, PixelStarts DEF FirmwareTypeOK
<1>3. FirmwareTypeOK'
  BY <1>2 DEF Camera, firmware, FirmwareTypeOK
<1>4. Reg'[HW_DONE] = Reg[HW_DONE] /\ Reg'[IS_FACE] = Reg[IS_FACE]
  BY <1>2, MarkRegisters
<1>5. CellsBlank' /\ ImageIsBlank'
  BY <1>2, MarkRegisters DEF Camera, firmware, CellsBlank, ImageIsBlank
<1>6. MarksFollow' /\ DoneExportsVerdict' /\ ExportCaughtUp'
  BY <1>2, <1>4 DEF Camera, firmware, MarksFollow, DoneExportsVerdict, ExportCaughtUp, Reported
<1> QED
  BY <1>3, <1>5, <1>6

LEMMA ResetHolds ==
  ASSUME IInv, Reset
  PROVE  IInv'
<1> USE DEF IInv
<1>1. /\ Reg' \in [Registers -> Words]
      /\ \A r \in Registers \ {SW_START} : Reg'[r] = Zero
      /\ Export /\ UNCHANGED <<DONE, integral>>
  BY ResetClears DEF Reset, FirmwareTypeOK
<1>2. RegTypeOK'
  BY <1>1, ExportType DEF FirmwareTypeOK, RegTypeOK
<1>3. FirmwareTypeOK'
  <2>1. is_face' \in BOOLEAN
    BY Zenon DEF Reset, Restart
  <2>2. seen' \in [CellRegs -> Words] /\ next' \in 0 .. Cells
    BY BlankWords, RegisterAssumption DEF Reset, Restart
  <2> QED
    BY <1>2, <2>1, <2>2 DEF Reset, Restart, FirmwareTypeOK, Labels
<1>4. CellsBlank' /\ ImageIsBlank' /\ MarksFollow'
  BY <1>1, MarkRegisters DEF Reset, Restart, CellsBlank, ImageIsBlank, MarksFollow
<1>5. DoneExportsVerdict'
  BY <1>1, PairMatches DEF Reset, DoneExportsVerdict
<1>6. ExportCaughtUp'
  BY DEF Reset, Restart, ExportCaughtUp
<1> QED
  BY <1>3, <1>4, <1>5, <1>6

LEMMA StutterHolds ==
  ASSUME IInv, UNCHANGED vars
  PROVE  IInv'
<1> USE DEF IInv, vars, regVars, firmware
<1>1. FirmwareTypeOK'
  BY DEF FirmwareTypeOK, RegTypeOK
<1>2. CellsBlank' /\ ImageIsBlank' /\ MarksFollow'
  BY DEF CellsBlank, ImageIsBlank, MarksFollow, Reported
<1>3. DoneExportsVerdict' /\ ExportCaughtUp'
  BY DEF DoneExportsVerdict, ExportCaughtUp
<1> QED
  BY <1>1, <1>2, <1>3

(* Every state main, the clock, the camera and resets reach satisfies the  *)
(* invariant (main.c, avalon_mm_interface.sv).                             *)
THEOREM Invariance == Spec => []IInv
<1>1. ASSUME IInv, [Next]_vars
      PROVE  IInv'
  <2>1. CASE Firmware
    BY <1>1, <2>1, StartSeenHolds, ReadCellHolds, DecideHolds, PublishHolds, SignalHolds
       DEF Firmware, Report
  <2>2. CASE Clock \/ Camera \/ Reset
    BY <1>1, <2>2, ClockHolds, CameraHolds, ResetHolds
  <2>3. CASE UNCHANGED vars
    BY <1>1, <2>3, StutterHolds
  <2> QED
    BY <1>1, <2>1, <2>2, <2>3 DEF Next
<1> QED
  BY InitHolds, <1>1, PTL DEF Spec

(* With HW_DONE exported the exported is_face is the verdict main last     *)
(* reached, in the edge after a reset too (main.c:70-73).                  *)
THEOREM ExportIsTheVerdict == Spec => []DoneExportsVerdict
<1>1. IInv => DoneExportsVerdict
  BY DEF IInv
<1> QED
  BY Invariance, <1>1, PTL

(* Every image main hands to the cascade is blank, whatever the classifier *)
(* produces and however often the board is reset (main.c:42, the write     *)
(* branch of avalon_mm_interface.sv).                                      *)
THEOREM FirmwareSeesNothing == Spec => []ImageIsBlank
<1>1. IInv => ImageIsBlank
  BY DEF IInv
<1> QED
  BY Invariance, <1>1, PTL

(* A verdict, once exported, stays until the next reset.                   *)
VerdictStays ==
  [][(Exported(EXPORT_DATA.done) /\ resets' = resets /\ pc = "returned") =>
        EXPORT_DATA' = EXPORT_DATA]_vars

(* Once exported, a verdict stays on the export until the next reset.      *)
THEOREM VerdictIsKept == Spec => VerdictStays
<1>1. ASSUME IInv, [Next]_vars,
             Exported(EXPORT_DATA.done), resets' = resets, pc = "returned"
      PROVE  EXPORT_DATA' = EXPORT_DATA
  <2>1. ~StartSeen /\ ~ReadCell /\ ~Decide /\ ~Publish /\ ~Signal
    BY <1>1 DEF StartSeen, ReadCell, Decide, Publish, Signal
  <2>2. CASE Clock
    BY <1>1, <2>2 DEF Clock, IdleEdge, Export, IInv, ExportCaughtUp
  <2>3. CASE Camera
    BY <1>1, <2>3 DEF Camera, Classified
  <2>4. ~Reset
    BY <1>1 DEF Reset, IInv, FirmwareTypeOK
  <2>5. CASE UNCHANGED vars
    BY <2>5 DEF vars, regVars
  <2> QED
    BY <1>1, <2>1, <2>2, <2>3, <2>4, <2>5 DEF Next, Firmware, Report
<1> QED
  BY Invariance, <1>1, PTL DEF VerdictStays, Spec

(***************************************************************************)
(* The handshake.                                                          *)
(***************************************************************************)

(* When the firmware decides, nothing is left on the export of an earlier  *)
(* run: leaving the loop for SW_START has taken a clock edge.              *)
TakenBack == pc \in {"compare", "publish", "signal"} => ~Exported(EXPORT_DATA.done)

(* Every edge but those after main has returned exports no "done".         *)
LEMMA NothingExported ==
  ASSUME IInv, Export, pc # "returned"
  PROVE  ~Exported(EXPORT_DATA'.done)
  BY ExportType, BlankWords DEF IInv, FirmwareTypeOK, MarksFollow

LEMMA PublishExports == ASSUME Publish PROVE Export /\ pc = "publish"
  BY DEF Publish, WriteEdge

LEMMA SignalExports == ASSUME Signal PROVE Export /\ pc = "signal"
  BY DEF Signal, WriteEdge

LEMMA TakenBackHolds == Spec => []TakenBack
<1>1. Init => TakenBack
  BY DEF Init, TakenBack
<1>2. ASSUME IInv, TakenBack, [Next]_vars
      PROVE  TakenBack'
  <2>1. CASE StartSeen \/ ReadCell \/ Decide
    BY <1>2, <2>1, NothingExported DEF StartSeen, ReadCell, Decide, IdleEdge, TakenBack
  <2>2. CASE Publish
    BY <1>2, <2>2, NothingExported, PublishExports DEF TakenBack
  <2>3. CASE Signal
    BY <1>2, <2>3, NothingExported, SignalExports DEF TakenBack
  <2>4. CASE Clock
    BY <1>2, <2>4, NothingExported DEF Clock, firmware, IdleEdge, TakenBack
  <2>5. CASE Camera
    BY <1>2, <2>5 DEF Camera, firmware, Classified, TakenBack
  <2>6. CASE Reset
    BY <1>2, <2>6 DEF Reset, Restart, TakenBack
  <2>7. CASE UNCHANGED vars
    BY <1>2, <2>7 DEF vars, regVars, firmware, TakenBack
  <2> QED
    BY <1>2, <2>1, <2>2, <2>3, <2>4, <2>5, <2>6, <2>7 DEF Next, Firmware, Report
<1> QED
  BY <1>1, <1>2, Invariance, PTL DEF Spec

(* What main has decided is what a "done" behind its return shows.         *)
LEMMA ToldIsDecided ==
  ASSUME IInv, pc = "returned", Exported(EXPORT_DATA.done)
  PROVE  Told = Decided
<1>1. Exported(EXPORT_DATA.face) <=> is_face
  BY DEF IInv, DoneExportsVerdict, MarksFollow
<1>2. is_face \in BOOLEAN /\ Exported(EXPORT_DATA.face) \in BOOLEAN
  BY DEF IInv, FirmwareTypeOK, Exported
<1>3. Exported(EXPORT_DATA.face) = is_face
  BY <1>1, <1>2
<1> QED
  BY <1>3 DEF Told, Decided

LEMMA ToldNothing == ~Exported(EXPORT_DATA.done) => Told = <<>>
  BY DEF Told

(* Between two edges of the clock that are no part of main or of a reset,  *)
(* the decision stands and what the hardware is told is it or nothing.     *)
LEMMA HandshakeStep ==
  ASSUME IInv, TakenBack, [Next]_vars, IInv'
  PROVE  [Hardware!Next]_<<Decided, Told>>
<1> USE DEF Hardware!Next, Hardware!None
<1>1. CASE StartSeen
  <2>1. Decided = <<>> /\ Decided' = <<>>
    BY <1>1 DEF StartSeen, Decided
  <2>2. ~Exported(EXPORT_DATA'.done)
    BY <1>1, NothingExported DEF StartSeen, IdleEdge
  <2>3. Told' = <<>>
    BY <2>2 DEF Told
  <2> QED
    BY <2>1, <2>3 DEF Hardware!TakeBack
<1>2. CASE ReadCell
  <2>1. Decided = <<>> /\ Decided' = <<>>
    BY <1>2 DEF ReadCell, Decided
  <2>2. ~Exported(EXPORT_DATA'.done)
    BY <1>2, NothingExported DEF ReadCell, IdleEdge
  <2>3. Told' = <<>>
    BY <2>2 DEF Told
  <2> QED
    BY <2>1, <2>3 DEF Hardware!TakeBack
<1>3. CASE Decide
  <2>1. Decided = <<>> /\ Decided' = <<is_face'>> /\ is_face' \in BOOLEAN
    BY <1>3 DEF Decide, Decided, IInv, FirmwareTypeOK
  <2>2. ~Exported(EXPORT_DATA'.done) /\ ~Exported(EXPORT_DATA.done)
    BY <1>3, NothingExported DEF Decide, IdleEdge, TakenBack
  <2>3. Told = <<>> /\ Told' = <<>>
    BY <2>2 DEF Told
  <2> QED
    BY <2>1, <2>3 DEF Hardware!Decide, Hardware!Some
<1>4. CASE Publish \/ Signal
  <2>1. Decided' = Decided
    BY <1>4 DEF Publish, Signal, Decided
  <2>2. Export /\ pc \in {"publish", "signal"}
    BY <1>4, PublishExports, SignalExports
  <2>3. ~Exported(EXPORT_DATA'.done) /\ ~Exported(EXPORT_DATA.done)
    BY <2>2, NothingExported DEF TakenBack
  <2>4. Told' = Told
    BY <2>3 DEF Told
  <2> QED
    BY <2>1, <2>4
<1>5. CASE Clock
  <2>1. pc' = pc /\ is_face' = is_face /\ Decided' = Decided /\ Export
    BY <1>5 DEF Clock, firmware, IdleEdge, Decided
  <2>2. CASE pc = "returned"
    <3>1. Decided # <<>>
      BY <2>2 DEF Decided
    <3>2. CASE Exported(EXPORT_DATA.done)
      <4>1. EXPORT_DATA' = EXPORT_DATA
        BY <2>1, <2>2, <3>2 DEF Export, IInv, ExportCaughtUp
      <4> QED
        BY <2>1, <4>1 DEF Told
    <3>3. CASE ~Exported(EXPORT_DATA.done) /\ Exported(EXPORT_DATA'.done)
      <4>1. Told = <<>>
        BY <3>3 DEF Told
      <4>2. Told' = Decided'
        <5>1. Exported(EXPORT_DATA'.face) <=> is_face'
          BY <2>1, <2>2, <3>3 DEF IInv, DoneExportsVerdict, MarksFollow
        <5>2. is_face' \in BOOLEAN /\ Exported(EXPORT_DATA'.face) \in BOOLEAN
          BY DEF IInv, FirmwareTypeOK, Exported
        <5>3. Exported(EXPORT_DATA'.face) = is_face'
          BY <5>1, <5>2
        <5> QED
          BY <2>1, <2>2, <3>3, <5>3 DEF Told, Decided
      <4> QED
        BY <2>1, <3>1, <4>1, <4>2 DEF Hardware!Tell
    <3>4. CASE ~Exported(EXPORT_DATA.done) /\ ~Exported(EXPORT_DATA'.done)
      BY <2>1, <3>4 DEF Told
    <3> QED
      BY <3>2, <3>3, <3>4
  <2>3. CASE pc # "returned"
    <3>1. ~Exported(EXPORT_DATA'.done)
      BY <2>1, <2>3, NothingExported
    <3>2. Told' = <<>>
      BY <3>1 DEF Told
    <3>3. CASE pc = "spin"
      <4>1. Decided = <<>>
        BY <3>3 DEF Decided
      <4> QED
        BY <2>1, <3>2, <4>1 DEF Hardware!TakeBack
    <3>4. CASE pc # "spin"
      <4>1. ~Exported(EXPORT_DATA.done)
        BY <2>3, <3>4 DEF TakenBack, IInv, FirmwareTypeOK, Labels
      <4> QED
        BY <2>1, <3>2, <4>1 DEF Told
    <3> QED
      BY <3>3, <3>4
  <2> QED
    BY <2>2, <2>3
<1>6. CASE Camera
  BY <1>6 DEF Camera, firmware, Classified, Decided, Told
<1>7. CASE Reset
  <2>1. Decided' = <<>>
    BY <1>7 DEF Reset, Restart, Decided
  <2>2. Export
    BY <1>7 DEF Reset, ResetEdge
  <2>3. CASE ~Exported(EXPORT_DATA'.done)
    <3>1. Told' = <<>>
      BY <2>3 DEF Told
    <3>2. Told = <<>> \/ Decided = <<>>
      <4>1. CASE pc = "spin"
        BY <4>1 DEF Decided
      <4>2. CASE pc \in {"compare", "publish", "signal"}
        BY <4>2 DEF TakenBack, Told
      <4>3. CASE pc = "returned"
        <5>1. Reg[HW_DONE] = One
          BY <4>3 DEF IInv, MarksFollow
        <5>2. Exported(EXPORT_DATA'.done)
          BY <2>2, <5>1, ExportType, BlankWords DEF IInv, FirmwareTypeOK
        <5> QED
          BY <2>3, <5>2
      <4> QED
        BY <4>1, <4>2, <4>3 DEF IInv, FirmwareTypeOK, Labels
    <3> QED
      BY <2>1, <3>1, <3>2 DEF Hardware!Reset
  <2>4. CASE Exported(EXPORT_DATA'.done)
    <3>1. pc = "returned"
      BY <2>2, <2>4, NothingExported
    <3>2. Decided = <<is_face>> /\ is_face \in BOOLEAN /\ verdict = is_face
      BY <3>1 DEF Decided, IInv, FirmwareTypeOK, MarksFollow
    <3>3. Exported(EXPORT_DATA'.face) <=> verdict
      BY <2>2, <2>4, PairMatches
    <3>4. Exported(EXPORT_DATA'.face) \in BOOLEAN
      BY DEF Exported
    <3>5. Exported(EXPORT_DATA'.face) = is_face
      BY <3>2, <3>3, <3>4
    <3>6. Told' = Decided
      BY <2>4, <3>2, <3>5 DEF Told
    <3> QED
      BY <2>1, <3>6 DEF Hardware!Reset
  <2> QED
    BY <2>3, <2>4
<1>8. CASE UNCHANGED vars
  BY <1>8 DEF vars, regVars, firmware, Decided, Told
<1> QED
  BY <1>1, <1>2, <1>3, <1>4, <1>5, <1>6, <1>7, <1>8 DEF Next, Firmware, Report

(* Firmware and slave implement the handshake: what the hardware is told   *)
(* is what main decided since the last reset, or what it decided before    *)
(* that reset for an edge more, and nothing is decided while it is told.   *)
THEOREM FirmwareShakesHands == Spec => ShakesHands
<1>1. Init => Hardware!Init
  BY DEF Init, RegInit, Hardware!Init, Hardware!None, Decided, Told, Exported
<1>2. IInv /\ TakenBack /\ [Next]_vars /\ IInv' => [Hardware!Next]_<<Decided, Told>>
  BY HandshakeStep
<1> QED
  BY <1>1, <1>2, Invariance, TakenBackHolds, PTL DEF Spec, ShakesHands, Hardware!Spec

(* What the two properties come to together: if the cascade turns the      *)
(* blank image down, and on the tables of the header it does               *)
(* (HaarSoftware_proofs, BlankIsTurnedDown), then no verdict of main is    *)
(* ever "face" and the hardware is never told of one, however often the    *)
(* board is reset and whatever stands before the camera.                   *)
NoFaceReported ==
  /\ ~is_face /\ ~verdict
  /\ Exported(EXPORT_DATA.done) => ~Exported(EXPORT_DATA.face)

THEOREM BoardNeverReportsAFace ==
  ASSUME ~IsFace([c \in CellRegs |-> Zero])
  PROVE  Spec => []NoFaceReported
<1> DEFINE Quiet == ~is_face /\ ~verdict
<1>1. Init => Quiet
  BY DEF Init
<1>2. ASSUME IInv, Quiet, [Next]_vars
      PROVE  Quiet'
  <2>1. CASE StartSeen
    BY <1>2, <2>1 DEF StartSeen
  <2>2. CASE ReadCell
    BY <1>2, <2>2 DEF ReadCell
  <2>3. CASE Decide
    <3>1. ImageSeen = [c \in CellRegs |-> Zero]
      BY <1>2 DEF ImageSeen, IInv, ImageIsBlank
    <3>2. is_face' = IsFace(ImageSeen) /\ verdict' = is_face'
      BY <2>3 DEF Decide
    <3> QED
      BY <3>1, <3>2
  <2>4. CASE Publish \/ Signal
    BY <1>2, <2>4 DEF Publish, Signal
  <2>5. CASE Clock \/ Camera
    BY <1>2, <2>5 DEF Clock, Camera, firmware
  <2>6. CASE Reset
    BY <1>2, <2>6 DEF Reset, Restart
  <2>7. CASE UNCHANGED vars
    BY <1>2, <2>7 DEF vars, firmware
  <2> QED
    BY <1>2, <2>1, <2>2, <2>3, <2>4, <2>5, <2>6, <2>7 DEF Next, Firmware, Report
<1>3. IInv /\ Quiet => NoFaceReported
  BY DEF IInv, DoneExportsVerdict, NoFaceReported
<1> QED
  BY <1>1, <1>2, <1>3, Invariance, PTL DEF Spec

=============================================================================
