----------------------------- MODULE AvalonRegs -----------------------------
(***************************************************************************)
(* avalon_mm_interface.sv: the register file the processor and the         *)
(* classifier share.  One operator per clock edge the block can see, with  *)
(* the byte lanes of a word kept apart.                                    *)
(*                                                                         *)
(* Two things the source leaves open are chosen as follows.  The classifier*)
(* connects an array of 400 words to the int "integral": its value is any  *)
(* word.  It never drives integral_indx, which the build ties low: Index   *)
(* is 0.  Reg[509] is assigned by the reset and driven by the classifier:  *)
(* after a reset it holds either.                                          *)
(***************************************************************************)
EXTENDS Naturals

CONSTANTS
  Cells,       \* cells of the image, registers 0 .. Cells-1 (400)
  SW_START, HW_DONE, IS_FACE,   \* registers 509, 510 and 511
  Bytes,       \* values of a byte the model tells apart, 0 and 1 among them
  ClassifierWords,   \* words the classifier may produce
  Index        \* the undriven integral_indx

CellRegs  == 0 .. Cells - 1
Registers == CellRegs \cup {SW_START, HW_DONE, IS_FACE}
Lanes     == 0 .. 3
Words     == [Lanes -> Bytes]

ASSUME RegisterAssumption ==
  /\ Cells \in Nat \ {0}
  /\ {SW_START, HW_DONE, IS_FACE} \cap CellRegs = {}
  /\ SW_START # HW_DONE /\ HW_DONE # IS_FACE /\ SW_START # IS_FACE
  /\ {0, 1} \subseteq Bytes
  /\ ClassifierWords \subseteq Words
  /\ Index \in CellRegs

VARIABLES
  Reg,
  EXPORT_DATA,   \* the low halves of HW_DONE and IS_FACE
  DONE,          \* the classifier's DONE
  integral       \* the classifier's word for Reg[Index]

regVars == <<Reg, EXPORT_DATA, DONE, integral>>

Zero == [l \in Lanes |-> 0]
One  == [Zero EXCEPT ![0] = 1]

Half(word) == <<word[0], word[1]>>

(* The byte enables that write; any other pattern writes nothing.          *)
WholeWord == Lanes
Enables   == {WholeWord, {2, 3}, {0, 1}} \cup {{l} : l \in Lanes}

RegTypeOK ==
  /\ Reg \in [Registers -> Words]
  /\ EXPORT_DATA \in [done : Bytes \X Bytes, face : Bytes \X Bytes]
  /\ DONE \in BOOLEAN
  /\ integral \in Words

RegInit ==
  /\ Reg = [r \in Registers |-> Zero]
  /\ EXPORT_DATA = [done |-> <<0, 0>>, face |-> <<0, 0>>]
  /\ DONE = FALSE
  /\ integral = Zero

(* Every edge, that of a reset included, exports what the registers held.  *)
Export == EXPORT_DATA' = [done |-> Half(Reg[HW_DONE]), face |-> Half(Reg[IS_FACE])]

ClearReg    == [r \in Registers |-> Zero]
ClearMarks  == [Reg EXCEPT ![HW_DONE] = Zero, ![IS_FACE] = Zero]

ResetEdgeKeepsCells ==
  /\ \E start \in {Zero, Reg[SW_START]} :
       Reg' = [ClearMarks EXCEPT ![SW_START] = start]
  /\ Export
  /\ UNCHANGED <<DONE, integral>>

ResetEdge ==
  /\ \E start \in {Zero, Reg[SW_START]} :
       Reg' = [ClearReg EXCEPT ![SW_START] = start]
  /\ Export
  /\ UNCHANGED <<DONE, integral>>

Merge(old, en, data) == [l \in Lanes |-> IF en \in Enables /\ l \in en THEN data[l] ELSE old[l]]

(* A write also stores the classifier's word, before the addressed         *)
(* register takes the new lanes.                                           *)
WriteEdge(addr, en, data) ==
  /\ LET stored == [Reg EXCEPT ![Index] = integral]
     IN  Reg' = [stored EXCEPT ![addr] = Merge(stored[addr], en, data)]
  /\ Export
  /\ UNCHANGED <<DONE, integral>>

IdleEdge == Export /\ UNCHANGED <<Reg, DONE, integral>>

(* A pixel reaches the classifier, which raises DONE whatever it has seen. *)
(* Only the first rise is sure to reach the register: DONE never falls, so *)
(* a SW_START that a reset cleared may or may not be driven again.         *)
Classified(word) ==
  /\ DONE' = TRUE
  /\ \E start \in {One} \cup (IF DONE THEN {Reg[SW_START]} ELSE {}) :
       Reg' = [Reg EXCEPT ![SW_START] = start]
  /\ integral' = word
  /\ UNCHANGED EXPORT_DATA
=============================================================================
