---------------------------- MODULE FaceFirmware ----------------------------
(***************************************************************************)
(* The firmware's main on top of AvalonRegs: wait for SW_START, read the   *)
(* image cell by cell, publish the verdict, then tell the hardware that    *)
(* the verdict is there.  Every access is one clock edge of the slave; the *)
(* camera and a reset, which restarts the processor as well, come at any   *)
(* time.  The cascade itself is IsFace (HaarSoftware models it).           *)
(***************************************************************************)
EXTENDS AvalonRegs

CONSTANTS
  IsFace(_),    \* verdict on an image
  MaxResets     \* bound on the resets of a behaviour

ASSUME VerdictAssumption == \A image \in [CellRegs -> Words] : IsFace(image) \in BOOLEAN

VARIABLES
  pc,
  seen,         \* image read so far, blank where not yet read
  next,         \* next cell to read
  is_face,
  resets,
  verdict       \* history: the last verdict reached, resets included

firmware == <<pc, seen, next, is_face>>
vars == <<regVars, firmware, resets, verdict>>

ImageSeen == [c \in CellRegs |-> seen[c]]

Restart ==
  /\ pc' = "spin"
  /\ seen' = [c \in CellRegs |-> Zero]
  /\ next' = 0
  /\ is_face' = FALSE

Init ==
  /\ RegInit
  /\ pc = "spin" /\ seen = [c \in CellRegs |-> Zero] /\ next = 0 /\ is_face = FALSE
  /\ resets = 0
  /\ verdict = FALSE

(* while (!MEM_PTR[509]);                                                  *)
StartSeen ==
  /\ pc = "spin" /\ Reg[SW_START] # Zero
  /\ IdleEdge
  /\ pc' = "compare"
  /\ UNCHANGED <<seen, next, is_face, resets, verdict>>

(* The source reads a cell once for every rectangle that covers it.  The   *)
(* cells change by a write of the firmware or by a reset only, and neither *)
(* falls between these reads, so that one read of each stands for all.     *)
ReadCell ==
  /\ pc = "compare" /\ next < Cells
  /\ IdleEdge
  /\ seen' = [seen EXCEPT ![next] = Reg[next]]
  /\ next' = next + 1
  /\ UNCHANGED <<pc, is_face, resets, verdict>>

Decide ==
  /\ pc = "compare" /\ next = Cells
  /\ IdleEdge
  /\ is_face' = IsFace(ImageSeen)
  /\ verdict' = is_face'
  /\ pc' = "publish"
  /\ UNCHANGED <<seen, next, resets>>

(* MEM_PTR[511] = is_face;                                                 *)
Publish ==
  /\ pc = "publish"
  /\ WriteEdge(IS_FACE, WholeWord, IF is_face THEN One ELSE Zero)
  /\ pc' = "signal"
  /\ UNCHANGED <<seen, next, is_face, resets, verdict>>

(* MEM_PTR[510] = 1;                                                       *)
Signal ==
  /\ pc = "signal"
  /\ WriteEdge(HW_DONE, WholeWord, One)
  /\ pc' = "returned"
  /\ UNCHANGED <<seen, next, is_face, resets, verdict>>

SignalFirst ==
  /\ pc = "publish"
  /\ WriteEdge(HW_DONE, WholeWord, One)
  /\ pc' = "signal"
  /\ UNCHANGED <<seen, next, is_face, resets, verdict>>

PublishLast ==
  /\ pc = "signal"
  /\ WriteEdge(IS_FACE, WholeWord, IF is_face THEN One ELSE Zero)
  /\ pc' = "returned"
  /\ UNCHANGED <<seen, next, is_face, resets, verdict>>

ReportSignalFirst == SignalFirst \/ PublishLast
ReportNoSignal == Publish
Report == Publish \/ Signal

Firmware == StartSeen \/ ReadCell \/ Decide \/ Report

(***************************************************************************)
(* The surroundings.                                                       *)
(***************************************************************************)
Clock == IdleEdge /\ UNCHANGED <<firmware, resets, verdict>>

Camera ==
  /\ \E word \in ClassifierWords : Classified(word)
  /\ UNCHANGED <<firmware, resets, verdict>>

Reset ==
  /\ resets < MaxResets
  /\ ResetEdge
  /\ Restart
  /\ resets' = resets + 1
  /\ UNCHANGED verdict

Next == Firmware \/ Clock \/ Camera \/ Reset

Spec == Init /\ [][Next]_vars

(* The slave is clocked, the processor runs, the camera keeps delivering.  *)
FairSpec == Spec /\ WF_vars(Firmware) /\ WF_vars(Clock) /\ WF_vars(Camera)

(***************************************************************************)
(* Properties.                                                             *)
(***************************************************************************)
Exported(half) == half # <<0, 0>>

(* The hardware never reads a verdict that is not there: once HW_DONE is   *)
(* exported, the exported is_face is the last verdict the firmware reached, *)
(* also in the edge after a reset, which still shows the old pair.         *)
DoneExportsVerdict ==
  Exported(EXPORT_DATA.done) => (Exported(EXPORT_DATA.face) <=> verdict)

(* The firmware only ever sees the image the reset left: the slave stores  *)
(* the classifier's words on the processor's writes alone, and the first   *)
(* of these comes after the last cell has been read.  main.c:42 calls the  *)
(* buffer "calculated by hardware".                                        *)
ImageIsBlank == \A c \in CellRegs : seen[c] = Zero

(* To the hardware, the exported pair is a handshake: no verdict shows up  *)
(* that was not decided, none goes before a reset, and none is left of an  *)
(* earlier run when the next is decided.                                   *)
Decided == IF pc \in {"publish", "signal", "returned"} THEN <<is_face>> ELSE <<>>
Told == IF Exported(EXPORT_DATA.done) THEN <<Exported(EXPORT_DATA.face)>> ELSE <<>>

Hardware == INSTANCE Handshake WITH Verdicts <- BOOLEAN, decided <- Decided, told <- Told

ShakesHands == Hardware!Spec

(* In the end the hardware is told, unless a reset has taken the start     *)
(* signal back for good: the classifier's DONE is up already and need not  *)
(* drive the cleared register again.                                       *)
StartLost == DONE /\ Reg[SW_START] = Zero

VerdictIsSignalled ==
  <>[]~StartLost => <>[](Exported(EXPORT_DATA.done) /\ pc = "returned")

=============================================================================
