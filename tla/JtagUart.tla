------------------------------ MODULE JtagUart ------------------------------
(***************************************************************************)
(* The interrupt-driven JTAG UART driver of the board support package: one *)
(* ring buffer per direction between the program's read() and write() and  *)
(* the device's FIFOs, and the device as far as the driver sees it: its    *)
(* FIFOs, flags and interrupt.  There is no operating system, so one       *)
(* program makes one call at a time, an interrupt routine runs between any *)
(* two of its steps and to its end, and the timer's alarm is an interrupt  *)
(* as well.  The host works at any time, also during an interrupt routine. *)
(*                                                                         *)
(* Bytes are numbered in the order the host sends, or the program writes,  *)
(* them, so a byte in the wrong place shows.                               *)
(***************************************************************************)
EXTENDS Integers, Sequences

CONSTANTS
  LEN,               \* ALTERA_AVALON_JTAG_UART_BUF_LEN (2048)
  Depth,             \* of each device FIFO (64)
  ReadThreshold,     \* the read FIFO interrupts with at most this much room (8),
  WriteThreshold,    \* the write FIFO with at most this many bytes (8)
  IntMax,            \* INT_MAX
  DefaultTimeout,    \* ALTERA_AVALON_JTAG_UART_DEFAULT_TIMEOUT (10)
  Timeouts,          \* arguments of TIOCSTIMEOUT
  MaxCall,           \* bound on the size of a call
  MaxBytes           \* bound on the bytes of a behaviour, both directions together

ASSUME SizeAssumption ==
  /\ LEN \in Nat /\ LEN >= 2
  /\ Depth \in Nat
  /\ ReadThreshold \in 0 .. Depth - 1 /\ WriteThreshold \in 0 .. Depth - 1
  /\ MaxCall \in Nat /\ MaxBytes \in Nat

ASSUME TimeoutAssumption ==
  /\ IntMax \in Nat /\ IntMax >= 4
  /\ DefaultTimeout \in 2 .. IntMax - 1
  /\ Timeouts \subseteq Int

VARIABLES
  sent, drained,                   \* host: bytes sent, bytes fetched
  AC, pause_irq,                   \* device: activity bit, the host has paused
  stored, rx_in, rx_out, rx_buf,   \* receiving: bytes taken from the device, ring
  wire, tx_in, tx_out, tx_buf,     \* transmitting: bytes given to the device, ring
  irq_enable,                      \* sp->irq_enable and the device's enables
  host_inactive, timeout,
  isr, writeIrq, avail, space,      \* interrupt routine and its locals
  pc, in, out, n, count, nonblock, \* the program's call and its locals
  moved,                           \* the call has moved bytes (ptr # buffer)
  delivered,                       \* bytes handed to the program, in order
  written                          \* number of bytes taken from the program

host    == <<sent, drained, AC, pause_irq>>
rx      == <<stored, rx_in, rx_out, rx_buf>>
tx      == <<wire, tx_in, tx_out, tx_buf>>
driver  == <<irq_enable, host_inactive, timeout>>
handler == <<isr, writeIrq, avail, space>>
locals  == <<in, out, n, count, nonblock, moved>>
program == <<pc, locals, delivered, written>>
vars    == <<host, rx, tx, driver, handler, program>>

Reading == {"read", "read copy", "read advance", "read wait", "read again", "read end"}
Writing == {"write", "write copy", "write advance", "write kick", "write wait", "write again", "write end"}

Index == 0 .. LEN - 1
RxFull == (rx_in + 1) % LEN = rx_out

Init ==
  /\ sent = 0 /\ drained = 0 /\ AC = FALSE /\ pause_irq = FALSE
  /\ stored = 0 /\ rx_in = 0 /\ rx_out = 0 /\ rx_buf = [k \in Index |-> 0]
  /\ wire = <<>> /\ tx_in = 0 /\ tx_out = 0 /\ tx_buf = [k \in Index |-> 0]
  /\ irq_enable = {"RE"}
  /\ host_inactive = 0
  /\ timeout \in {DefaultTimeout, IntMax}   \* IntMax if the alarm could not be set
  /\ isr = "off" /\ writeIrq = FALSE /\ avail = FALSE /\ space = 0
  /\ pc = "idle" /\ in = 0 /\ out = 0 /\ n = 0 /\ count = 0
  /\ nonblock = FALSE /\ moved = FALSE
  /\ delivered = <<>> /\ written = 0

(***************************************************************************)
(* The device, final_proj_soc_jtag_uart_0.v.  The host is told when the    *)
(* read FIFO is full and sends no more.  Sending and pausing are activity; *)
(* fetching is not.                                                        *)
(***************************************************************************)
ReadFifo  == sent - stored
WriteFifo == Len(wire) - drained

(* Bounds a behaviour: the bytes sent, written and given to a write call.  *)
Underway == sent + written + (IF pc \in Writing THEN count ELSE 0)

HostSend ==
  /\ Underway < MaxBytes /\ ReadFifo < Depth
  /\ sent' = sent + 1
  /\ AC' = TRUE
  /\ UNCHANGED <<drained, pause_irq, rx, tx, driver, handler, program>>

HostFetch ==
  /\ WriteFifo > 0
  /\ drained' = drained + 1
  /\ UNCHANGED <<sent, AC, pause_irq, rx, tx, driver, handler, program>>

HostPause ==
  /\ AC' = TRUE
  /\ pause_irq' = (pause_irq \/ ReadFifo > 0)
  /\ UNCHANGED <<sent, drained, rx, tx, driver, handler, program>>

(* Bytes in the read FIFO interrupt when it is almost full or when the     *)
(* host has paused since the data register was last read, and only then.   *)
RI == "RE" \in irq_enable /\ (pause_irq \/ Depth - ReadFifo <= ReadThreshold)
WI == "WE" \in irq_enable /\ WriteFifo <= WriteThreshold

(***************************************************************************)
(* altera_avalon_jtag_uart_irq.                                            *)
(***************************************************************************)
Interrupt ==
  /\ isr = "off" /\ (RI \/ WI)
  /\ isr' = "control"
  /\ UNCHANGED <<host, rx, tx, driver, writeIrq, avail, space, program>>

(* The locals of the loop are dead where the next round begins.            *)
ReadControl ==
  /\ isr = "control"
  /\ isr' = IF RI THEN "receive" ELSE IF WI THEN "transmit" ELSE "off"
  /\ writeIrq' = WI
  /\ space' = IF WI THEN Depth - WriteFifo ELSE 0
  /\ avail' = RI
  /\ UNCHANGED <<host, rx, tx, driver, program>>

(* Reading the data register takes a byte, tells whether there are more,   *)
(* and forgets that the host has paused.                                   *)
TakeByte ==
  /\ rx_buf' = [rx_buf EXCEPT ![rx_in] = stored + 1]
  /\ rx_in' = (rx_in + 1) % LEN
  /\ stored' = stored + 1
  /\ avail' = (ReadFifo > 1)
  /\ pause_irq' = FALSE
  /\ UNCHANGED <<sent, drained, AC, rx_out, tx, driver, isr, writeIrq, space, program>>

Receive == isr = "receive" /\ ~RxFull /\ ReadFifo > 0 /\ TakeByte

(* The loop ends on a full ring, with what the last read told, or on a     *)
(* read that finds no byte and forgets a pause all the same.               *)
ReceiveDoneAlwaysMasks ==
  /\ isr = "receive" /\ (RxFull \/ ReadFifo = 0)
  /\ irq_enable' = irq_enable \ {"RE"}
  /\ avail' = FALSE
  /\ pause_irq' = (pause_irq /\ RxFull)
  /\ isr' = IF writeIrq THEN "transmit" ELSE "control"
  /\ UNCHANGED <<sent, drained, AC, rx, tx, host_inactive, timeout, writeIrq, space, program>>

ReceiveDone ==
  /\ isr = "receive" /\ (RxFull \/ ReadFifo = 0)
  /\ irq_enable' = IF RxFull /\ avail THEN irq_enable \ {"RE"} ELSE irq_enable
  /\ avail' = FALSE
  /\ pause_irq' = (pause_irq /\ RxFull)
  /\ isr' = IF writeIrq THEN "transmit" ELSE "control"
  /\ UNCHANGED <<sent, drained, AC, rx, tx, host_inactive, timeout, writeIrq, space, program>>

(* A byte written to a full FIFO is dropped.                               *)
GiveByte ==
  /\ wire' = IF WriteFifo < Depth THEN Append(wire, tx_buf[tx_out]) ELSE wire
  /\ tx_out' = (tx_out + 1) % LEN
  /\ space' = space - 1
  /\ UNCHANGED <<host, rx, tx_in, tx_buf, driver, isr, writeIrq, avail, program>>

TransmitOneTooMany == isr = "transmit" /\ space >= 0 /\ tx_out # tx_in /\ GiveByte

Transmit == isr = "transmit" /\ space > 0 /\ tx_out # tx_in /\ GiveByte

TransmitDone ==
  /\ isr = "transmit" /\ (space = 0 \/ tx_out = tx_in)
  /\ irq_enable' = IF space > 0 THEN irq_enable \ {"WE"} ELSE irq_enable
  /\ isr' = "control" /\ writeIrq' = FALSE /\ space' = 0
  /\ UNCHANGED <<host, rx, tx, host_inactive, timeout, avail, program>>

Isr == Interrupt \/ ReadControl \/ Receive \/ ReceiveDone \/ Transmit \/ TransmitDone

(***************************************************************************)
(* altera_avalon_jtag_uart_timeout, once a second if the alarm was set.    *)
(***************************************************************************)
Alarm ==
  /\ isr = "off" /\ timeout # IntMax
  /\ host_inactive' = IF AC THEN 0
                      ELSE IF host_inactive < IntMax - 2 THEN host_inactive + 1 ELSE host_inactive
  /\ AC' = FALSE
  /\ UNCHANGED <<sent, drained, pause_irq, rx, tx, irq_enable, timeout, handler, program>>

GivenUp == host_inactive >= timeout

(***************************************************************************)
(* The program.  It runs while no interrupt routine does.                  *)
(***************************************************************************)
At(label) == pc = label /\ isr = "off"

Call(label, size) ==
  /\ At("idle")
  /\ pc' = label
  /\ count' = size
  /\ nonblock' \in BOOLEAN
  /\ UNCHANGED <<host, rx, tx, driver, handler, in, out, n, moved, delivered, written>>

CallRead  == \E size \in 0 .. MaxCall : Call("read", size)
CallWrite == \E size \in 0 .. MaxCall : Underway + size <= MaxBytes /\ Call("write", size)
CallClose == Call("close", 0)

(* TIOCSTIMEOUT of altera_avalon_jtag_uart_ioctl.                          *)
CallSetTimeout ==
  /\ At("idle") /\ timeout # IntMax
  /\ \E t \in Timeouts : timeout' = IF t >= 2 /\ t < IntMax THEN t ELSE IntMax - 1
  /\ UNCHANGED <<host, rx, tx, irq_enable, host_inactive, handler, program>>

(* The call is over and its locals are gone.                               *)
Return ==
  /\ pc' = "idle"
  /\ in' = 0 /\ out' = 0 /\ n' = 0 /\ count' = 0 /\ nonblock' = FALSE /\ moved' = FALSE
  /\ UNCHANGED <<host, rx, tx, host_inactive, timeout, handler, delivered, written>>

Goto(label) == pc' = label /\ UNCHANGED <<host, rx, tx, driver, handler, locals, delivered, written>>

AtMost(a, bound) == IF a > bound THEN bound ELSE a

(***************************************************************************)
(* altera_avalon_jtag_uart_read.                                           *)
(***************************************************************************)
ReadSnapshot ==
  /\ At("read") /\ count > 0
  /\ in' = rx_in /\ out' = rx_out
  /\ n' = AtMost(IF rx_in >= rx_out THEN rx_in - rx_out ELSE LEN - rx_out, count)
  /\ pc' = IF n' = 0 THEN "read wait" ELSE "read copy"
  /\ UNCHANGED <<host, rx, tx, driver, handler, count, nonblock, moved, delivered, written>>

ReadCopyFrom(first) ==
  /\ At("read copy")
  /\ delivered' = delivered \o [k \in 1 .. n |-> rx_buf[(first + k - 1) % LEN]]
  /\ moved' = TRUE
  /\ count' = count - n
  /\ pc' = "read advance"
  /\ UNCHANGED <<host, rx, tx, driver, handler, in, out, n, nonblock, written>>

ReadCopyFromNext == ReadCopyFrom(out + 1)
ReadCopy == ReadCopyFrom(out)

ReadAdvance ==
  /\ At("read advance")
  /\ rx_out' = (out + n) % LEN
  /\ pc' = IF count > 0 THEN "read" ELSE "read end"
  /\ UNCHANGED <<host, stored, rx_in, rx_buf, tx, driver, handler, locals, delivered, written>>

(* The ring is empty: return, or spin for a byte or for the host's loss.   *)
ReadWait ==
  /\ At("read wait")
  /\ \/ (moved \/ nonblock) /\ Goto("read end")
     \/ ~moved /\ ~nonblock /\ (in # rx_in \/ GivenUp) /\ Goto("read again")

ReadAgain == At("read again") /\ Goto(IF in = rx_in THEN "read end" ELSE "read")

ReadNothing == At("read") /\ count = 0 /\ Goto("read end")

ReadEndForgetsEnable == At("read end") /\ Return /\ UNCHANGED irq_enable

ReadEnd ==
  /\ At("read end")
  /\ irq_enable' = IF moved THEN irq_enable \cup {"RE"} ELSE irq_enable
  /\ Return

Read == ReadSnapshot \/ ReadCopy \/ ReadAdvance \/ ReadWait \/ ReadAgain \/ ReadNothing \/ ReadEnd

(***************************************************************************)
(* altera_avalon_jtag_uart_write.                                          *)
(***************************************************************************)
RoomAllSlots(i, o) == IF i < o THEN o - i ELSE LEN - i

(* One slot stays free: a full ring must not look like an empty one.       *)
Room(i, o) == IF i < o THEN o - 1 - i ELSE IF o > 0 THEN LEN - i ELSE LEN - 1 - i

WriteSnapshot ==
  /\ At("write") /\ count > 0
  /\ in' = tx_in /\ out' = tx_out
  /\ n' = AtMost(Room(tx_in, tx_out), count)
  /\ pc' = IF n' = 0 THEN "write kick" ELSE "write copy"
  /\ UNCHANGED <<host, rx, tx, driver, handler, count, nonblock, moved, delivered, written>>

WriteCopy ==
  /\ At("write copy")
  /\ tx_buf' = [k \in Index |-> IF k \in in .. in + n - 1 THEN written + 1 + k - in ELSE tx_buf[k]]
  /\ written' = written + n
  /\ moved' = TRUE
  /\ count' = count - n
  /\ pc' = "write advance"
  /\ UNCHANGED <<host, rx, wire, tx_in, tx_out, driver, handler, in, out, n, nonblock, delivered>>

WriteAdvance ==
  /\ At("write advance")
  /\ tx_in' = (in + n) % LEN
  /\ pc' = IF count > 0 THEN "write" ELSE "write kick"
  /\ UNCHANGED <<host, rx, wire, tx_out, tx_buf, driver, handler, locals, delivered, written>>

WriteNothing == At("write") /\ count = 0 /\ Goto("write kick")

(* Interrupts are disabled around the update of irq_enable.                *)
WriteKickOnlyWhenFull ==
  /\ At("write kick")
  /\ irq_enable' = IF count > 0 THEN irq_enable \cup {"WE"} ELSE irq_enable
  /\ pc' = IF count > 0 /\ ~nonblock THEN "write wait" ELSE "write end"
  /\ UNCHANGED <<host, rx, tx, host_inactive, timeout, handler, locals, delivered, written>>

WriteKick ==
  /\ At("write kick")
  /\ irq_enable' = irq_enable \cup {"WE"}
  /\ pc' = IF count > 0 /\ ~nonblock THEN "write wait" ELSE "write end"
  /\ UNCHANGED <<host, rx, tx, host_inactive, timeout, handler, locals, delivered, written>>

(* Spin for room or for the host's loss, and then go on only if the host   *)
(* has been active within the last second.                                 *)
WriteWait == At("write wait") /\ (out # tx_out \/ GivenUp) /\ Goto("write again")

WriteAgain == At("write again") /\ Goto(IF host_inactive # 0 THEN "write end" ELSE "write")

WriteEnd == At("write end") /\ Return /\ UNCHANGED irq_enable

Write ==
  \/ WriteSnapshot \/ WriteCopy \/ WriteAdvance \/ WriteNothing \/ WriteKick
  \/ WriteWait \/ WriteAgain \/ WriteEnd

(* altera_avalon_jtag_uart_close: wait until all is sent.                  *)
Close ==
  /\ At("close")
  /\ tx_out = tx_in \/ GivenUp \/ nonblock
  /\ Return /\ UNCHANGED irq_enable

Next ==
  \/ HostSend \/ HostFetch \/ HostPause
  \/ Isr \/ Alarm
  \/ CallRead \/ CallWrite \/ CallClose \/ CallSetTimeout
  \/ Read \/ Write \/ Close

Spec == Init /\ [][Next]_vars

(* The processor runs, interrupts are served, the alarm's among them, and  *)
(* a host fetches what the device holds.  Nothing makes it send or pause,  *)
(* or the program call.                                                    *)
FairSpec ==
  /\ Spec
  /\ WF_vars(Isr) /\ WF_vars(Alarm)
  /\ WF_vars(Read \/ Write \/ Close)
  /\ WF_vars(HostFetch)

(***************************************************************************)
(* Properties.                                                             *)
(***************************************************************************)
Labels == {"idle", "close"} \union Reading \union Writing

TypeOK ==
  /\ sent \in Nat /\ stored \in 0 .. sent
  /\ drained \in 0 .. Len(wire) /\ wire \in Seq(Nat) /\ delivered \in Seq(Nat)
  /\ ReadFifo <= Depth /\ space + WriteFifo <= Depth
  /\ AC \in BOOLEAN /\ pause_irq \in BOOLEAN /\ avail \in BOOLEAN /\ nonblock \in BOOLEAN /\ moved \in BOOLEAN
  /\ rx_in \in Index /\ rx_out \in Index /\ tx_in \in Index /\ tx_out \in Index
  /\ rx_buf \in [Index -> Nat] /\ tx_buf \in [Index -> Nat]
  /\ irq_enable \subseteq {"RE", "WE"} /\ writeIrq \in BOOLEAN
  /\ host_inactive \in 0 .. IntMax - 2 /\ timeout \in 2 .. IntMax
  /\ isr \in {"off", "control", "receive", "transmit"} /\ space \in 0 .. Depth
  /\ pc \in Labels /\ in \in Index /\ out \in Index /\ n \in 0 .. LEN - 1 /\ count \in 0 .. MaxCall
  /\ written \in Nat /\ Underway <= MaxBytes

(* Both directions are streams that lose, repeat and reorder nothing, with *)
(* at most a device FIFO and a ring less one slot of bytes underway.       *)
RxStream == INSTANCE ByteStream WITH Capacity <- Depth + LEN - 1, entered <- sent, left <- delivered
TxStream == INSTANCE ByteStream WITH Capacity <- LEN - 1, entered <- written, left <- wire

Receives  == RxStream!Spec
Transmits == TxStream!Spec

(* Masking the read interrupt loses no byte's wakeup: it is masked only    *)
(* while the ring is full, or while a read that has taken bytes is on its  *)
(* way to unmask it.                                                       *)
MaskedOnlyWhenFull ==
  "RE" \notin irq_enable =>
    RxFull \/ moved \/ pc = "read advance"

(* Nor does the transmit interrupt: while the ring holds bytes it is       *)
(* enabled, or a write is on its way to enable it.                         *)
QueuedIsArmed ==
  tx_in # tx_out =>
    "WE" \in irq_enable \/ pc \in {"write", "write copy", "write advance", "write kick"}

(* What the program wrote reaches a host that fetches: in the end, after   *)
(* the bytes a behaviour has at most, nothing is left behind.              *)
WrittenIsFetched == <>[](drained = written)

(* No call waits forever.  A write or a close waits for room in the ring,  *)
(* which a host that fetches makes.  A read that waits for bytes the host  *)
(* has sent waits for an interrupt that may be withheld until the host     *)
(* pauses: either it does, or the alarm takes it for gone, unless it never *)
(* does (a timeout that host_inactive cannot reach, or no alarm).          *)
Owed == pc = "read wait" /\ sent > Len(delivered)
CallsEnd ==
  /\ (pc \in {"write", "write wait", "close"} \/ (Owed /\ timeout < IntMax - 1)) ~> (pc = "idle")
  /\ WF_vars(HostPause) => (Owed ~> (pc = "idle"))
=============================================================================
