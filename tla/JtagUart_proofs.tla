-------------------------- MODULE JtagUart_proofs --------------------------
(***************************************************************************)
(* The JTAG UART driver moves every byte once and in order and forgets no  *)
(* interrupt, for every size of the rings and of the device's FIFOs,       *)
(* whatever the host, the alarm and the interrupt routine do between two   *)
(* steps of a call.                                                        *)
(***************************************************************************)
EXTENDS JtagUart, TLAPS

(* What a ring with these indices holds, and the slot of its k-th byte.    *)
Used(i, o) == IF i >= o THEN i - o ELSE i - o + LEN
Slot(o, k) == IF o + k < LEN THEN o + k ELSE o + k - LEN

(* A byte copied for the program stays in the ring until rx_out advances;  *)
(* one the program copied in counts only when tx_in does.                  *)
Gone    == IF pc = "read advance" THEN Len(delivered) - n ELSE Len(delivered)
Pending == IF pc = "write advance" THEN n ELSE 0

RxRing ==
  /\ stored = Gone + Used(rx_in, rx_out)
  /\ \A k \in 0 .. Used(rx_in, rx_out) - 1 : rx_buf[Slot(rx_out, k)] = Gone + 1 + k
  /\ \A b \in 1 .. Len(delivered) : delivered[b] = b

TxRing ==
  /\ written = Len(wire) + Used(tx_in, tx_out) + Pending
  /\ \A k \in 0 .. Used(tx_in, tx_out) + Pending - 1 : tx_buf[Slot(tx_out, k)] = Len(wire) + 1 + k
  /\ \A b \in 1 .. Len(wire) : wire[b] = b

(* What a call relies on while interrupt routines run between its steps.   *)
ReadCall ==
  /\ pc \in {"read copy", "read advance"} =>
       out = rx_out /\ n \in 1 .. LEN - out /\ n <= Used(rx_in, rx_out)
  /\ pc = "read copy" => n <= count
  /\ pc = "read advance" => moved
  /\ pc = "idle" => ~moved

WriteCall ==
  /\ pc \in {"write copy", "write advance"} =>
       in = tx_in /\ n \in 1 .. LEN - in /\ n < LEN - Used(tx_in, tx_out)
  /\ pc = "write copy" => n <= count

RxArmed == "RE" \notin irq_enable => RxFull \/ (moved /\ pc \in Reading)

Flags == /\ AC \in BOOLEAN /\ pause_irq \in BOOLEAN /\ avail \in BOOLEAN /\ writeIrq \in BOOLEAN
         /\ nonblock \in BOOLEAN /\ moved \in BOOLEAN

Numbers ==
  /\ sent \in Nat /\ stored \in 0 .. sent
  /\ drained \in 0 .. Len(wire) /\ wire \in Seq(Nat) /\ delivered \in Seq(Nat)
  /\ rx_in \in Index /\ rx_out \in Index /\ tx_in \in Index /\ tx_out \in Index
  /\ rx_buf \in [Index -> Nat] /\ tx_buf \in [Index -> Nat]
  /\ irq_enable \subseteq {"RE", "WE"}
  /\ host_inactive \in 0 .. IntMax - 2 /\ timeout \in 2 .. IntMax
  /\ isr \in {"off", "control", "receive", "transmit"} /\ space \in 0 .. Depth
  /\ in \in Index /\ out \in Index /\ n \in 0 .. LEN - 1 /\ count \in 0 .. MaxCall
  /\ written \in Nat

(* What the device's FIFOs have room for, and the bound on a behaviour.    *)
Bounded == ReadFifo <= Depth /\ space + WriteFifo <= Depth /\ Underway <= MaxBytes

IInv == TypeOK /\ RxRing /\ TxRing /\ ReadCall /\ WriteCall /\ RxArmed /\ QueuedIsArmed

(***************************************************************************)
(* The arithmetic of a ring.                                               *)
(***************************************************************************)
LEMMA ModSmall ==
  ASSUME NEW a \in 0 .. 2 * LEN - 1
  PROVE  a % LEN = IF a < LEN THEN a ELSE a - LEN
  <1> USE SizeAssumption
  <1>1. CASE a < LEN
    BY <1>1
  <1>2. CASE a >= LEN
    BY <1>2
  <1> QED
    BY <1>1, <1>2

LEMMA Concatenation ==
  ASSUME NEW s \in Seq(Nat), NEW t \in Seq(Nat)
  PROVE  /\ Len(s \o t) = Len(s) + Len(t)
         /\ \A k \in 1 .. Len(s) : (s \o t)[k] = s[k]
         /\ \A k \in 1 .. Len(t) : (s \o t)[Len(s) + k] = t[k]
  OBVIOUS

LEMMA ZeroIndex == 0 \in Index /\ 0 \in 0 .. LEN - 1 /\ 0 \in 0 .. MaxCall
  BY SizeAssumption DEF Index

LEMMA RingBounds ==
  ASSUME NEW i \in Index, NEW o \in Index
  PROVE  /\ Used(i, o) \in 0 .. LEN - 1
         /\ Used(i, o) = 0 <=> i = o
         /\ (i + 1) % LEN \in Index
         /\ (i + 1) % LEN = o <=> Used(i, o) = LEN - 1
         /\ \A k \in 0 .. LEN - 1 : Slot(o, k) \in Index
  <1>1. LEN \in Nat /\ LEN >= 2 /\ i \in 0 .. LEN - 1 /\ o \in 0 .. LEN - 1
    BY SizeAssumption DEF Index
  <1>2. (i + 1) % LEN = IF i + 1 < LEN THEN i + 1 ELSE i + 1 - LEN
    BY <1>1, ModSmall
  <1>3. Used(i, o) \in 0 .. LEN - 1 /\ (Used(i, o) = 0 <=> i = o)
    BY <1>1 DEF Used
  <1>4. (i + 1) % LEN \in Index /\ ((i + 1) % LEN = o <=> Used(i, o) = LEN - 1)
    BY <1>1, <1>2 DEF Used, Index
  <1>5. \A k \in 0 .. LEN - 1 : Slot(o, k) \in Index
    BY <1>1 DEF Slot, Index
  <1> QED
    BY <1>3, <1>4, <1>5

(* Putting m bytes in, without going past the end of the buffer or filling *)
(* the last slot, leaves those that are there in place.                    *)
LEMMA RingPut ==
  ASSUME NEW i \in Index, NEW o \in Index, NEW m \in 1 .. LEN - i, m < LEN - Used(i, o)
  PROVE  /\ (i + m) % LEN \in Index
         /\ Used((i + m) % LEN, o) = Used(i, o) + m
         /\ \A k \in 0 .. m - 1 : Slot(o, Used(i, o) + k) = i + k
         /\ \A k \in 0 .. Used(i, o) - 1 : Slot(o, k) \notin i .. i + m - 1
  <1> USE SizeAssumption
  <1>1. (i + m) % LEN = IF i + m < LEN THEN i + m ELSE i + m - LEN
    BY ModSmall DEF Index
  <1> QED
    BY <1>1 DEF Used, Slot, Index

LEMMA RingPutOne ==
  ASSUME NEW i \in Index, NEW o \in Index, Used(i, o) < LEN - 1
  PROVE  /\ (i + 1) % LEN \in Index
         /\ Used((i + 1) % LEN, o) = Used(i, o) + 1
         /\ Slot(o, Used(i, o)) = i
         /\ \A k \in 0 .. Used(i, o) - 1 : Slot(o, k) # i
  <1> USE SizeAssumption
  <1>1. (i + 1) % LEN = IF i + 1 < LEN THEN i + 1 ELSE i + 1 - LEN
    BY ModSmall DEF Index
  <1> QED
    BY <1>1 DEF Used, Slot, Index

(* Taking m bytes out, without going past the end of the buffer, makes the *)
(* byte after them the first.                                              *)
LEMMA RingTake ==
  ASSUME NEW i \in Index, NEW o \in Index, NEW m \in 1 .. LEN - o, m <= Used(i, o)
  PROVE  /\ (o + m) % LEN \in Index
         /\ Used(i, (o + m) % LEN) = Used(i, o) - m
         /\ \A k \in 0 .. LEN - 1 - m : Slot((o + m) % LEN, k) = Slot(o, k + m)
         /\ \A k \in 0 .. m - 1 : (o + k) % LEN = Slot(o, k)
  <1> USE SizeAssumption
  <1>1. (o + m) % LEN = IF o + m < LEN THEN o + m ELSE o + m - LEN
    BY ModSmall DEF Index
  <1>2. \A k \in 0 .. m - 1 : (o + k) % LEN = o + k
    BY ModSmall DEF Index
  <1> QED
    BY <1>1, <1>2 DEF Used, Slot, Index

(* The parts of TypeOK, which different provers reason about.         *)
LEMMA Types == TypeOK <=> Flags /\ Numbers /\ Bounded /\ pc \in Labels
  BY DEF TypeOK, Flags, Numbers, Bounded

LEMMA InitInv == Init => IInv
  <1> SUFFICES ASSUME Init PROVE IInv
    OBVIOUS
  <1> USE SizeAssumption, TimeoutAssumption DEF Init
  <1>1. TypeOK
    <2>1. Flags
      BY Zenon DEF Flags
    <2>2. Numbers
      BY DEF Numbers, Index
    <2>3. pc \in Labels
      BY DEF Labels
    <2>4. Bounded
      BY DEF Bounded, ReadFifo, WriteFifo, Underway, Writing
    <2> QED
      BY <2>1, <2>2, <2>3, <2>4, Types
  <1>2. RxRing /\ TxRing
    BY DEF RxRing, TxRing, Gone, Pending, Used
  <1>3. ReadCall /\ WriteCall /\ RxArmed /\ QueuedIsArmed
    BY DEF ReadCall, WriteCall, RxArmed, QueuedIsArmed
  <1> QED
    BY <1>1, <1>2, <1>3 DEF IInv

(***************************************************************************)
(* Types.                                                                  *)
(***************************************************************************)
LEMMA HostTypes ==
  ASSUME Numbers, HostSend \/ HostFetch \/ HostPause \/ Alarm
  PROVE  Numbers'
  <1> USE SizeAssumption, TimeoutAssumption DEF Numbers, host, rx, tx, driver, handler, program, locals
  <1>1. CASE HostSend
    BY <1>1, SMTT(40) DEF HostSend
  <1>2. CASE HostFetch
    BY <1>2, SMTT(40) DEF HostFetch, WriteFifo
  <1>3. CASE HostPause
    BY <1>3 DEF HostPause
  <1>4. CASE Alarm
    BY <1>4, SMTT(40) DEF Alarm
  <1> QED
    BY <1>1, <1>2, <1>3, <1>4

(* The device has room for every byte it is given.                         *)
LEMMA GivesByte ==
  ASSUME IInv, Transmit
  PROVE  wire' = Append(wire, tx_buf[tx_out]) /\ WriteFifo < Depth
  <1>1. space \in Nat /\ space > 0 /\ space + WriteFifo <= Depth
    BY Types DEF IInv, Numbers, Bounded, Transmit
  <1>2. WriteFifo \in Int /\ Depth \in Int
    BY Types, SizeAssumption DEF IInv, Numbers, WriteFifo
  <1>3. WriteFifo < Depth
    BY <1>1, <1>2
  <1> QED
    BY <1>3 DEF Transmit, GiveByte

LEMMA IsrTypes ==
  ASSUME IInv, Numbers, Isr
  PROVE  Numbers'
  <1> USE SizeAssumption DEF Numbers, host, rx, tx, driver, handler, program, locals
  <1>1. CASE Interrupt
    BY <1>1 DEF Interrupt
  <1>2. CASE ReadControl
    <2>1. WriteFifo \in Nat
      BY DEF WriteFifo
    <2> QED
      BY <1>2, <2>1, SMTT(40) DEF ReadControl, RI, WI
  <1>3. CASE Receive
    <2>1. rx_in' \in Index
      BY <1>3, RingBounds DEF Receive, TakeByte
    <2>2. stored' \in 0 .. sent
      BY <1>3 DEF Receive, TakeByte, ReadFifo
    <2>3. rx_buf' \in [Index -> Nat]
      BY <1>3 DEF Receive, TakeByte
    <2>4. UNCHANGED <<sent, drained, rx_out, tx, driver, isr, space, program>>
      BY <1>3 DEF Receive, TakeByte
    <2> QED
      BY <2>1, <2>2, <2>3, <2>4
  <1>4. CASE ReceiveDone
    BY <1>4 DEF ReceiveDone
  <1>5. CASE Transmit
    <2>1. tx_out' \in Index
      BY <1>5, RingBounds DEF Transmit, GiveByte
    <2>2. wire' \in Seq(Nat) /\ Len(wire') = Len(wire) + 1
      <3>1. wire \in Seq(Nat) /\ tx_buf[tx_out] \in Nat
        OBVIOUS
      <3>2. wire' = Append(wire, tx_buf[tx_out])
        BY <1>5, GivesByte
      <3> QED
        BY <3>1, <3>2
    <2>3. space' \in 0 .. Depth
      BY <1>5 DEF Transmit, GiveByte
    <2>4. UNCHANGED <<host, rx, tx_in, tx_buf, driver, isr, program>>
      BY <1>5 DEF Transmit, GiveByte
    <2>5. drained' \in 0 .. Len(wire')
      BY <2>2, <2>4
    <2> QED
      BY <2>1, <2>2, <2>3, <2>4, <2>5
  <1>6. CASE TransmitDone
    BY <1>6, SMTT(40) DEF TransmitDone
  <1> QED
    BY <1>1, <1>2, <1>3, <1>4, <1>5, <1>6 DEF Isr

LEMMA CallTypes ==
  ASSUME Numbers, CallRead \/ CallWrite \/ CallClose \/ CallSetTimeout \/ Close
  PROVE  Numbers'
  <1> USE SizeAssumption, TimeoutAssumption DEF Numbers, host, rx, tx, driver, handler, program, locals
  <1>1. CASE CallRead \/ CallWrite \/ CallClose
    <2>1. count' \in 0 .. MaxCall
      BY <1>1, ZeroIndex DEF CallRead, CallWrite, CallClose, Call
    <2>2. UNCHANGED <<host, rx, tx, driver, handler, in, out, n, delivered, written>>
      BY <1>1 DEF CallRead, CallWrite, CallClose, Call
    <2> QED
      BY <2>1, <2>2
  <1>2. CASE CallSetTimeout
    <2>1. timeout' \in 2 .. IntMax
      BY <1>2 DEF CallSetTimeout
    <2> QED
      BY <1>2, <2>1 DEF CallSetTimeout
  <1>3. CASE Close
    BY <1>3, ZeroIndex DEF Close, Return
  <1> QED
    BY <1>1, <1>2, <1>3

LEMMA ReadTypes ==
  ASSUME IInv, Numbers, Read
  PROVE  Numbers'
  <1> USE DEF host, rx, tx, driver, handler, locals
  <1>1. CASE ReadSnapshot
    <2>1. n' \in 0 .. LEN - 1
      <3>1. rx_in \in Index /\ rx_out \in Index /\ count \in 0 .. MaxCall
        BY DEF Numbers
      <3>2. n' = AtMost(IF rx_in >= rx_out THEN rx_in - rx_out ELSE LEN - rx_out, count)
        BY <1>1 DEF ReadSnapshot
      <3> QED
        BY <3>1, <3>2, SizeAssumption DEF AtMost, Index
    <2>2. in' = rx_in /\ out' = rx_out
      BY <1>1 DEF ReadSnapshot
    <2>3. UNCHANGED <<host, rx, tx, driver, handler, count, delivered, written>>
      BY <1>1 DEF ReadSnapshot
    <2> QED
      BY <2>1, <2>2, <2>3 DEF Numbers
  <1>2. CASE ReadCopy
    <2>1. n \in 1 .. LEN - out /\ n <= count /\ n \in 0 .. LEN - 1
      <3>1. pc = "read copy"
        BY <1>2 DEF ReadCopy, ReadCopyFrom, At
      <3>2. n \in 1 .. LEN - out /\ n <= count
        BY <3>1 DEF IInv, ReadCall
      <3> QED
        BY <3>2 DEF Numbers
    <2>2. \A k \in 1 .. n : (out + k - 1) % LEN \in Index
      <3>1. out \in Index
        BY DEF Numbers
      <3> QED
        BY <2>1, <3>1, ModSmall, SizeAssumption DEF Index
    <2>3. \A k \in 1 .. n : rx_buf[(out + k - 1) % LEN] \in Nat
      BY <2>2 DEF Numbers
    <2>4. [k \in 1 .. n |-> rx_buf[(out + k - 1) % LEN]] \in Seq(Nat)
      BY <2>1, <2>3
    <2>5. delivered' \in Seq(Nat)
      <3>1. delivered' = delivered \o [k \in 1 .. n |-> rx_buf[(out + k - 1) % LEN]]
        BY <1>2 DEF ReadCopy, ReadCopyFrom
      <3>2. delivered \in Seq(Nat)
        BY DEF Numbers
      <3> QED
        BY <2>4, <3>1, <3>2
    <2>6. count' \in 0 .. MaxCall
      <3>1. count' = count - n /\ count \in 0 .. MaxCall
        BY <1>2 DEF ReadCopy, ReadCopyFrom, Numbers
      <3> QED
        BY <2>1, <3>1, SizeAssumption
    <2>7. UNCHANGED <<host, rx, tx, driver, handler, in, out, n, written>>
      BY <1>2 DEF ReadCopy, ReadCopyFrom
    <2> QED
      BY <2>5, <2>6, <2>7 DEF Numbers
  <1>3. CASE ReadAdvance
    <2>1. out \in Index /\ n \in 0 .. LEN - 1
      BY DEF Numbers
    <2>2. rx_out' \in Index
      <3>1. rx_out' = (out + n) % LEN
        BY <1>3 DEF ReadAdvance
      <3> QED
        BY <2>1, <3>1, ModSmall, SizeAssumption DEF Index
    <2> QED
      BY <1>3, <2>2 DEF ReadAdvance, Numbers
  <1>4. CASE ReadWait \/ ReadAgain \/ ReadNothing
    BY <1>4 DEF ReadWait, ReadAgain, ReadNothing, Goto, Numbers
  <1>5. CASE ReadEnd
    BY <1>5, ZeroIndex DEF ReadEnd, Return, Numbers
  <1> QED
    BY <1>1, <1>2, <1>3, <1>4, <1>5 DEF Read

LEMMA WriteTypes ==
  ASSUME IInv, Numbers, Write
  PROVE  Numbers'
  <1> USE DEF host, rx, tx, driver, handler, locals
  <1>1. CASE WriteSnapshot
    <2>1. n' \in 0 .. LEN - 1
      <3>1. tx_in \in Index /\ tx_out \in Index /\ count \in 0 .. MaxCall
        BY DEF Numbers
      <3>2. n' = AtMost(Room(tx_in, tx_out), count)
        BY <1>1 DEF WriteSnapshot
      <3> QED
        BY <3>1, <3>2, SizeAssumption DEF AtMost, Room, Index
    <2>2. in' = tx_in /\ out' = tx_out
      BY <1>1 DEF WriteSnapshot
    <2>3. UNCHANGED <<host, rx, tx, driver, handler, count, delivered, written>>
      BY <1>1 DEF WriteSnapshot
    <2> QED
      BY <2>1, <2>2, <2>3 DEF Numbers
  <1>2. CASE WriteCopy
    <2>1. n \in 1 .. LEN - 1 /\ n <= count /\ in \in Index
      <3>1. pc = "write copy"
        BY <1>2 DEF WriteCopy, At
      <3>2. n \in 1 .. LEN - in /\ n <= count
        BY <3>1 DEF IInv, WriteCall
      <3>3. in \in Index /\ n \in 0 .. LEN - 1
        BY DEF Numbers
      <3> QED
        BY <3>2, <3>3
    <2>2. count \in Nat /\ written \in Nat /\ tx_buf \in [Index -> Nat]
      BY SizeAssumption DEF Numbers
    <2>3. \A k \in Index : k \in in .. in + n - 1 => written + 1 + k - in \in Nat
      BY <2>1, <2>2, SizeAssumption DEF Index
    <2>4. tx_buf' \in [Index -> Nat]
      BY <1>2, <2>2, <2>3 DEF WriteCopy
    <2>5. written' \in Nat /\ count' \in 0 .. MaxCall
      <3>1. written' = written + n /\ count' = count - n
        BY <1>2 DEF WriteCopy
      <3>2. written \in Nat /\ count \in 0 .. MaxCall
        BY DEF Numbers
      <3> QED
        BY <2>1, <3>1, <3>2, SizeAssumption
    <2> QED
      BY <1>2, <2>4, <2>5 DEF WriteCopy, Numbers
  <1>3. CASE WriteAdvance
    <2>1. in \in Index /\ n \in 0 .. LEN - 1
      BY DEF Numbers
    <2>2. tx_in' \in Index
      <3>1. tx_in' = (in + n) % LEN
        BY <1>3 DEF WriteAdvance
      <3> QED
        BY <2>1, <3>1, ModSmall, SizeAssumption DEF Index
    <2> QED
      BY <1>3, <2>2 DEF WriteAdvance, Numbers
  <1>4. CASE WriteNothing \/ WriteWait \/ WriteAgain
    BY <1>4 DEF WriteNothing, WriteWait, WriteAgain, Goto, Numbers
  <1>5. CASE WriteKick
    BY <1>5 DEF WriteKick, Numbers
  <1>6. CASE WriteEnd
    BY <1>6, ZeroIndex DEF WriteEnd, Return, Numbers
  <1> QED
    BY <1>1, <1>2, <1>3, <1>4, <1>5, <1>6 DEF Write

LEMMA FlagTypes ==
  ASSUME Flags, Next
  PROVE  Flags'
  <1> USE DEF Flags, host, rx, tx, driver, handler, program, locals
  <1>1. RI \in BOOLEAN /\ WI \in BOOLEAN /\ (ReadFifo > 1) \in BOOLEAN
    BY SMT DEF RI, WI
  <1>2. CASE HostSend \/ HostFetch \/ HostPause \/ Alarm
    BY <1>2, Zenon DEF HostSend, HostFetch, HostPause, Alarm
  <1>3. CASE Isr
    BY <1>1, <1>3, Zenon DEF Isr, Interrupt, ReadControl, Receive, TakeByte, ReceiveDone, Transmit,
                             GiveByte, TransmitDone
  <1>4. CASE CallRead \/ CallWrite \/ CallClose \/ CallSetTimeout \/ Close
    BY <1>4, Zenon DEF CallRead, CallWrite, CallClose, Call, CallSetTimeout, Close, Return
  <1>5. CASE Read
    BY <1>5, Zenon DEF Read, ReadSnapshot, ReadCopy, ReadCopyFrom, ReadAdvance, ReadWait, ReadAgain,
                       ReadNothing, ReadEnd, Return, Goto
  <1>6. CASE Write
    BY <1>6, Zenon DEF Write, WriteSnapshot, WriteCopy, WriteAdvance, WriteNothing, WriteKick,
                       WriteWait, WriteAgain, WriteEnd, Return, Goto
  <1> QED
    BY <1>2, <1>3, <1>4, <1>5, <1>6 DEF Next

LEMMA LabelTypes == Next => UNCHANGED pc \/ pc' \in Labels
  <1> USE DEF Labels, Reading, Writing, program
  <1>1. HostSend \/ HostFetch \/ HostPause \/ Alarm \/ Isr => UNCHANGED pc
    BY DEF HostSend, HostFetch, HostPause, Alarm, Isr, Interrupt, ReadControl, Receive, TakeByte,
           ReceiveDone, Transmit, GiveByte, TransmitDone
  <1>2. CallRead \/ CallWrite \/ CallClose \/ CallSetTimeout \/ Close => UNCHANGED pc \/ pc' \in Labels
    BY DEF CallRead, CallWrite, CallClose, Call, CallSetTimeout, Close, Return
  <1>3. Read => pc' \in Labels
    BY DEF Read, ReadSnapshot, ReadCopy, ReadCopyFrom, ReadAdvance, ReadWait, ReadAgain,
           ReadNothing, ReadEnd, Return, Goto
  <1>4. Write => pc' \in Labels
    BY DEF Write, WriteSnapshot, WriteCopy, WriteAdvance, WriteNothing, WriteKick,
           WriteWait, WriteAgain, WriteEnd, Return, Goto
  <1> QED
    BY <1>1, <1>2, <1>3, <1>4 DEF Next

(* The interrupt routine takes room for what the device has, and only the  *)
(* host makes it more.                                                     *)
LEMMA FifosInv ==
  ASSUME IInv, Numbers, Bounded, Next
  PROVE  ReadFifo' <= Depth /\ space' + WriteFifo' <= Depth
  <1> USE SizeAssumption DEF ReadFifo, WriteFifo, host, rx, tx, handler
  <1>1. /\ sent \in Nat /\ stored \in Nat /\ drained \in Nat /\ wire \in Seq(Nat) /\ space \in Nat
        /\ Len(wire) \in Nat /\ sent - stored <= Depth /\ space + (Len(wire) - drained) <= Depth
        /\ drained <= Len(wire)
    BY DEF Numbers, Bounded
  <1>2. CASE HostSend
    BY <1>1, <1>2 DEF HostSend
  <1>3. CASE HostFetch
    BY <1>1, <1>3 DEF HostFetch
  <1>4. CASE ReadControl
    <2>1. UNCHANGED <<sent, stored, drained, wire>>
      BY <1>4 DEF ReadControl
    <2>2. space' = Depth - (Len(wire) - drained) \/ space' = 0
      BY <1>4 DEF ReadControl
    <2> QED
      BY <1>1, <2>1, <2>2
  <1>5. CASE Receive
    <2>1. stored' = stored + 1 /\ UNCHANGED <<sent, drained, wire, space>>
      BY <1>5 DEF Receive, TakeByte
    <2> QED
      BY <1>1, <2>1
  <1>6. CASE Transmit
    <2>1. space' = space - 1 /\ UNCHANGED <<sent, stored, drained>>
      BY <1>6 DEF Transmit, GiveByte
    <2>2. Len(wire') = Len(wire) + 1
      <3>1. tx_buf[tx_out] \in Nat
        BY DEF Numbers
      <3> QED
        BY <1>1, <1>6, <3>1, GivesByte
    <2> QED
      BY <1>1, <2>1, <2>2
  <1>7. CASE TransmitDone
    <2>1. space' = 0 /\ UNCHANGED <<sent, stored, drained, wire>>
      BY <1>7 DEF TransmitDone
    <2> QED
      BY <1>1, <2>1
  <1>8. CASE UNCHANGED <<sent, stored, drained, wire, space>>
    BY <1>1, <1>8
  <1>9. HostPause \/ Alarm \/ Interrupt \/ ReceiveDone => UNCHANGED <<sent, stored, drained, wire, space>>
    BY DEF HostPause, Alarm, Interrupt, ReceiveDone
  <1>10. CallRead \/ CallWrite \/ CallClose \/ CallSetTimeout \/ Close => UNCHANGED <<sent, stored, drained, wire, space>>
    BY DEF CallRead, CallWrite, CallClose, Call, CallSetTimeout, Close, Return
  <1>11. Read => UNCHANGED <<sent, stored, drained, wire, space>>
    BY DEF Read, ReadSnapshot, ReadCopy, ReadCopyFrom, ReadAdvance, ReadWait, ReadAgain,
           ReadNothing, ReadEnd, Return, Goto
  <1>12. Write => UNCHANGED <<sent, stored, drained, wire, space>>
    BY DEF Write, WriteSnapshot, WriteCopy, WriteAdvance, WriteNothing, WriteKick,
           WriteWait, WriteAgain, WriteEnd, Return, Goto
  <1> QED
    BY <1>2, <1>3, <1>4, <1>5, <1>6, <1>7, <1>8, <1>9, <1>10, <1>11, <1>12 DEF Next, Isr

(* The bytes a write call has been given and has not copied yet.           *)
Asked == IF pc \in Writing THEN count ELSE 0

LEMMA AskedStep ==
  ASSUME Next
  PROVE  \/ HostSend /\ sent' = sent + 1 /\ UNCHANGED written /\ Asked' = Asked
         \/ CallWrite /\ UNCHANGED <<sent, written>> /\ Asked = 0 /\ Asked' = count'
         \/ WriteCopy /\ UNCHANGED sent /\ written' = written + n /\ Asked = count /\ Asked' = count - n
         \/ UNCHANGED <<sent, written>> /\ (Asked' = Asked \/ Asked' = 0)
  <1> USE DEF host, program, locals, At, Asked, Writing
  <1>1. HostSend => sent' = sent + 1 /\ UNCHANGED written /\ Asked' = Asked
    BY DEF HostSend
  <1>2. CallWrite => UNCHANGED <<sent, written>> /\ Asked = 0 /\ Asked' = count'
    BY DEF CallWrite, Call
  <1>3. WriteCopy => UNCHANGED sent /\ written' = written + n /\ Asked = count /\ Asked' = count - n
    BY DEF WriteCopy
  <1>4. HostFetch \/ HostPause \/ Alarm \/ Isr => UNCHANGED <<sent, written>> /\ Asked' = Asked
    BY DEF HostFetch, HostPause, Alarm, Isr, Interrupt, ReadControl, Receive, TakeByte, ReceiveDone,
           Transmit, GiveByte, TransmitDone
  <1>5. CallRead \/ CallClose \/ CallSetTimeout \/ Close => UNCHANGED <<sent, written>> /\ Asked' = 0
    BY DEF CallRead, CallClose, Call, CallSetTimeout, Close, Return
  <1>6. Read => UNCHANGED <<sent, written>> /\ Asked' = 0
    BY DEF Read, ReadSnapshot, ReadCopy, ReadCopyFrom, ReadAdvance, ReadWait, ReadAgain,
           ReadNothing, ReadEnd, Return, Goto
  <1>7. Write /\ ~WriteCopy => UNCHANGED <<sent, written>> /\ (Asked' = Asked \/ Asked' = 0)
    BY DEF Write, WriteSnapshot, WriteAdvance, WriteNothing, WriteKick,
           WriteWait, WriteAgain, WriteEnd, Return, Goto
  <1> QED
    BY <1>1, <1>2, <1>3, <1>4, <1>5, <1>6, <1>7 DEF Next

LEMMA BoundedInv ==
  ASSUME IInv, Numbers, Bounded, Numbers', Next
  PROVE  Bounded'
  <1>1. sent \in Nat /\ written \in Nat /\ count \in Nat /\ n \in Nat /\ MaxBytes \in Nat
    BY SizeAssumption DEF Numbers
  <1>2. count' \in Nat
    BY SizeAssumption DEF Numbers
  <1>3. Asked \in Nat /\ sent + written + Asked <= MaxBytes
    BY <1>1 DEF Asked, Bounded, Underway
  <1>4. sent' + written' + Asked' <= MaxBytes
    <2>1. CASE HostSend /\ sent' = sent + 1 /\ UNCHANGED written /\ Asked' = Asked
      <3>1. sent + written + Asked < MaxBytes
        BY <2>1 DEF HostSend, Underway, Asked
      <3> QED
        BY <1>1, <1>3, <2>1, <3>1
    <2>2. CASE CallWrite /\ UNCHANGED <<sent, written>> /\ Asked = 0 /\ Asked' = count'
      <3>1. PICK size \in 0 .. MaxCall : Underway + size <= MaxBytes /\ count' = size
        BY <2>2 DEF CallWrite, Call
      <3>2. Underway = sent + written + Asked
        BY DEF Underway, Asked
      <3>3. Underway = sent + written
        BY <1>1, <2>2, <3>2
      <3>4. sent + written + size <= MaxBytes
        BY <3>1, <3>3
      <3>5. sent' + written' + Asked' = sent + written + size
        BY <2>2, <3>1
      <3> QED
        BY <3>4, <3>5
    <2>3. CASE WriteCopy /\ UNCHANGED sent /\ written' = written + n /\ Asked = count /\ Asked' = count - n
      BY <1>1, <1>3, <2>3
    <2>4. CASE UNCHANGED <<sent, written>> /\ (Asked' = Asked \/ Asked' = 0)
      BY <1>1, <1>3, <2>4
    <2> QED
      BY <2>1, <2>2, <2>3, <2>4, AskedStep
  <1> QED
    BY <1>4, FifosInv DEF Bounded, Underway, Asked

LEMMA TypeInv == IInv /\ [Next]_vars => TypeOK'
  <1> SUFFICES ASSUME IInv, Flags, Numbers, Bounded, pc \in Labels, [Next]_vars
               PROVE  Flags' /\ Numbers' /\ Bounded' /\ pc' \in Labels
    <2>1. TypeOK' <=> Flags' /\ Numbers' /\ Bounded' /\ pc' \in Labels
      BY DEF TypeOK, Flags, Numbers, Bounded
    <2> QED
      BY <2>1, Types DEF IInv
  <1>1. CASE UNCHANGED vars
    <2>1. Flags'
      BY <1>1, Zenon DEF Flags, vars, host, rx, tx, driver, handler, program, locals
    <2>2. Numbers' /\ UNCHANGED pc
      BY <1>1 DEF Numbers, vars, host, rx, tx, driver, handler, program, locals
    <2>3. Bounded'
      BY <1>1 DEF Bounded, ReadFifo, WriteFifo, Underway, vars, host, rx, tx, handler, program, locals
    <2> QED
      BY <2>1, <2>2, <2>3
  <1>2. CASE Next
    <2>1. Flags' /\ pc' \in Labels
      BY <1>2, FlagTypes, LabelTypes
    <2>2. Numbers'
      BY <1>2, HostTypes, IsrTypes, CallTypes, ReadTypes, WriteTypes DEF Next
    <2> QED
      BY <1>2, <2>1, <2>2, BoundedInv
  <1> QED
    BY <1>1, <1>2

(***************************************************************************)
(* Receiving.                                                              *)
(***************************************************************************)
LEMMA RxFrame ==
  ASSUME Next
  PROVE  \/ Receive \/ ReadCopy \/ ReadAdvance
         \/ UNCHANGED <<rx, delivered>> /\ (pc = "read advance" <=> pc' = "read advance")
                                       /\ (pc = "read advance" => UNCHANGED n)
  <1> USE DEF host, rx, tx, driver, handler, program, locals, At
  <1>1. CASE HostSend \/ HostFetch \/ HostPause \/ Alarm
    BY <1>1 DEF HostSend, HostFetch, HostPause, Alarm
  <1>2. CASE Isr
    BY <1>2 DEF Isr, Interrupt, ReadControl, ReceiveDone, Transmit, GiveByte, TransmitDone
  <1>3. CASE CallRead \/ CallWrite \/ CallClose \/ CallSetTimeout \/ Close
    BY <1>3 DEF CallRead, CallWrite, CallClose, Call, CallSetTimeout, Close, Return
  <1>4. CASE Read
    <2>1. CASE ReadSnapshot
      BY <2>1 DEF ReadSnapshot
    <2>2. CASE ReadWait \/ ReadAgain \/ ReadNothing \/ ReadEnd
      BY <2>2 DEF ReadWait, ReadAgain, ReadNothing, ReadEnd, Return, Goto
    <2> QED
      BY <1>4, <2>1, <2>2 DEF Read
  <1>5. CASE Write
    <2>1. CASE WriteSnapshot \/ WriteCopy \/ WriteAdvance
      BY <2>1 DEF WriteSnapshot, WriteCopy, WriteAdvance
    <2>2. CASE WriteNothing \/ WriteKick \/ WriteWait \/ WriteAgain \/ WriteEnd
      BY <2>2 DEF WriteNothing, WriteKick, WriteWait, WriteAgain, WriteEnd, Return, Goto
    <2> QED
      BY <1>5, <2>1, <2>2 DEF Write
  <1> QED
    BY <1>1, <1>2, <1>3, <1>4, <1>5 DEF Next

LEMMA TxFrame ==
  ASSUME Next
  PROVE  \/ Transmit \/ WriteCopy \/ WriteAdvance
         \/ UNCHANGED <<tx, written>> /\ (pc = "write advance" <=> pc' = "write advance")
                                     /\ (pc = "write advance" => UNCHANGED n)
  <1> USE DEF host, rx, tx, driver, handler, program, locals, At
  <1>1. CASE HostSend \/ HostFetch \/ HostPause \/ Alarm
    BY <1>1 DEF HostSend, HostFetch, HostPause, Alarm
  <1>2. CASE Isr
    BY <1>2 DEF Isr, Interrupt, ReadControl, Receive, TakeByte, ReceiveDone, TransmitDone
  <1>3. CASE CallRead \/ CallWrite \/ CallClose \/ CallSetTimeout \/ Close
    BY <1>3 DEF CallRead, CallWrite, CallClose, Call, CallSetTimeout, Close, Return
  <1>4. CASE Read
    <2>1. CASE ReadSnapshot \/ ReadCopy \/ ReadAdvance
      BY <2>1 DEF ReadSnapshot, ReadCopy, ReadCopyFrom, ReadAdvance
    <2>2. CASE ReadWait \/ ReadAgain \/ ReadNothing \/ ReadEnd
      BY <2>2 DEF ReadWait, ReadAgain, ReadNothing, ReadEnd, Return, Goto
    <2> QED
      BY <1>4, <2>1, <2>2 DEF Read
  <1>5. CASE Write
    <2>1. CASE WriteSnapshot
      BY <2>1 DEF WriteSnapshot
    <2>2. CASE WriteNothing \/ WriteKick \/ WriteWait \/ WriteAgain \/ WriteEnd
      BY <2>2 DEF WriteNothing, WriteKick, WriteWait, WriteAgain, WriteEnd, Return, Goto
    <2> QED
      BY <1>5, <2>1, <2>2 DEF Write
  <1> QED
    BY <1>1, <1>2, <1>3, <1>4, <1>5 DEF Next

(* What a read copies are the bytes after those already delivered.         *)
LEMMA ReadCopyIsNext ==
  ASSUME IInv, ReadCopy
  PROVE  /\ n \in 1 .. LEN - rx_out /\ n <= Used(rx_in, rx_out) /\ Gone = Len(delivered)
         /\ \A k \in 1 .. n : rx_buf[(out + k - 1) % LEN] = Len(delivered) + k
         /\ delivered' = delivered \o [k \in 1 .. n |-> Len(delivered) + k]
  <1> DEFINE used == Used(rx_in, rx_out)
  <1>1. /\ rx_in \in Index /\ rx_out \in Index /\ LEN \in Nat /\ n \in 0 .. LEN - 1
        /\ delivered \in Seq(Nat)
    BY Types, SizeAssumption DEF IInv, Numbers
  <1>u. used \in 0 .. LEN - 1
    BY <1>1, RingBounds
  <1>a. n \in Nat /\ Len(delivered) \in Nat /\ used \in 0 .. LEN - 1
    <2> HIDE DEF used
    <2> QED
      BY <1>1, <1>u
  <1>2. pc = "read copy"
    BY DEF ReadCopy, ReadCopyFrom, At
  <1>3. out = rx_out /\ n \in 1 .. LEN - rx_out /\ n <= used
    BY <1>2 DEF IInv, ReadCall
  <1>4. Gone = Len(delivered)
    BY <1>a, <1>2 DEF Gone
  <1>5. \A k \in 0 .. used - 1 : rx_buf[Slot(rx_out, k)] = Gone + 1 + k
    BY DEF IInv, RxRing
  <1>6. \A k \in 1 .. n : rx_buf[(out + k - 1) % LEN] = Len(delivered) + k
    <2> HIDE DEF used
    <2> SUFFICES ASSUME NEW k \in 1 .. n
                 PROVE  rx_buf[(out + k - 1) % LEN] = Len(delivered) + k
      OBVIOUS
    <2>1. k - 1 \in 0 .. n - 1 /\ k - 1 \in 0 .. used - 1 /\ out + k - 1 = rx_out + (k - 1)
      BY <1>1, <1>a, <1>3 DEF Index
    <2>2. (rx_out + (k - 1)) % LEN = Slot(rx_out, k - 1)
      BY <1>1, <1>3, <2>1, RingTake DEF used
    <2>3. Gone + 1 + (k - 1) = Len(delivered) + k
      BY <1>a, <1>4
    <2> QED
      BY <1>5, <2>1, <2>2, <2>3
  <1>7. [k \in 1 .. n |-> rx_buf[(out + k - 1) % LEN]] = [k \in 1 .. n |-> Len(delivered) + k]
    BY <1>6
  <1> QED
    BY <1>3, <1>4, <1>6, <1>7 DEF ReadCopy, ReadCopyFrom

LEMMA RxRingInv ==
  ASSUME IInv, Next
  PROVE  RxRing'
  <1> DEFINE used == Used(rx_in, rx_out)
  <1>1. /\ rx_in \in Index /\ rx_out \in Index /\ LEN \in Nat /\ stored \in Nat
        /\ rx_buf \in [Index -> Nat] /\ delivered \in Seq(Nat) /\ n \in 0 .. LEN - 1
    BY Types, SizeAssumption DEF IInv, Numbers
  <1>a. n \in Nat /\ Len(delivered) \in Nat
    BY <1>1
  <1>2. /\ stored = Gone + used
        /\ \A k \in 0 .. used - 1 : rx_buf[Slot(rx_out, k)] = Gone + 1 + k
        /\ \A b \in 1 .. Len(delivered) : delivered[b] = b
    BY DEF IInv, RxRing
  <1>3. used \in 0 .. LEN - 1 /\ Gone \in Int
    <2>1. used \in 0 .. LEN - 1
      BY <1>1, RingBounds
    <2>2. Gone \in Int
      BY <1>a DEF Gone
    <2> QED
      BY <2>1, <2>2
  <1>4. CASE Receive
    <2>1. /\ rx_in' = (rx_in + 1) % LEN
          /\ rx_buf' = [rx_buf EXCEPT ![rx_in] = stored + 1]
          /\ stored' = stored + 1
          /\ UNCHANGED <<rx_out, delivered, pc, n>>
          /\ ~RxFull
      BY <1>4 DEF Receive, TakeByte, program, locals
    <2>2. used + 1 < LEN
      BY <1>1, <1>3, <2>1, RingBounds DEF RxFull
    <2>3. /\ Used(rx_in', rx_out) = used + 1 /\ Slot(rx_out, used) = rx_in
          /\ \A k \in 0 .. used - 1 : Slot(rx_out, k) # rx_in
      BY <1>1, <1>3, <2>1, <2>2, RingPutOne
    <2>4. Gone' = Gone
      BY <2>1 DEF Gone
    <2>5. Used(rx_in, rx_out)' = used + 1
      BY <2>1, <2>3 DEF Used
    <2>6. \A k \in 0 .. used : rx_buf'[Slot(rx_out, k)] = Gone + 1 + k
      <3> HIDE DEF used
      <3> SUFFICES ASSUME NEW k \in 0 .. used
                   PROVE  rx_buf'[Slot(rx_out, k)] = Gone + 1 + k
        OBVIOUS
      <3>1. CASE k = used
        BY <1>1, <1>2, <1>3, <2>1, <2>3, <3>1
      <3>2. CASE k \in 0 .. used - 1
        <4>1. k \in 0 .. LEN - 1
          BY <1>1, <1>3, <3>2
        <4>2. Slot(rx_out, k) \in Index
          BY <1>1, <4>1, RingBounds
        <4> QED
          BY <1>1, <1>2, <2>1, <2>3, <3>2, <4>2
      <3> QED
        BY <1>3, <3>1, <3>2
    <2>7. \A k \in 0 .. Used(rx_in, rx_out)' - 1 : rx_buf'[Slot(rx_out, k)'] = Gone' + 1 + k
      BY <1>3, <2>1, <2>4, <2>5, <2>6 DEF Slot
    <2> QED
      BY <1>1, <1>2, <1>3, <2>1, <2>4, <2>5, <2>7 DEF RxRing
  <1>5. CASE ReadCopy
    <2>1. pc' = "read advance" /\ UNCHANGED <<stored, rx_in, rx_out, rx_buf, n>>
      BY <1>5 DEF ReadCopy, ReadCopyFrom, rx
    <2>2. Gone = Len(delivered) /\ delivered' = delivered \o [k \in 1 .. n |-> Len(delivered) + k]
      BY <1>5, ReadCopyIsNext
    <2>3. Len(delivered') = Len(delivered) + n /\ \A b \in 1 .. Len(delivered') : delivered'[b] = b
      <3>1. DEFINE copied == [k \in 1 .. n |-> Len(delivered) + k]
      <3>2. \A k \in 1 .. n : Len(delivered) + k \in Nat
        BY <1>a
      <3>3. copied \in Seq(Nat) /\ Len(copied) = n /\ \A k \in 1 .. n : copied[k] = Len(delivered) + k
        BY <1>a, <3>2
      <3> HIDE DEF copied
      <3>4. /\ Len(delivered \o copied) = Len(delivered) + n
            /\ \A b \in 1 .. Len(delivered) : (delivered \o copied)[b] = delivered[b]
            /\ \A k \in 1 .. n : (delivered \o copied)[Len(delivered) + k] = copied[k]
        BY <1>1, <3>3, Concatenation
      <3>5. \A b \in 1 .. Len(delivered) + n : (delivered \o copied)[b] = b
        <4> SUFFICES ASSUME NEW b \in 1 .. Len(delivered) + n
                     PROVE  (delivered \o copied)[b] = b
          OBVIOUS
        <4>1. CASE b \in 1 .. Len(delivered)
          BY <1>2, <3>4, <4>1
        <4>2. CASE b - Len(delivered) \in 1 .. n
          <5>1. b = Len(delivered) + (b - Len(delivered))
            BY <1>a
          <5> QED
            BY <3>3, <3>4, <4>2, <5>1
        <4>3. b \in 1 .. Len(delivered) \/ b - Len(delivered) \in 1 .. n
          BY <1>a
        <4> QED
          BY <4>1, <4>2, <4>3
      <3> QED
        BY <2>2, <3>4, <3>5 DEF copied
    <2>4. Gone' = Gone
      <3>1. Gone' = Len(delivered') - n
        BY <2>1 DEF Gone
      <3> QED
        BY <1>a, <2>2, <2>3, <3>1
    <2> QED
      BY <1>2, <2>1, <2>3, <2>4 DEF RxRing, Used, Slot
  <1>6. CASE ReadAdvance
    <2>1. /\ pc = "read advance" /\ pc' # "read advance"
          /\ rx_out' = (out + n) % LEN
          /\ UNCHANGED <<stored, rx_in, rx_buf, n, delivered>>
      BY <1>6 DEF ReadAdvance, At, locals
    <2>2. out = rx_out /\ n \in 1 .. LEN - rx_out /\ n <= used
      BY <2>1 DEF IInv, ReadCall
    <2>3. /\ Used(rx_in, rx_out') = used - n
          /\ \A k \in 0 .. LEN - 1 - n : Slot(rx_out', k) = Slot(rx_out, k + n)
      BY <1>1, <2>1, <2>2, RingTake
    <2>4. Gone' = Gone + n
      <3>1. Gone = Len(delivered) - n /\ Gone' = Len(delivered)
        <4>1. pc = "read advance" /\ pc' # "read advance" /\ UNCHANGED delivered
          BY <2>1
        <4> QED
          BY <1>a, <4>1 DEF Gone
      <3> QED
        BY <1>a, <3>1
    <2>5. \A k \in 0 .. used - n - 1 : rx_buf[Slot(rx_out', k)] = Gone + n + 1 + k
      <3> HIDE DEF used
      <3> SUFFICES ASSUME NEW k \in 0 .. used - n - 1
                   PROVE  rx_buf[Slot(rx_out', k)] = Gone + n + 1 + k
        OBVIOUS
      <3>1. k + n \in 0 .. used - 1 /\ k \in 0 .. LEN - 1 - n /\ Gone + 1 + (k + n) = Gone + n + 1 + k
        BY <1>1, <1>3, <2>2
      <3> QED
        BY <1>2, <2>3, <3>1
    <2>6. Used(rx_in, rx_out)' = used - n /\ \A k : Slot(rx_out, k)' = Slot(rx_out', k)
      BY <2>1, <2>3 DEF Used, Slot
    <2>7. \A k \in 0 .. Used(rx_in, rx_out)' - 1 : rx_buf'[Slot(rx_out', k)] = Gone' + 1 + k
      <3> HIDE DEF used
      <3> QED
        BY <1>3, <2>1, <2>4, <2>5, <2>6
    <2>8. stored' = Gone' + Used(rx_in, rx_out)'
      <3> HIDE DEF used
      <3>1. stored' = stored
        BY <2>1
      <3> QED
        BY <1>a, <1>2, <1>3, <2>4, <2>6, <3>1
    <2> QED
      BY <1>2, <2>1, <2>7, <2>8 DEF RxRing, Slot
  <1>7. CASE /\ UNCHANGED <<rx, delivered>> /\ (pc = "read advance" <=> pc' = "read advance")
             /\ (pc = "read advance" => UNCHANGED n)
    <2>1. Gone' = Gone
      BY <1>7 DEF Gone
    <2> QED
      BY <1>2, <1>7, <2>1 DEF RxRing, Used, Slot, rx
  <1> QED
    BY <1>4, <1>5, <1>6, <1>7, RxFrame

(***************************************************************************)
(* Transmitting.                                                           *)
(***************************************************************************)
LEMMA TxRingInv ==
  ASSUME IInv, Next
  PROVE  TxRing'
  <1> DEFINE used == Used(tx_in, tx_out)
  <1>1. /\ tx_in \in Index /\ tx_out \in Index /\ LEN \in Nat /\ written \in Nat
        /\ tx_buf \in [Index -> Nat] /\ wire \in Seq(Nat) /\ n \in 0 .. LEN - 1
    BY Types, SizeAssumption DEF IInv, Numbers
  <1>a. n \in Nat /\ Len(wire) \in Nat
    BY <1>1
  <1>2. /\ written = Len(wire) + used + Pending
        /\ \A k \in 0 .. used + Pending - 1 : tx_buf[Slot(tx_out, k)] = Len(wire) + 1 + k
        /\ \A b \in 1 .. Len(wire) : wire[b] = b
    BY DEF IInv, TxRing
  <1>3. used \in 0 .. LEN - 1 /\ Pending \in 0 .. LEN - 1 - used
    <2>1. used \in 0 .. LEN - 1
      BY <1>1, RingBounds
    <2>2. pc = "write advance" => n < LEN - used
      BY DEF IInv, WriteCall
    <2> HIDE DEF used
    <2>3. CASE pc = "write advance"
      <3>1. Pending = n /\ n < LEN - used
        BY <2>2, <2>3 DEF Pending
      <3> QED
        BY <1>1, <1>a, <2>1, <3>1
    <2>4. CASE pc # "write advance"
      <3>1. Pending = 0
        BY <2>4 DEF Pending
      <3> QED
        BY <1>1, <2>1, <3>1
    <2> QED
      BY <2>3, <2>4
  <1>4. CASE Transmit
    <2>1. /\ tx_out # tx_in
          /\ tx_out' = (tx_out + 1) % LEN
          /\ wire' = Append(wire, tx_buf[tx_out])
      BY <1>4, GivesByte DEF Transmit, GiveByte
    <2>2. UNCHANGED <<written, tx_in, tx_buf, pc, n>>
      BY <1>4 DEF Transmit, GiveByte, program, locals
    <2>3. used >= 1
      <3>1. used # 0
        BY <1>1, <2>1, RingBounds
      <3> HIDE DEF used
      <3> QED
        BY <1>3, <3>1
    <2>4. /\ Used(tx_in, tx_out') = used - 1
          /\ \A k \in 0 .. LEN - 2 : Slot(tx_out', k) = Slot(tx_out, k + 1)
      <3> HIDE DEF used
      <3>1. 1 \in 1 .. LEN - tx_out
        BY <1>1 DEF Index
      <3>2. \A k \in 0 .. LEN - 1 - 1 : Slot((tx_out + 1) % LEN, k) = Slot(tx_out, k + 1)
        BY <1>1, <2>3, <3>1, RingTake DEF used
      <3>3. Used(tx_in, (tx_out + 1) % LEN) = used - 1
        BY <1>1, <2>3, <3>1, RingTake DEF used
      <3> QED
        BY <1>1, <2>1, <3>2, <3>3
    <2>5. UNCHANGED Pending /\ Used(tx_in, tx_out)' = used - 1
      BY <2>2, <2>4 DEF Pending, Used
    <2>6. tx_buf[tx_out] = Len(wire) + 1
      <3> HIDE DEF used
      <3>1. 0 \in 0 .. used + Pending - 1
        BY <1>1, <1>3, <2>3
      <3>2. Slot(tx_out, 0) = tx_out
        BY <1>1 DEF Slot, Index
      <3> QED
        BY <1>2, <1>a, <3>1, <3>2
    <2>7. Len(wire') = Len(wire) + 1 /\ \A b \in 1 .. Len(wire') : wire'[b] = b
      <3>1. Len(wire') = Len(wire) + 1 /\ wire'[Len(wire) + 1] = tx_buf[tx_out]
        BY <1>1, <2>1
      <3>2. \A b \in 1 .. Len(wire) : wire'[b] = wire[b]
        BY <1>1, <2>1
      <3>3. \A b \in 1 .. Len(wire') : b \in 1 .. Len(wire) \/ b = Len(wire) + 1
        BY <1>a, <3>1
      <3> QED
        BY <1>2, <2>6, <3>1, <3>2, <3>3
    <2>8. \A k \in 0 .. used - 1 + Pending - 1 : tx_buf[Slot(tx_out', k)] = Len(wire) + 1 + 1 + k
      <3> HIDE DEF used
      <3> SUFFICES ASSUME NEW k \in 0 .. used - 1 + Pending - 1
                   PROVE  tx_buf[Slot(tx_out', k)] = Len(wire) + 1 + 1 + k
        OBVIOUS
      <3>1. k + 1 \in 0 .. used + Pending - 1 /\ k \in 0 .. LEN - 2 /\ k \in Int
        BY <1>1, <1>3, <2>3
      <3> QED
        BY <1>a, <1>2, <2>4, <3>1
    <2>9. \A k \in 0 .. Used(tx_in, tx_out)' + Pending' - 1 : tx_buf'[Slot(tx_out', k)] = Len(wire') + 1 + k
      <3> HIDE DEF used
      <3> QED
        BY <2>2, <2>5, <2>7, <2>8
    <2>10. written' = Len(wire') + Used(tx_in, tx_out)' + Pending'
      <3> HIDE DEF used
      <3>1. written' = written
        BY <2>2
      <3> QED
        BY <1>a, <1>1, <1>2, <1>3, <2>5, <2>7, <3>1
    <2> QED
      BY <2>2, <2>7, <2>9, <2>10 DEF TxRing, Slot
  <1>5. CASE WriteCopy
    <2>1. /\ tx_buf' = [k \in Index |-> IF k \in in .. in + n - 1 THEN written + 1 + k - in ELSE tx_buf[k]]
          /\ written' = written + n
      BY <1>5 DEF WriteCopy
    <2>2. pc = "write copy" /\ pc' = "write advance" /\ UNCHANGED <<wire, tx_in, tx_out, n>>
      BY <1>5 DEF WriteCopy, At
    <2>3. in = tx_in /\ n \in 1 .. LEN - tx_in /\ n < LEN - used
      BY <2>2 DEF IInv, WriteCall
    <2>4. Pending = 0 /\ Pending' = n /\ Used(tx_in, tx_out)' = used
      BY <2>2 DEF Pending, Used
    <2>5. /\ \A k \in 0 .. n - 1 : Slot(tx_out, used + k) = tx_in + k
          /\ \A k \in 0 .. used - 1 : Slot(tx_out, k) \notin tx_in .. tx_in + n - 1
      BY <1>1, <2>3, RingPut
    <2>6. \A k \in 0 .. used + n - 1 : Slot(tx_out, k) \in Index
      <3> HIDE DEF used
      <3> SUFFICES ASSUME NEW k \in 0 .. used + n - 1 PROVE Slot(tx_out, k) \in Index
        OBVIOUS
      <3>1. k \in 0 .. LEN - 1
        BY <1>1, <1>3, <2>3
      <3> QED
        BY <1>1, <3>1, RingBounds
    <2>7. \A k \in 0 .. used + n - 1 : tx_buf'[Slot(tx_out, k)] = Len(wire) + 1 + k
      <3> HIDE DEF used
      <3> SUFFICES ASSUME NEW k \in 0 .. used + n - 1
                   PROVE  tx_buf'[Slot(tx_out, k)] = Len(wire) + 1 + k
        OBVIOUS
      <3>1. CASE k < used
        <4>1. k \in 0 .. used - 1 /\ k \in 0 .. used + Pending - 1
          BY <1>3, <2>4, <3>1
        <4> QED
          BY <1>2, <2>1, <2>3, <2>5, <2>6, <4>1
      <3>2. CASE k >= used
        <4>1. k - used \in 0 .. n - 1 /\ used + (k - used) = k
          BY <1>a, <1>3, <3>2
        <4>2. Slot(tx_out, k) = tx_in + (k - used)
          BY <2>5, <4>1
        <4>3. tx_in + (k - used) \in tx_in .. tx_in + n - 1
          BY <1>1, <1>a, <1>3, <4>1 DEF Index
        <4>4. tx_buf'[Slot(tx_out, k)] = written + 1 + (tx_in + (k - used)) - tx_in
          BY <2>1, <2>3, <2>6, <4>2, <4>3
        <4> QED
          BY <1>1, <1>a, <1>2, <1>3, <2>4, <4>1, <4>4 DEF Index
      <3>3. k < used \/ k >= used
        BY <1>3, <1>a
      <3> QED
        BY <3>1, <3>2, <3>3
    <2>8. \A k \in 0 .. Used(tx_in, tx_out)' + Pending' - 1 : tx_buf'[Slot(tx_out', k)] = Len(wire') + 1 + k
      <3> HIDE DEF used
      <3> QED
        BY <2>2, <2>4, <2>7
    <2>9. written' = Len(wire') + Used(tx_in, tx_out)' + Pending'
      <3> HIDE DEF used
      <3>1. written' = written + n /\ Len(wire') = Len(wire)
        BY <2>1, <2>2
      <3> QED
        BY <1>a, <1>1, <1>2, <1>3, <2>4, <3>1
    <2> QED
      BY <1>2, <2>2, <2>8, <2>9 DEF TxRing, Slot
  <1>6. CASE WriteAdvance
    <2>1. tx_in' = (in + n) % LEN
      BY <1>6 DEF WriteAdvance
    <2>2. /\ pc = "write advance" /\ pc' # "write advance"
          /\ UNCHANGED <<written, wire, tx_out, tx_buf, n>>
      BY <1>6 DEF WriteAdvance, At, locals
    <2>3. in = tx_in /\ n \in 1 .. LEN - tx_in /\ n < LEN - used
      BY <2>2 DEF IInv, WriteCall
    <2>4. Used((tx_in + n) % LEN, tx_out) = used + n
      BY <1>1, <2>3, RingPut
    <2>5. Pending = n /\ Pending' = 0 /\ Used(tx_in, tx_out)' = used + n
      BY <2>1, <2>2, <2>3, <2>4 DEF Pending, Used
    <2>6. Used(tx_in, tx_out)' + Pending' = used + Pending
      <3> HIDE DEF used
      <3> QED
        BY <1>a, <1>3, <2>5
    <2> QED
      <3> HIDE DEF used
      <3>a. written' = written /\ Len(wire') = Len(wire) /\ tx_buf' = tx_buf /\ tx_out' = tx_out
        BY <2>2
      <3>b. written = Len(wire) + used + Pending
        BY <1>2
      <3>c. Len(wire) + (used + Pending) = Len(wire) + used + Pending
        BY <1>a, <1>3
      <3>d. Used(tx_in, tx_out)' \in Int /\ Pending' \in Int
        BY <1>a, <1>3, <2>5
      <3>1. written' = Len(wire') + Used(tx_in, tx_out)' + Pending'
        <4>1. Len(wire) + (Used(tx_in, tx_out)' + Pending') = Len(wire) + Used(tx_in, tx_out)' + Pending'
          BY <1>a, <3>d
        <4> QED
          BY <2>6, <3>a, <3>b, <3>c, <4>1
      <3>2. \A k \in 0 .. Used(tx_in, tx_out)' + Pending' - 1 : tx_buf'[Slot(tx_out', k)] = Len(wire') + 1 + k
        <4>1. Used(tx_in, tx_out)' + Pending' - 1 = used + Pending - 1
          BY <2>6, <1>3, <3>d
        <4>2. \A k \in 0 .. used + Pending - 1 : tx_buf[Slot(tx_out, k)] = Len(wire) + 1 + k
          BY <1>2
        <4> QED
          BY <3>a, <4>1, <4>2
      <3> QED
        BY <1>2, <2>2, <3>1, <3>2 DEF TxRing, Slot
  <1>7. CASE /\ UNCHANGED <<tx, written>> /\ (pc = "write advance" <=> pc' = "write advance")
             /\ (pc = "write advance" => UNCHANGED n)
    <2>1. Pending' = Pending
      BY <1>7 DEF Pending
    <2> QED
      BY <1>2, <1>7, <2>1 DEF TxRing, Used, Slot, tx
  <1> QED
    BY <1>4, <1>5, <1>6, <1>7, TxFrame

(***************************************************************************)
(* Between the steps of a call, and the interrupts.                        *)
(***************************************************************************)

(* While a call is between two steps, what the interrupt routine, the      *)
(* alarm and the host do leaves its locals alone.  It only fills the       *)
(* receive ring and only empties the transmit ring.                        *)
LEMMA Between ==
  ASSUME IInv, HostSend \/ HostFetch \/ HostPause \/ Alarm \/ Isr
  PROVE  /\ UNCHANGED <<pc, in, out, n, count, moved, written, delivered, rx_out, tx_in>>
         /\ Used(rx_in, rx_out) <= Used(rx_in, rx_out)'
         /\ Used(tx_in, tx_out)' <= Used(tx_in, tx_out)
  <1>1. UNCHANGED <<pc, in, out, n, count, moved, written, delivered, rx_out, tx_in>>
    <2> USE DEF host, rx, tx, driver, handler, program, locals
    <2>1. CASE HostSend \/ HostFetch \/ HostPause \/ Alarm
      BY <2>1 DEF HostSend, HostFetch, HostPause, Alarm
    <2>2. CASE Isr
      BY <2>2 DEF Isr, Interrupt, ReadControl, Receive, TakeByte, ReceiveDone, Transmit, GiveByte, TransmitDone
    <2> QED
      BY <2>1, <2>2
  <1>2. /\ rx_in \in Index /\ rx_out \in Index /\ tx_in \in Index /\ tx_out \in Index
        /\ LEN \in Nat
    BY Types, SizeAssumption DEF IInv, Numbers
  <1>3. UNCHANGED rx_in \/ (~RxFull /\ rx_in' = (rx_in + 1) % LEN)
    <2> USE DEF host, rx, tx, driver, handler, program, locals
    <2>1. CASE HostSend \/ HostFetch \/ HostPause \/ Alarm
      BY <2>1 DEF HostSend, HostFetch, HostPause, Alarm
    <2>2. CASE Isr
      BY <2>2 DEF Isr, Interrupt, ReadControl, Receive, TakeByte, ReceiveDone, Transmit, GiveByte, TransmitDone
    <2> QED
      BY <2>1, <2>2
  <1>4. UNCHANGED tx_out \/ (tx_out # tx_in /\ tx_out' = (tx_out + 1) % LEN)
    <2> USE DEF host, rx, tx, driver, handler, program, locals
    <2>1. CASE HostSend \/ HostFetch \/ HostPause \/ Alarm
      BY <2>1 DEF HostSend, HostFetch, HostPause, Alarm
    <2>2. CASE Isr
      BY <2>2 DEF Isr, Interrupt, ReadControl, Receive, TakeByte, ReceiveDone, Transmit, GiveByte, TransmitDone
    <2> QED
      BY <2>1, <2>2
  <1>5. Used(rx_in, rx_out) \in 0 .. LEN - 1 /\ Used(tx_in, tx_out) \in 0 .. LEN - 1
    BY <1>2, RingBounds
  <1>6. Used(rx_in, rx_out) <= Used(rx_in', rx_out)
    <2>1. CASE UNCHANGED rx_in
      BY <1>2, <2>1 DEF Used, Index
    <2>2. CASE ~RxFull /\ rx_in' = (rx_in + 1) % LEN
      <3>1. Used(rx_in, rx_out) # LEN - 1
        BY <1>2, <2>2, RingBounds DEF RxFull
      <3>2. Used(rx_in, rx_out) < LEN - 1
        BY <1>2, <1>5, <3>1
      <3>3. Used(rx_in', rx_out) = Used(rx_in, rx_out) + 1
        BY <1>2, <2>2, <3>2, RingPutOne
      <3> QED
        BY <1>5, <3>3
    <2> QED
      BY <1>3, <2>1, <2>2
  <1>7. Used(tx_in, tx_out') <= Used(tx_in, tx_out)
    <2>1. CASE UNCHANGED tx_out
      BY <1>2, <2>1 DEF Used, Index
    <2>2. CASE tx_out # tx_in /\ tx_out' = (tx_out + 1) % LEN
      <3>1. Used(tx_in, tx_out) # 0
        BY <1>2, <2>2, RingBounds
      <3>2. 1 <= Used(tx_in, tx_out) /\ 1 \in 1 .. LEN - tx_out
        BY <1>2, <1>5, <3>1 DEF Index
      <3>3. Used(tx_in, tx_out') = Used(tx_in, tx_out) - 1
        BY <1>2, <2>2, <3>2, RingTake
      <3> QED
        BY <1>5, <3>3
    <2> QED
      BY <1>4, <2>1, <2>2
  <1>8. Used(rx_in, rx_out)' = Used(rx_in', rx_out) /\ Used(tx_in, tx_out)' = Used(tx_in, tx_out')
    BY <1>1 DEF Used
  <1> QED
    BY <1>1, <1>6, <1>7, <1>8

LEMMA ReadCallInv ==
  ASSUME IInv, Next
  PROVE  ReadCall'
  <1>1. /\ rx_in \in Index /\ rx_out \in Index /\ LEN \in Nat /\ count \in 0 .. MaxCall
        /\ n \in 0 .. LEN - 1 /\ MaxCall \in Nat
    BY Types, SizeAssumption DEF IInv, Numbers
  <1>2. Used(rx_in, rx_out) \in 0 .. LEN - 1
    BY <1>1, RingBounds
  <1>3. ReadCall
    BY DEF IInv
  <1>4. CASE HostSend \/ HostFetch \/ HostPause \/ Alarm \/ Isr
    <2>1. /\ UNCHANGED <<pc, out, n, count, moved, rx_out>>
          /\ Used(rx_in, rx_out) <= Used(rx_in, rx_out)'
      BY <1>4, Between
    <2>2. \A u \in 0 .. LEN - 1, k \in 0 .. LEN - 1 : k <= u /\ u <= Used(rx_in, rx_out)'
                                                   => k <= Used(rx_in, rx_out)'
      <3>1. Used(rx_in', rx_out') \in Int
        <4>1. TypeOK'
          BY TypeInv
        <4>2. rx_in' \in Index /\ rx_out' \in Index
          BY <4>1 DEF TypeOK
        <4> QED
          BY <1>1, <4>2 DEF Used, Index
      <3>2. Used(rx_in, rx_out)' = Used(rx_in', rx_out')
        BY DEF Used
      <3> QED
        BY <1>1, <3>1, <3>2
    <2> QED
      BY <1>1, <1>2, <1>3, <2>1, <2>2 DEF ReadCall
  <1>5. CASE CallRead \/ CallWrite \/ CallClose \/ CallSetTimeout
    <2>1. pc' \in {"read", "write", "close"} \/ (UNCHANGED <<pc, moved>> /\ pc = "idle")
      BY <1>5 DEF CallRead, CallWrite, CallClose, Call, CallSetTimeout, At, program, locals
    <2>2. CASE pc' \in {"read", "write", "close"}
      BY <2>2 DEF ReadCall
    <2>3. CASE UNCHANGED <<pc, moved>> /\ pc = "idle"
      <3>1. ~moved
        BY <1>3, <2>3 DEF ReadCall
      <3>2. ~moved' /\ pc' = "idle"
        BY <2>3, <3>1
      <3> QED
        BY <3>2 DEF ReadCall
    <2> QED
      BY <2>1, <2>2, <2>3
  <1>6. CASE ReadSnapshot
    <2>1. /\ out' = rx_out /\ UNCHANGED <<count, rx_in, rx_out>>
          /\ pc' = IF n' = 0 THEN "read wait" ELSE "read copy"
      BY <1>6 DEF ReadSnapshot, rx
    <2>2. n' = AtMost(IF rx_in >= rx_out THEN rx_in - rx_out ELSE LEN - rx_out, count)
      BY <1>6 DEF ReadSnapshot
    <2>3. /\ n' \in 0 .. LEN - rx_out /\ n' <= Used(rx_in, rx_out) /\ n' <= count
      BY <1>1, <2>2 DEF AtMost, Used, Index
    <2>4. pc' = "read wait" \/ (pc' = "read copy" /\ n' # 0)
      BY <2>1
    <2>5. Used(rx_in, rx_out)' = Used(rx_in, rx_out)
      BY <2>1 DEF Used
    <2>6. pc' = "read copy" => n' \in 1 .. LEN - out' /\ n' <= Used(rx_in, rx_out)' /\ n' <= count'
      <3>1. n' # 0 => n' \in 1 .. LEN - rx_out
        BY <1>1, <2>3 DEF Index
      <3>2. out' = rx_out /\ count' = count
        BY <2>1
      <3> QED
        BY <2>3, <2>4, <2>5, <3>1, <3>2
    <2>7. pc' \in {"read wait", "read copy"} /\ out' = rx_out'
      BY <2>1, <2>4
    <2> QED
      BY <2>6, <2>7 DEF ReadCall
  <1>7. CASE ReadCopy
    <2>1. pc = "read copy" /\ pc' = "read advance" /\ moved' = TRUE
      BY <1>7 DEF ReadCopy, ReadCopyFrom, At
    <2>2. UNCHANGED <<rx_in, rx_out, out, n>>
      BY <1>7 DEF ReadCopy, ReadCopyFrom, rx
    <2>3. Used(rx_in, rx_out)' = Used(rx_in, rx_out)
      BY <2>2 DEF Used
    <2> QED
      BY <1>3, <2>1, <2>2, <2>3 DEF ReadCall
  <1>8. CASE Close \/ ReadEnd \/ WriteEnd
    BY <1>8 DEF Close, ReadEnd, WriteEnd, Return, ReadCall
  <1>9. CASE ReadAdvance \/ ReadWait \/ ReadAgain \/ ReadNothing
    <2>1. pc' \in {"read", "read end", "read again"}
      BY <1>9 DEF ReadAdvance, ReadWait, ReadAgain, ReadNothing, Goto
    <2> QED
      BY <2>1 DEF ReadCall
  <1>10. CASE Write /\ ~WriteEnd
    <2>1. pc' \in Writing
      BY <1>10 DEF Write, WriteSnapshot, WriteCopy, WriteAdvance, WriteNothing, WriteKick,
                   WriteWait, WriteAgain, Goto, Writing
    <2> QED
      BY <2>1 DEF ReadCall, Writing
  <1> QED
    BY <1>4, <1>5, <1>6, <1>7, <1>8, <1>9, <1>10 DEF Next, Read

LEMMA WriteCallInv ==
  ASSUME IInv, Next
  PROVE  WriteCall'
  <1>1. /\ tx_in \in Index /\ tx_out \in Index /\ LEN \in Nat /\ count \in 0 .. MaxCall
        /\ n \in 0 .. LEN - 1 /\ MaxCall \in Nat /\ written \in Nat
    BY Types, SizeAssumption DEF IInv, Numbers
  <1>2. Used(tx_in, tx_out) \in 0 .. LEN - 1
    BY <1>1, RingBounds
  <1>3. WriteCall
    BY DEF IInv
  <1>4. CASE HostSend \/ HostFetch \/ HostPause \/ Alarm \/ Isr
    <2>1. /\ UNCHANGED <<pc, in, n, count, written, tx_in>>
          /\ Used(tx_in, tx_out)' <= Used(tx_in, tx_out)
      BY <1>4, Between
    <2>2. n < LEN - Used(tx_in, tx_out) => n < LEN - Used(tx_in, tx_out)'
      <3>1. Used(tx_in', tx_out') \in Int
        <4>1. TypeOK'
          BY TypeInv
        <4>2. tx_in' \in Index /\ tx_out' \in Index
          BY <4>1 DEF TypeOK
        <4> QED
          BY <1>1, <4>2 DEF Used, Index
      <3>2. Used(tx_in, tx_out)' = Used(tx_in', tx_out')
        BY DEF Used
      <3> QED
        BY <1>1, <1>2, <2>1, <3>1, <3>2
    <2> QED
      BY <1>3, <2>1, <2>2 DEF WriteCall
  <1>5. CASE CallRead \/ CallClose \/ CallSetTimeout
    <2>1. pc' \in {"read", "close", "idle"}
      BY <1>5 DEF CallRead, CallClose, Call, CallSetTimeout, At, program
    <2> QED
      BY <2>1 DEF WriteCall
  <1>6. CASE CallWrite
    <2>1. pc' = "write"
      BY <1>6 DEF CallWrite, Call
    <2> QED
      BY <2>1 DEF WriteCall
  <1>7. CASE WriteSnapshot
    <2>1. /\ in' = tx_in /\ UNCHANGED <<count, written, tx_in, tx_out>>
          /\ pc' = IF n' = 0 THEN "write kick" ELSE "write copy"
      BY <1>7 DEF WriteSnapshot, tx
    <2>2. n' = AtMost(Room(tx_in, tx_out), count)
      BY <1>7 DEF WriteSnapshot
    <2>3. n' \in 0 .. LEN - tx_in /\ n' < LEN - Used(tx_in, tx_out) /\ n' <= count
      BY <1>1, <2>2 DEF AtMost, Room, Used, Index
    <2>4. pc' = "write kick" \/ (pc' = "write copy" /\ n' # 0)
      BY <2>1
    <2>5. Used(tx_in, tx_out)' = Used(tx_in, tx_out)
      BY <2>1 DEF Used
    <2>6. pc' = "write copy" => n' \in 1 .. LEN - in' /\ n' < LEN - Used(tx_in, tx_out)' /\ n' <= count'
      <3>1. n' # 0 => n' \in 1 .. LEN - tx_in
        BY <1>1, <2>3 DEF Index
      <3>2. in' = tx_in /\ count' = count
        BY <2>1
      <3> QED
        BY <2>3, <2>4, <2>5, <3>1, <3>2
    <2>7. pc' \in {"write kick", "write copy"} /\ in' = tx_in' /\ written' = written /\ count' = count
      BY <2>1, <2>4
    <2> QED
      BY <2>6, <2>7 DEF WriteCall
  <1>8. CASE WriteCopy
    <2>1. pc = "write copy" /\ pc' = "write advance" /\ written' = written + n /\ count' = count - n
      BY <1>8 DEF WriteCopy, At
    <2>2. UNCHANGED <<tx_in, tx_out, in, n>>
      BY <1>8 DEF WriteCopy
    <2>3. Used(tx_in, tx_out)' = Used(tx_in, tx_out)
      BY <2>2 DEF Used
    <2> QED
      BY <1>3, <2>1, <2>2, <2>3 DEF WriteCall
  <1>9. CASE WriteAdvance \/ WriteNothing \/ WriteKick \/ WriteWait \/ WriteAgain
    <2>1. pc' \in {"write", "write kick", "write wait", "write again", "write end"}
      BY <1>9 DEF WriteAdvance, WriteNothing, WriteKick, WriteWait, WriteAgain, Goto
    <2> QED
      BY <2>1 DEF WriteCall
  <1>10. CASE Close \/ ReadEnd \/ WriteEnd
    BY <1>10 DEF Close, ReadEnd, WriteEnd, Return, WriteCall
  <1>11. CASE Read /\ ~ReadEnd
    <2>1. pc' \in Reading
      BY <1>11 DEF Read, ReadSnapshot, ReadCopy, ReadCopyFrom, ReadAdvance, ReadWait, ReadAgain, ReadNothing,
                   Goto, Reading
    <2> QED
      BY <2>1 DEF WriteCall, Reading
  <1> QED
    BY <1>4, <1>5, <1>6, <1>7, <1>8, <1>9, <1>10, <1>11 DEF Next, Write

LEMMA RxArmedInv ==
  ASSUME IInv, Next
  PROVE  RxArmed'
  <1> USE DEF rx, tx, driver, program, locals
  <1>1. RxArmed /\ ReadCall
    BY DEF IInv
  <1>2. CASE HostSend \/ HostFetch \/ HostPause \/ Alarm
    BY <1>1, <1>2 DEF HostSend, HostFetch, HostPause, Alarm, RxArmed, RxFull
  <1>3. CASE Isr
    <2>1. UNCHANGED <<pc, moved>> /\ UNCHANGED rx_out
      BY <1>3, Between
    <2>2. CASE Receive
      <3>1. ~RxFull /\ UNCHANGED irq_enable
        BY <2>2 DEF Receive, TakeByte
      <3> QED
        BY <1>1, <2>1, <3>1 DEF RxArmed
    <2>3. CASE ReceiveDone
      <3>1. UNCHANGED <<rx_in, rx_out>> /\ (UNCHANGED irq_enable \/ RxFull)
        BY <2>3 DEF ReceiveDone
      <3> QED
        BY <1>1, <2>1, <3>1 DEF RxArmed, RxFull
    <2>4. CASE Interrupt \/ ReadControl \/ Transmit \/ TransmitDone
      <3>1. UNCHANGED <<rx_in, rx_out>> /\ ("RE" \in irq_enable' <=> "RE" \in irq_enable)
        BY <2>4 DEF Interrupt, ReadControl, Transmit, GiveByte, TransmitDone
      <3> QED
        BY <1>1, <2>1, <3>1 DEF RxArmed, RxFull
    <2> QED
      BY <1>3, <2>2, <2>3, <2>4 DEF Isr
  <1>4. CASE CallRead \/ CallWrite \/ CallClose \/ CallSetTimeout \/ Write \/ Close
    <2>1. /\ UNCHANGED <<rx_in, rx_out>> /\ ("RE" \in irq_enable' <=> "RE" \in irq_enable)
          /\ pc \in {"idle", "close"} \union Writing
      <3>1. CASE CallRead \/ CallWrite \/ CallClose \/ CallSetTimeout \/ Close
        BY <3>1 DEF CallRead, CallWrite, CallClose, Call, CallSetTimeout, Close, Return, At
      <3>2. CASE Write
        <4>1. CASE WriteSnapshot \/ WriteCopy \/ WriteAdvance
          BY <4>1 DEF WriteSnapshot, WriteCopy, WriteAdvance, At, Writing
        <4>2. CASE WriteNothing \/ WriteKick \/ WriteWait \/ WriteAgain \/ WriteEnd
          BY <4>2 DEF WriteNothing, WriteKick, WriteWait, WriteAgain, WriteEnd, Return, Goto, At, Writing
        <4> QED
          BY <3>2, <4>1, <4>2 DEF Write
      <3> QED
        BY <1>4, <3>1, <3>2
    <2> QED
      BY <1>1, <2>1 DEF RxArmed, RxFull, Reading, Writing
  <1>5. CASE ReadAdvance
    <2>1. pc = "read advance" /\ pc' \in Reading /\ UNCHANGED moved
      BY <1>5 DEF ReadAdvance, At, Reading
    <2>2. moved'
      BY <1>1, <2>1 DEF ReadCall
    <2> QED
      BY <2>1, <2>2 DEF RxArmed
  <1>6. CASE ReadCopy
    <2>1. pc' = "read advance" /\ moved' = TRUE
      BY <1>6 DEF ReadCopy, ReadCopyFrom
    <2> QED
      BY <2>1 DEF RxArmed, Reading
  <1>7. CASE ReadSnapshot \/ ReadWait \/ ReadAgain \/ ReadNothing
    <2>1. UNCHANGED <<rx_in, rx_out, irq_enable, moved>> /\ pc' \in Reading
      BY <1>7 DEF ReadSnapshot, ReadWait, ReadAgain, ReadNothing, Goto, Reading
    <2> QED
      BY <1>1, <2>1 DEF RxArmed, RxFull
  <1>8. CASE ReadEnd
    <2>1. UNCHANGED <<rx_in, rx_out>> /\ (moved => "RE" \in irq_enable') /\ (~moved => UNCHANGED irq_enable)
      BY <1>8 DEF ReadEnd, Return
    <2> QED
      BY <1>1, <2>1 DEF RxArmed, RxFull
  <1> QED
    BY <1>2, <1>3, <1>4, <1>5, <1>6, <1>7, <1>8 DEF Next, Read

LEMMA QueuedIsArmedInv ==
  ASSUME IInv, Next
  PROVE  QueuedIsArmed'
  <1> USE DEF rx, tx, driver, program, locals, At
  <1> DEFINE OnItsWay == pc \in {"write", "write copy", "write advance", "write kick"}
  <1>1. QueuedIsArmed
    BY DEF IInv
  <1>2. CASE HostSend \/ HostFetch \/ HostPause \/ Alarm
    BY <1>1, <1>2 DEF HostSend, HostFetch, HostPause, Alarm, QueuedIsArmed
  <1>3. CASE Isr
    <2>1. UNCHANGED <<pc, tx_in>>
      BY <1>3, Between
    <2>2. CASE Transmit
      <3>1. tx_out # tx_in /\ UNCHANGED irq_enable
        BY <2>2 DEF Transmit, GiveByte
      <3> QED
        BY <1>1, <2>1, <3>1 DEF QueuedIsArmed
    <2>3. CASE TransmitDone
      <3>1. UNCHANGED tx_out /\ (UNCHANGED irq_enable \/ tx_out = tx_in)
        <4>1. space \in Nat
          BY Types, SizeAssumption DEF IInv, Numbers
        <4> QED
          BY <2>3, <4>1 DEF TransmitDone
      <3> QED
        BY <1>1, <2>1, <3>1 DEF QueuedIsArmed
    <2>4. CASE Interrupt \/ ReadControl \/ Receive \/ ReceiveDone
      <3>1. UNCHANGED tx_out /\ ("WE" \in irq_enable' <=> "WE" \in irq_enable)
        BY <2>4 DEF Interrupt, ReadControl, Receive, TakeByte, ReceiveDone
      <3> QED
        BY <1>1, <2>1, <3>1 DEF QueuedIsArmed
    <2> QED
      BY <1>3, <2>2, <2>3, <2>4 DEF Isr
  <1>4. CASE CallRead \/ CallWrite \/ CallClose \/ CallSetTimeout \/ Read \/ Close
    <2>1. UNCHANGED <<tx_in, tx_out>> /\ ("WE" \in irq_enable => "WE" \in irq_enable') /\ ~OnItsWay
      <3>1. CASE CallRead \/ CallWrite \/ CallClose \/ CallSetTimeout \/ Close
        BY <3>1 DEF CallRead, CallWrite, CallClose, Call, CallSetTimeout, Close, Return
      <3>2. CASE Read
        <4>1. CASE ReadSnapshot \/ ReadCopy \/ ReadAdvance
          BY <4>1 DEF ReadSnapshot, ReadCopy, ReadCopyFrom, ReadAdvance
        <4>2. CASE ReadWait \/ ReadAgain \/ ReadNothing \/ ReadEnd
          BY <4>2 DEF ReadWait, ReadAgain, ReadNothing, ReadEnd, Return, Goto
        <4> QED
          BY <3>2, <4>1, <4>2 DEF Read
      <3> QED
        BY <1>4, <3>1, <3>2
    <2> QED
      BY <1>1, <2>1 DEF QueuedIsArmed
  <1>5. CASE WriteSnapshot \/ WriteCopy \/ WriteAdvance \/ WriteNothing
    <2>1. OnItsWay'
      BY <1>5 DEF WriteSnapshot, WriteCopy, WriteAdvance, WriteNothing, Goto
    <2> QED
      BY <2>1 DEF QueuedIsArmed
  <1>6. CASE WriteKick
    BY <1>6 DEF WriteKick, QueuedIsArmed
  <1>7. CASE WriteWait \/ WriteAgain \/ WriteEnd
    <2>1. UNCHANGED <<tx_in, tx_out, irq_enable>> /\ ~OnItsWay
      BY <1>7 DEF WriteWait, WriteAgain, WriteEnd, Return, Goto
    <2> QED
      BY <1>1, <2>1 DEF QueuedIsArmed
  <1> QED
    BY <1>2, <1>3, <1>4, <1>5, <1>6, <1>7 DEF Next, Write

(***************************************************************************)
(* Theorems.                                                               *)
(***************************************************************************)
LEMMA StepInv == IInv /\ [Next]_vars => IInv'
  <1> SUFFICES ASSUME IInv, [Next]_vars PROVE IInv'
    OBVIOUS
  <1>1. TypeOK'
    BY TypeInv
  <1>2. CASE UNCHANGED vars
    <2> USE <1>2 DEF IInv, vars, host, rx, tx, driver, handler, program, locals
    <2>1. RxRing'
      BY DEF RxRing, Gone, Used, Slot
    <2>2. TxRing'
      BY DEF TxRing, Pending, Used, Slot
    <2>3. ReadCall'
      BY DEF ReadCall, Used
    <2>4. WriteCall'
      BY DEF WriteCall, Used
    <2>5. RxArmed' /\ QueuedIsArmed'
      BY DEF RxArmed, RxFull, Reading, QueuedIsArmed
    <2> QED
      BY <1>1, <2>1, <2>2, <2>3, <2>4, <2>5
  <1>3. CASE Next
    BY <1>1, <1>3, RxRingInv, TxRingInv, ReadCallInv, WriteCallInv, RxArmedInv, QueuedIsArmedInv DEF IInv
  <1> QED
    BY <1>2, <1>3

THEOREM Invariance == Spec => []IInv
  BY InitInv, StepInv, PTL DEF Spec

(* The types of the driver's, the device's and the program's state hold of *)
(* every run, for every size of the rings and of the FIFOs.                *)
THEOREM TypeCorrect == Spec => []TypeOK
  BY Invariance, PTL DEF IInv

(* The interrupt routine masks the read interrupt without losing a wakeup: *)
(* while it is masked the ring is full or a read is on its way to unmask.  *)
THEOREM ReadIsUnmasked == Spec => []MaskedOnlyWhenFull
  <1>1. IInv => MaskedOnlyWhenFull
    BY DEF IInv, RxArmed, MaskedOnlyWhenFull
  <1> QED
    BY <1>1, Invariance, PTL

(* As long as the transmit ring holds bytes, the transmit interrupt is     *)
(* enabled or a write is on its way to enable it.                          *)
THEOREM QueuedBytesAreArmed == Spec => []QueuedIsArmed
  BY Invariance, PTL DEF IInv

LEMMA SeqAppend ==
  ASSUME NEW t \in Seq(Nat), NEW e \in Nat
  PROVE  Append(t, e) = t \o [i \in 1 .. 1 |-> e]
  OBVIOUS

(* Every step of the driver is a step of the abstract stream of its        *)
(* receiving direction, or leaves it alone.                                *)
LEMMA ReceiveStep ==
  ASSUME IInv, [Next]_vars
  PROVE  [RxStream!Enter \/ RxStream!Leave]_<<sent, delivered>>
  <1>1. /\ rx_in \in Index /\ rx_out \in Index /\ sent \in Nat /\ stored \in 0 .. sent
        /\ Len(delivered) \in Nat /\ n \in 0 .. LEN - 1 /\ LEN \in Nat /\ Depth \in Nat
    BY Types, SizeAssumption DEF IInv, Numbers
  <1>2. stored = Gone + Used(rx_in, rx_out) /\ Used(rx_in, rx_out) \in 0 .. LEN - 1
    BY <1>1, RingBounds DEF IInv, RxRing
  <1>3. Gone \in Int /\ Gone <= Len(delivered)
    <2>1. Gone = Len(delivered) \/ Gone = Len(delivered) - n
      BY DEF Gone
    <2> QED
      BY <1>1, <2>1
  <1>4. CASE HostSend
    <2>1. sent' = sent + 1 /\ UNCHANGED delivered /\ sent - stored < Depth
      BY <1>4 DEF HostSend, ReadFifo, program
    <2>2. 1 \in 1 .. (Depth + LEN - 1) - (sent - Len(delivered))
      BY <1>1, <1>2, <1>3, <2>1
    <2> QED
      BY <2>1, <2>2 DEF RxStream!Enter, RxStream!Held
  <1>5. CASE ReadCopy
    <2>1. /\ n \in 1 .. LEN - rx_out /\ n <= Used(rx_in, rx_out) /\ Gone = Len(delivered)
          /\ delivered' = delivered \o [k \in 1 .. n |-> Len(delivered) + k]
      BY <1>5, ReadCopyIsNext
    <2>2. UNCHANGED sent
      BY <1>5 DEF ReadCopy, ReadCopyFrom, host
    <2>3. n \in 1 .. sent - Len(delivered)
      BY <1>1, <1>2, <2>1
    <2> QED
      BY <2>1, <2>2, <2>3 DEF RxStream!Leave, RxStream!Held
  <1>6. CASE UNCHANGED <<sent, delivered>>
    BY <1>6
  <1>7. HostSend \/ ReadCopy \/ UNCHANGED <<sent, delivered>>
    <2> USE DEF host, program
    <2>1. CASE UNCHANGED vars
      BY <2>1 DEF vars
    <2>2. CASE HostFetch \/ HostPause \/ Alarm
      BY <2>2 DEF HostFetch, HostPause, Alarm
    <2>3. CASE Isr
      BY <2>3 DEF Isr, Interrupt, ReadControl, Receive, TakeByte, ReceiveDone, Transmit, GiveByte, TransmitDone
    <2>4. CASE CallRead \/ CallWrite \/ CallClose \/ CallSetTimeout \/ Close
      BY <2>4 DEF CallRead, CallWrite, CallClose, Call, CallSetTimeout, Close, Return
    <2>5. CASE Read /\ ~ReadCopy
      BY <2>5 DEF Read, ReadSnapshot, ReadAdvance, ReadWait, ReadAgain, ReadNothing, ReadEnd, Return, Goto
    <2>6. CASE Write
      BY <2>6 DEF Write, WriteSnapshot, WriteCopy, WriteAdvance, WriteNothing, WriteKick, WriteWait,
                  WriteAgain, WriteEnd, Return, Goto
    <2> QED
      BY <2>1, <2>2, <2>3, <2>4, <2>5, <2>6 DEF Next, Read
  <1> QED
    BY <1>4, <1>5, <1>6, <1>7

(* The driver's receiving direction implements the abstract stream: what   *)
(* the program is handed is what the host sent, in order, and at most a    *)
(* device FIFO and a ring less one slot of bytes are underway.             *)
THEOREM ReceivingIsAStream == Spec => Receives
  <1>1. Init => RxStream!Init
    BY DEF Init, RxStream!Init
  <1> QED
    BY <1>1, Invariance, ReceiveStep, PTL DEF Spec, Receives, RxStream!Spec

(* The same for what the program writes, through the transmit ring.        *)
LEMMA TransmitStep ==
  ASSUME IInv, [Next]_vars
  PROVE  [TxStream!Enter \/ TxStream!Leave]_<<written, wire>>
  <1>1. /\ tx_in \in Index /\ tx_out \in Index /\ wire \in Seq(Nat) /\ Len(wire) \in Nat
        /\ n \in 0 .. LEN - 1 /\ LEN \in Nat
    BY Types, SizeAssumption DEF IInv, Numbers
  <1>2. /\ written = Len(wire) + Used(tx_in, tx_out) + Pending
        /\ \A k \in 0 .. Used(tx_in, tx_out) + Pending - 1 : tx_buf[Slot(tx_out, k)] = Len(wire) + 1 + k
        /\ Used(tx_in, tx_out) \in 0 .. LEN - 1
    BY <1>1, RingBounds DEF IInv, TxRing
  <1>3. Pending \in Nat
    <2>1. Pending = n \/ Pending = 0
      BY DEF Pending
    <2> QED
      BY <1>1, <2>1
  <1>4. CASE WriteCopy
    <2>1. written' = written + n /\ UNCHANGED wire /\ pc = "write copy"
      BY <1>4 DEF WriteCopy, At
    <2>2. n >= 1 /\ n < LEN - Used(tx_in, tx_out) /\ Pending = 0
      <3>1. n \in 1 .. LEN - in /\ n < LEN - Used(tx_in, tx_out)
        BY <2>1 DEF IInv, WriteCall
      <3>2. Pending = 0
        BY <2>1 DEF Pending
      <3> QED
        BY <3>1, <3>2
    <2>3. n \in 1 .. (LEN - 1) - (written - Len(wire))
      BY <1>1, <1>2, <2>2
    <2> QED
      BY <2>1, <2>3 DEF TxStream!Enter, TxStream!Held
  <1>5. CASE Transmit
    <2>1. tx_out # tx_in /\ wire' = Append(wire, tx_buf[tx_out])
      BY <1>5, GivesByte DEF Transmit
    <2>2. UNCHANGED written
      BY <1>5 DEF Transmit, GiveByte, program
    <2>3. Used(tx_in, tx_out) # 0
      BY <1>1, <2>1, RingBounds
    <2>4. Slot(tx_out, 0) = tx_out
      BY <1>1 DEF Slot, Index
    <2>5. 0 \in 0 .. Used(tx_in, tx_out) + Pending - 1
      BY <1>2, <1>3, <2>3
    <2>6. tx_buf[tx_out] = Len(wire) + 1
      BY <1>1, <1>2, <2>4, <2>5
    <2>7. wire' = wire \o [i \in 1 .. 1 |-> Len(wire) + i]
      <3>1. wire' = wire \o [i \in 1 .. 1 |-> Len(wire) + 1]
        BY <1>1, <2>1, <2>6, SeqAppend
      <3>2. [i \in 1 .. 1 |-> Len(wire) + 1] = [i \in 1 .. 1 |-> Len(wire) + i]
        BY <1>1
      <3> QED
        BY <3>1, <3>2
    <2>8. 1 \in 1 .. written - Len(wire)
      BY <1>1, <1>2, <1>3, <2>3
    <2> QED
      BY <2>2, <2>7, <2>8 DEF TxStream!Leave, TxStream!Held
  <1>6. CASE UNCHANGED <<written, wire>>
    BY <1>6
  <1>7. WriteCopy \/ Transmit \/ UNCHANGED <<written, wire>>
    <2>1. CASE UNCHANGED vars
      BY <2>1 DEF vars, tx, program
    <2>2. CASE WriteAdvance
      BY <2>2 DEF WriteAdvance
    <2> QED
      BY <2>1, <2>2, TxFrame DEF tx
  <1> QED
    BY <1>4, <1>5, <1>6, <1>7

(* The transmitting direction implements the abstract stream: what goes    *)
(* over the wire is what the program wrote, in order, with at most the     *)
(* ring less one slot underway.                                            *)
THEOREM TransmittingIsAStream == Spec => Transmits
  <1>1. Init => TxStream!Init
    BY DEF Init, TxStream!Init
  <1> QED
    BY <1>1, Invariance, TransmitStep, PTL DEF Spec, Transmits, TxStream!Spec
=============================================================================
