------------------------------- MODULE HalIrq -------------------------------
(***************************************************************************)
(* Interrupts of the Nios II as the HAL manages them: the processor's PIE  *)
(* bit, the IENABLE register (always written from its copy alt_irq_active, *)
(* inside a critical section), the table alt_irq of handlers, and the      *)
(* dispatch loop alt_irq_handler.  Two contexts share the processor, the   *)
(* program ("main") and the interrupt routine ("isr"), each with the       *)
(* instructions it still has to execute.  An interrupt is taken between    *)
(* any two instructions of the program while PIE is set.                   *)
(* alt_irq_disable_all saves PIE, alt_irq_enable_all restores what was     *)
(* saved, so that the two nest.                                            *)
(***************************************************************************)
EXTENDS Integers, SequencesExt

CONSTANTS
  Irqs,        \* interrupt numbers; 0 is the system timer's
  Handlers,    \* interrupt routines a program registers
  NULL

TimerIrq == "alt_avalon_timer_sc_irq"

ASSUME IrqAssumption ==
  Irqs \subseteq Nat /\ 0 \in Irqs /\ NULL \notin Handlers \union {TimerIrq}

VARIABLES
  mode,            \* the context that runs
  code,            \* per context, the instructions still to execute
  pie,             \* STATUS.PIE
  saved,           \* per context, the PIE bits its open critical sections saved
  ienable,         \* the IENABLE register, as a set of interrupts
  alt_irq,         \* handler and context of every interrupt
  line             \* interrupts the devices assert

irqVars == <<mode, code, pie, saved, ienable, alt_irq, line>>

Do(op) == [op |-> op]

Executes(op) == code[mode] # <<>> /\ Head(code[mode]).op = op
Rest == Tail(code[mode])
Then(instructions) == code' = [code EXCEPT ![mode] = instructions]

(* What a call comes to, instruction by instruction. *)
Critical(instructions) == <<Do("disable_all")>> \o instructions \o <<Do("enable_all")>>

SetMask(i, on) == Critical(<<[op |-> "mask", irq |-> i, on |-> on]>>)

(* Nothing keeps the two writes together. *)
RegisterUnguarded(i, h) ==
  <<[op |-> "handler", irq |-> i, isr |-> h], [op |-> "context", irq |-> i, isr |-> h]>>
  \o SetMask(i, h # NULL)

Register(i, h) ==
  Critical(<<[op |-> "handler", irq |-> i, isr |-> h], [op |-> "context", irq |-> i, isr |-> h]>>
           \o SetMask(i, h # NULL))

IrqInit ==
  /\ mode = "main"
  /\ code = [main |-> <<>>, isr |-> <<>>]
  /\ pie = TRUE
  /\ saved = [main |-> <<>>, isr |-> <<>>]
  /\ ienable = {0}
  /\ alt_irq = [i \in Irqs |-> IF i = 0 THEN [handler |-> TimerIrq, context |-> TimerIrq]
                                        ELSE [handler |-> NULL, context |-> NULL]]
  /\ line = {}

DisableAll ==
  /\ Executes("disable_all")
  /\ saved' = [saved EXCEPT ![mode] = Append(@, pie)]
  /\ pie' = FALSE
  /\ Then(Rest)
  /\ UNCHANGED <<mode, ienable, alt_irq, line>>

(* The inner enable already turns interrupts on. *)
EnableAllAlways ==
  /\ Executes("enable_all")
  /\ pie' = TRUE
  /\ saved' = [saved EXCEPT ![mode] = Front(@)]
  /\ Then(Rest)
  /\ UNCHANGED <<mode, ienable, alt_irq, line>>

EnableAll ==
  /\ Executes("enable_all")
  /\ pie' = Last(saved[mode])
  /\ saved' = [saved EXCEPT ![mode] = Front(@)]
  /\ Then(Rest)
  /\ UNCHANGED <<mode, ienable, alt_irq, line>>

WriteHandler ==
  /\ Executes("handler")
  /\ alt_irq' = [alt_irq EXCEPT ![Head(code[mode]).irq].handler = Head(code[mode]).isr]
  /\ Then(Rest)
  /\ UNCHANGED <<mode, pie, saved, ienable, line>>

WriteContext ==
  /\ Executes("context")
  /\ alt_irq' = [alt_irq EXCEPT ![Head(code[mode]).irq].context = Head(code[mode]).isr]
  /\ Then(Rest)
  /\ UNCHANGED <<mode, pie, saved, ienable, line>>

WriteMask ==
  /\ Executes("mask")
  /\ LET c == Head(code[mode]) IN
       ienable' = IF c.on THEN ienable \union {c.irq} ELSE ienable \ {c.irq}
  /\ Then(Rest)
  /\ UNCHANGED <<mode, pie, saved, alt_irq, line>>

(* The program calls alt_ic_isr_register, alt_ic_irq_enable or             *)
(* alt_ic_irq_disable.  Registering NULL masks the interrupt; the program  *)
(* itself masks and unmasks only what has a handler.                       *)
Idle == mode = "main" /\ code.main = <<>>

CallRegister(i, h) ==
  /\ Idle
  /\ Then(Register(i, h))
  /\ UNCHANGED <<mode, pie, saved, ienable, alt_irq, line>>

CallSetMask(i, on) ==
  /\ Idle /\ alt_irq[i].handler # NULL
  /\ Then(SetMask(i, on))
  /\ UNCHANGED <<mode, pie, saved, ienable, alt_irq, line>>

(* A device asserts its interrupt and holds it until it is cleared. *)
Raise(i) ==
  /\ i \notin line
  /\ line' = line \union {i}
  /\ UNCHANGED <<mode, code, pie, saved, ienable, alt_irq>>

Pending == line \intersect ienable

(* Exception entry clears PIE; ESTATUS, with PIE set, is restored by the   *)
(* return.                                                                 *)
Interrupt ==
  /\ mode = "main" /\ pie /\ Pending # {}
  /\ mode' = "isr"
  /\ pie' = FALSE
  /\ code' = [code EXCEPT !.isr = <<Do("dispatch")>>]
  /\ UNCHANGED <<saved, ienable, alt_irq, line>>

HandlerCode(h, i) == <<[op |-> "clear", irq |-> i]>>

(* One round of the loop: the lowest pending interrupt first. *)
Dispatch(timerCode) ==
  /\ Executes("dispatch") /\ Pending # {}
  /\ LET i == Min(Pending) IN
       Then(HandlerCode(alt_irq[i].handler, i)
            \o (IF alt_irq[i].handler = TimerIrq THEN timerCode ELSE <<>>) \o <<Do("dispatch")>>)
  /\ UNCHANGED <<mode, pie, saved, ienable, alt_irq, line>>

Clear ==
  /\ Executes("clear")
  /\ line' = line \ {Head(code[mode]).irq}
  /\ Then(Rest)
  /\ UNCHANGED <<mode, pie, saved, ienable, alt_irq>>

Return ==
  /\ Executes("dispatch") /\ Pending = {}
  /\ mode' = "main"
  /\ pie' = TRUE
  /\ Then(<<>>)
  /\ UNCHANGED <<saved, ienable, alt_irq, line>>

IrqStep ==
  \/ DisableAll \/ EnableAll \/ WriteHandler \/ WriteContext
  \/ WriteMask \/ Clear \/ Return

(* Interrupts stay off as long as a critical section is open, however they *)
(* nest, and in the whole interrupt routine; the program gets them back.   *)
CriticalSectionsHold ==
  /\ (mode = "isr" \/ saved.main # <<>>) => ~pie
  /\ Idle => pie

(* The dispatcher never calls a handler with another one's context, and    *)
(* never an interrupt without a handler.                                   *)
HandlerIsWhole ==
  Executes("dispatch") =>
    \A i \in Pending : alt_irq[i].handler # NULL /\ alt_irq[i].context = alt_irq[i].handler
=============================================================================
