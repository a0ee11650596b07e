------------------------------ MODULE HalAlarms ------------------------------
(***************************************************************************)
(* The system clock of the HAL: the timer's interrupt routine calls        *)
(* alt_tick, which counts and walks the circular list of alarms, calling   *)
(* those that are due.  The program starts and stops alarms between any    *)
(* two ticks, and so may callbacks, in the middle of the walk.  Ticks are  *)
(* alt_u32 and wrap; here they wrap at Word.                               *)
(***************************************************************************)
EXTENDS HalIrq

CONSTANTS
  Alarms,
  ListHead,    \* alt_alarm_list
  Word,        \* 2^32
  Delays,      \* arguments of alt_alarm_start
  Periods      \* results of callbacks

ASSUME AlarmAssumption ==
  /\ ListHead \notin Alarms /\ NULL \notin Alarms \union {ListHead}
  /\ Word \in Nat \ {0}
  /\ Delays \subseteq 0 .. Word - 2
  /\ Periods \subseteq 0 .. Word - 1

VARIABLES
  _alt_nticks,
  next, previous,   \* links of the list's head and entries
  time, rollover,   \* per alarm
  alarm, nextAlarm, \* locals of alt_tick
  armed,            \* alarms started and not stopped since
  due,              \* per alarm started, the ticks still to go
  cut               \* a callback of this tick stopped the alarm next in turn

tickVars == <<_alt_nticks, next, previous, time, rollover, alarm, nextAlarm, armed, due, cut>>
vars == <<irqVars, tickVars>>
cpuRest == <<mode, pie, saved, ienable, alt_irq, line>>

Nodes == Alarms \union {ListHead}

(* The time is taken before the interrupts are off. *)
StartUnguarded(a, n) == <<[op |-> "time", alarm |-> a, ticks |-> n]>> \o Critical(<<[op |-> "link", alarm |-> a]>>)

Start(a, n) == Critical(<<[op |-> "time", alarm |-> a, ticks |-> n], [op |-> "link", alarm |-> a]>>)
Stop(a)     == Critical(<<[op |-> "unlink", alarm |-> a]>>)
TimerCode   == Critical(<<Do("tick"), Do("walk")>>)

TypeOK ==
  /\ mode \in {"main", "isr"} /\ pie \in BOOLEAN
  /\ ienable \subseteq Irqs /\ line \subseteq Irqs
  /\ alt_irq \in [Irqs -> [handler : Handlers \union {NULL, TimerIrq},
                           context : Handlers \union {NULL, TimerIrq}]]
  /\ _alt_nticks \in 0 .. Word - 1
  /\ next \in [Nodes -> Nodes \union {NULL}] /\ previous \in [Nodes -> Nodes \union {NULL}]
  /\ time \in [Alarms -> 0 .. Word - 1] /\ rollover \in [Alarms -> BOOLEAN]
  /\ alarm \in Nodes /\ nextAlarm \in Nodes
  /\ armed \subseteq Alarms /\ due \in [Alarms -> 0 .. Word - 1] /\ cut \in BOOLEAN

(* After the boot: the timer runs and is registered, no alarm is. *)
Init ==
  /\ IrqInit
  /\ _alt_nticks = 0
  /\ next = [x \in Nodes |-> IF x = ListHead THEN ListHead ELSE NULL]
  /\ previous = next
  /\ time = [a \in Alarms |-> 0] /\ rollover = [a \in Alarms |-> FALSE]
  /\ alarm = ListHead /\ nextAlarm = ListHead
  /\ armed = {} /\ due = [a \in Alarms |-> 0] /\ cut = FALSE

(***************************************************************************)
(* alt_alarm_start and alt_alarm_stop.  A caller starts an alarm only when *)
(* it is not on the list, and stops one only after it was once started.    *)
(***************************************************************************)
CallStart(a, n) ==
  /\ Idle /\ a \notin armed
  /\ Then(Start(a, n))
  /\ UNCHANGED <<cpuRest, tickVars>>

CallStop(a) ==
  /\ Idle /\ next[a] # NULL
  /\ Then(Stop(a))
  /\ UNCHANGED <<cpuRest, tickVars>>

SetTime ==
  /\ Executes("time")
  /\ LET c == Head(code[mode])
         t == (c.ticks + _alt_nticks + 1) % Word
     IN  /\ time' = [time EXCEPT ![c.alarm] = t]
         /\ rollover' = [rollover EXCEPT ![c.alarm] = t < _alt_nticks]
         /\ due' = [due EXCEPT ![c.alarm] = c.ticks + 1]
  /\ Then(Rest)
  /\ UNCHANGED <<cpuRest, _alt_nticks, next, previous, alarm, nextAlarm, armed, cut>>

Link ==
  /\ Executes("link")
  /\ LET a == Head(code[mode]).alarm IN
       /\ next' = [next EXCEPT ![a] = next[ListHead], ![ListHead] = a]
       /\ previous' = [previous EXCEPT ![a] = ListHead, ![next[ListHead]] = a]
       /\ armed' = armed \union {a}
  /\ Then(Rest)
  /\ UNCHANGED <<cpuRest, _alt_nticks, time, rollover, alarm, nextAlarm, due, cut>>

(* The entry keeps its links. *)
UnlinkKeepsLinks ==
  /\ Executes("unlink")
  /\ LET a == Head(code[mode]).alarm IN
       /\ next' = [next EXCEPT ![previous[a]] = next[a]]
       /\ previous' = [previous EXCEPT ![next[a]] = previous[a]]
       /\ armed' = armed \ {a}
       /\ due' = [due EXCEPT ![a] = 0]
       /\ cut' = (cut \/ (mode = "isr" /\ a = nextAlarm))
  /\ Then(Rest)
  /\ UNCHANGED <<cpuRest, _alt_nticks, time, rollover, alarm, nextAlarm>>

Unlink ==
  /\ Executes("unlink")
  /\ LET a == Head(code[mode]).alarm IN
       /\ next' = [next EXCEPT ![previous[a]] = next[a], ![a] = a]
       /\ previous' = [previous EXCEPT ![next[a]] = previous[a], ![a] = a]
       /\ armed' = armed \ {a}
       /\ due' = [due EXCEPT ![a] = 0]
       /\ cut' = (cut \/ (mode = "isr" /\ a = nextAlarm))
  /\ Then(Rest)
  /\ UNCHANGED <<cpuRest, _alt_nticks, time, rollover, alarm, nextAlarm>>

(***************************************************************************)
(* alt_tick.                                                               *)
(***************************************************************************)
(* The count is not kept in 32 bits. *)
TickNoWrap ==
  /\ Executes("tick")
  /\ _alt_nticks' = _alt_nticks + 1
  /\ alarm' = next[ListHead]
  /\ due' = [a \in Alarms |-> IF a \in armed /\ due[a] > 0 THEN due[a] - 1 ELSE due[a]]
  /\ Then(Rest)
  /\ UNCHANGED <<cpuRest, next, previous, time, rollover, nextAlarm, armed, cut>>

Tick ==
  /\ Executes("tick")
  /\ _alt_nticks' = (_alt_nticks + 1) % Word
  /\ alarm' = next[ListHead]
  /\ due' = [a \in Alarms |-> IF a \in armed /\ due[a] > 0 THEN due[a] - 1 ELSE due[a]]
  /\ Then(Rest)
  /\ UNCHANGED <<cpuRest, next, previous, time, rollover, nextAlarm, armed, cut>>

RolledOver(a) == rollover[a] /\ _alt_nticks # 0

(* A due time past the wrap counts as passed. *)
ExpiredIgnoresRollover(a) == time[a] <= _alt_nticks

Expired(a) == time[a] <= _alt_nticks /\ ~RolledOver(a)

Visit ==
  /\ Executes("walk") /\ alarm # ListHead
  /\ nextAlarm' = next[alarm]
  /\ rollover' = [rollover EXCEPT ![alarm] = RolledOver(alarm)]
  /\ IF Expired(alarm)
       THEN Then(<<Do("callback")>> \o code[mode]) /\ UNCHANGED alarm
       ELSE alarm' = next[alarm] /\ UNCHANGED code
  /\ UNCHANGED <<cpuRest, _alt_nticks, next, previous, time, armed, due, cut>>

(* The locals are gone.                                                    *)
WalkEnds ==
  /\ Executes("walk") /\ alarm = ListHead
  /\ nextAlarm' = ListHead /\ cut' = FALSE
  /\ Then(Rest)
  /\ UNCHANGED <<cpuRest, _alt_nticks, next, previous, time, rollover, alarm, armed, due>>

(* A callback may start or stop an alarm before it returns a period. *)
Callback(calls, p) ==
  /\ Executes("callback")
  /\ Then(calls \o <<[op |-> "returned", period |-> p]>> \o Rest)
  /\ UNCHANGED <<cpuRest, tickVars>>

CallbackReturned ==
  /\ Executes("returned")
  /\ LET p == Head(code[mode]).period
         t == (time[alarm] + p) % Word
     IN  IF p = 0
           THEN /\ Then(Stop(alarm) \o <<Do("advance")>> \o Rest)
                /\ UNCHANGED <<time, rollover, alarm, due>>
           ELSE /\ time' = [time EXCEPT ![alarm] = t]
                /\ rollover' = [rollover EXCEPT ![alarm] = @ \/ t < _alt_nticks]
                /\ due' = [due EXCEPT ![alarm] = p]
                /\ alarm' = nextAlarm
                /\ Then(Rest)
  /\ UNCHANGED <<cpuRest, _alt_nticks, next, previous, nextAlarm, armed, cut>>

(* After a stop the walk follows the stopped alarm's own link. *)
AdvanceAlongLinks ==
  /\ Executes("advance")
  /\ alarm' = next[alarm]
  /\ Then(Rest)
  /\ UNCHANGED <<cpuRest, _alt_nticks, next, previous, time, rollover, nextAlarm, armed, due, cut>>

Advance ==
  /\ Executes("advance")
  /\ alarm' = nextAlarm
  /\ Then(Rest)
  /\ UNCHANGED <<cpuRest, _alt_nticks, next, previous, time, rollover, nextAlarm, armed, due, cut>>

Starting(b) == \E k \in DOMAIN code.main : code.main[k] \in [op : {"time"}, alarm : {b}, ticks : Delays]

CallbackCalls ==
  {<<>>} \union { Start(b, n) : b \in { c \in Alarms \ (armed \union {alarm}) : ~Starting(c) }, n \in Delays }
         \union { Stop(b) : b \in { c \in Alarms : next[c] # NULL } }

Program ==
  \/ \E i \in Irqs \ {0}, h \in Handlers \union {NULL} : CallRegister(i, h) /\ UNCHANGED tickVars
  \/ \E i \in Irqs \ {0}, on \in BOOLEAN : CallSetMask(i, on) /\ UNCHANGED tickVars
  \/ \E a \in Alarms, n \in Delays : CallStart(a, n)
  \/ \E a \in Alarms : CallStop(a)

Processor ==
  \/ IrqStep /\ UNCHANGED tickVars
  \/ Dispatch(TimerCode) /\ UNCHANGED tickVars
  \/ SetTime \/ Link \/ Unlink
  \/ Tick \/ Visit \/ WalkEnds \/ CallbackReturned \/ Advance
  \/ \E calls \in CallbackCalls, p \in Periods : Callback(calls, p)

Devices == \E i \in Irqs : Raise(i) /\ UNCHANGED tickVars

Next == Program \/ Processor \/ Devices \/ (Interrupt /\ UNCHANGED tickVars)

Spec == Init /\ [][Next]_vars /\ WF_vars(Processor)

(***************************************************************************)
(* Properties.                                                             *)
(***************************************************************************)
Stopped == Alarms \ armed

(* A callback runs exactly on the tick its delay or period ends, with the  *)
(* counter wrapping in between or not: never before, and when the program  *)
(* runs again no alarm is overdue.                                         *)
CallbackOnTime ==
  /\ (Executes("callback") /\ ~cut) => (alarm \in armed /\ due[alarm] = 0)
  /\ mode = "main" => \A a \in armed : due[a] > 0

(* Whatever interrupts, callbacks and the program do in between, the alarms *)
(* keep the time Timers promises.                                          *)
Service == INSTANCE Timers WITH Longest <- Word - 1, left <- [a \in armed |-> due[a]]

KeepsTime == Service!Spec

(* From the head the links lead once through exactly the alarms that are   *)
(* started, backwards as forwards; stopping an alarm again is harmless.    *)
ListIsArmed ==
  LET List == armed \union {ListHead} IN
  /\ \A x \in List : next[x] \in List /\ previous[next[x]] = x
  /\ \A S \in SUBSET armed : S # {} => \E x \in S : next[x] \notin S
  /\ \A a \in Stopped : next[a] \in {NULL, a} /\ previous[a] = next[a]

(* The walk of a tick ends, unless a callback stopped the alarm that the   *)
(* walk had already noted as its next: that one is linked to itself.       *)
Walking == mode = "isr" /\ \E k \in DOMAIN code.isr : code.isr[k].op = "walk"

TickReturns == Walking ~> (~Walking \/ cut)
=============================================================================
