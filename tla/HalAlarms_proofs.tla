-------------------------- MODULE HalAlarms_proofs --------------------------
(***************************************************************************)
(* Proofs about HalIrq and HalAlarms together, for any interrupts, alarms, *)
(* delays, periods and any width of the counter.  What is left of a call   *)
(* is a sequence of instructions; the invariant lists, by the instruction  *)
(* that is next, what the whole rest can be in either context, which       *)
(* sections are open there and what the program relies on.                 *)
(***************************************************************************)
EXTENDS HalAlarms, SequenceTheorems, TLAPS

List == armed \union {ListHead}

(***************************************************************************)
(* The list.  Both directions, and no set of alarms that the links never   *)
(* leave, which is what makes the circle pass through all of them.         *)
(***************************************************************************)
Linked ==
  /\ armed \subseteq Alarms
  /\ next \in [Nodes -> Nodes \union {NULL}] /\ previous \in [Nodes -> Nodes \union {NULL}]
  /\ \A x \in List : next[x] \in List /\ previous[next[x]] = x
  /\ \A x \in List : previous[x] \in List /\ next[previous[x]] = x
  /\ \A S \in SUBSET armed : S # {} => \E x \in S : next[x] \notin S
  /\ \A S \in SUBSET armed : S # {} => \E x \in S : previous[x] \notin S
  /\ \A a \in Stopped : next[a] \in {NULL, a} /\ previous[a] = next[a]

(* Every way from x along the links comes to a before it leaves the head.  *)
Closed(S) == \A x \in S \ {ListHead} : next[x] \in S

Ahead(x, a) == \A S \in SUBSET List : (x \in S /\ Closed(S)) => a \in S

(***************************************************************************)
(* The times.  Ends(a): the tick on which a is due.  At the tick that      *)
(* wraps, an alarm's flag is behind until the walk has passed it.          *)
(***************************************************************************)
Wraps(a) == _alt_nticks + due[a] >= Word

Clocked(a) ==
  /\ time[a] = IF Wraps(a) THEN _alt_nticks + due[a] - Word ELSE _alt_nticks + due[a]
  /\ _alt_nticks # 0 => (rollover[a] <=> Wraps(a))

Late(a) == due[a] = 0 \/ (_alt_nticks = 0 /\ rollover[a])

Counting(a) == Clocked(a) /\ ~Late(a)

(* No tick is under way. *)
Quiet == ~cut /\ \A a \in armed : Counting(a)

Trapped == nextAlarm \in Stopped /\ next[nextAlarm] = nextAlarm

(* The walk is about to look at alarm. *)
InWalk ==
  /\ next[alarm] # NULL
  /\ cut => Trapped /\ alarm = nextAlarm
  /\ ~cut => /\ alarm \in List
             /\ \A a \in armed : Clocked(a) /\ (Late(a) => Ahead(alarm, a))

(* The callback of alarm is under way. *)
InCallback ==
  /\ alarm \in Alarms /\ next[alarm] # NULL /\ next[nextAlarm] # NULL
  /\ alarm \in armed => due[alarm] = 0
  /\ cut => Trapped
  /\ ~cut => /\ nextAlarm \in List
             /\ alarm \in armed => ~rollover[alarm]
             /\ \A a \in armed : Clocked(a)
             /\ \A a \in armed \ {alarm} : Late(a) => Ahead(nextAlarm, a)

(***************************************************************************)
(* What is left to execute.                                                *)
(***************************************************************************)
DA == Do("disable_all")
EA == Do("enable_all")
Handler(i, h) == [op |-> "handler", irq |-> i, isr |-> h]
Context(i, h) == [op |-> "context", irq |-> i, isr |-> h]
Mask(i, on)   == [op |-> "mask", irq |-> i, on |-> on]
Time(a, n)    == [op |-> "time", alarm |-> a, ticks |-> n]
LinkIn(a)     == [op |-> "link", alarm |-> a]
TakeOut(a)    == [op |-> "unlink", alarm |-> a]
Returned(p)   == [op |-> "returned", period |-> p]

Served == {i \in Irqs : alt_irq[i].handler # NULL}
Fresh  == Alarms \ armed
OnceLinked == {a \in Alarms : next[a] # NULL}

MainOps == {"disable_all", "enable_all", "handler", "context", "mask", "time", "link", "unlink"}

MainEnters ==
  \/ /\ saved.main = <<>>
     /\ \/ \E i \in Irqs, h \in Handlers \union {NULL} :
             code.main = <<DA, Handler(i, h), Context(i, h), DA, Mask(i, h # NULL), EA, EA>>
        \/ \E i \in Served, on \in BOOLEAN : code.main = <<DA, Mask(i, on), EA>>
        \/ \E a \in Fresh, n \in Delays : code.main = <<DA, Time(a, n), LinkIn(a), EA>>
        \/ \E a \in OnceLinked : code.main = <<DA, TakeOut(a), EA>>
  \/ /\ saved.main = <<TRUE>>
     /\ \E i \in Irqs, on \in BOOLEAN :
          (on => i \in Served) /\ code.main = <<DA, Mask(i, on), EA, EA>>

MainLeaves ==
  \/ saved.main = <<TRUE>> /\ code.main = <<EA>>
  \/ saved.main = <<TRUE, FALSE>> /\ code.main = <<EA, EA>>

MainMasks ==
  \/ saved.main = <<TRUE>> /\ \E i \in Served, on \in BOOLEAN : code.main = <<Mask(i, on), EA>>
  \/ /\ saved.main = <<TRUE, FALSE>>
     /\ \E i \in Irqs, on \in BOOLEAN :
          (on => i \in Served) /\ code.main = <<Mask(i, on), EA, EA>>

MainSetsHandler ==
  /\ saved.main = <<TRUE>>
  /\ \E i \in Irqs, h \in Handlers \union {NULL} :
       code.main = <<Handler(i, h), Context(i, h), DA, Mask(i, h # NULL), EA, EA>>

MainSetsContext ==
  /\ saved.main = <<TRUE>>
  /\ \E i \in Irqs, h \in Handlers \union {NULL} :
       /\ code.main = <<Context(i, h), DA, Mask(i, h # NULL), EA, EA>>
       /\ alt_irq[i].handler = h

MainTimes ==
  /\ saved.main = <<TRUE>>
  /\ \E a \in Fresh, n \in Delays : code.main = <<Time(a, n), LinkIn(a), EA>>

MainLinks ==
  saved.main = <<TRUE>> /\ \E a \in Fresh : code.main = <<LinkIn(a), EA>> /\ Counting(a)

MainUnlinks ==
  saved.main = <<TRUE>> /\ \E a \in OnceLinked : code.main = <<TakeOut(a), EA>>

MainIn(op) ==
  /\ op = "disable_all" => MainEnters
  /\ op = "enable_all" => MainLeaves
  /\ op = "handler" => MainSetsHandler
  /\ op = "context" => MainSetsContext
  /\ op = "mask" => MainMasks
  /\ op = "time" => MainTimes
  /\ op = "link" => MainLinks
  /\ op = "unlink" => MainUnlinks

MainCode ==
  \/ code.main = <<>> /\ saved.main = <<>>
  \/ code.main # <<>> /\ Head(code.main).op \in MainOps /\ MainIn(Head(code.main).op)

(* After a call of the walk: its end, and what follows a callback. *)
Dsp  == Do("dispatch")
Wlk  == Do("walk")
Adv  == Do("advance")
TickThenWalk == <<DA, Do("tick"), Wlk, EA, Dsp>>

(* What a callback may start: nobody else is about to start it. *)
Startable == {b \in Fresh : b # alarm /\ ~Starting(b) /\ (cut => b # nextAlarm)}

After == {Returned(p) : p \in Periods}

IsrOps == {"disable_all", "enable_all", "dispatch", "clear", "tick", "walk", "callback",
           "time", "link", "unlink", "returned", "advance"}

IsrEnters ==
  \/ saved.isr = <<>> /\ code.isr = TickThenWalk /\ Quiet
  \/ /\ saved.isr = <<FALSE>> /\ InCallback
     /\ \/ \E b \in Startable, n \in Delays, r \in After :
             code.isr = <<DA, Time(b, n), LinkIn(b), EA, r, Wlk, EA, Dsp>>
        \/ \E b \in OnceLinked, r \in After : code.isr = <<DA, TakeOut(b), EA, r, Wlk, EA, Dsp>>
        \/ code.isr = <<DA, TakeOut(alarm), EA, Adv, Wlk, EA, Dsp>>

IsrLeaves ==
  \/ saved.isr = <<FALSE>> /\ code.isr = <<EA, Dsp>> /\ Quiet
  \/ /\ saved.isr = <<FALSE, FALSE>> /\ InCallback
     /\ \/ \E r \in After : code.isr = <<EA, r, Wlk, EA, Dsp>>
        \/ code.isr = <<EA, Adv, Wlk, EA, Dsp>> /\ alarm \notin armed

IsrDispatches == saved.isr = <<>> /\ code.isr = <<Dsp>> /\ Quiet

IsrClears == saved.isr = <<>> /\ Tail(code.isr) \in {<<Dsp>>, TickThenWalk} /\ Quiet

IsrTicks == saved.isr = <<FALSE>> /\ code.isr = <<Do("tick"), Wlk, EA, Dsp>> /\ Quiet

IsrWalks == saved.isr = <<FALSE>> /\ code.isr = <<Wlk, EA, Dsp>> /\ InWalk

IsrCalls ==
  /\ saved.isr = <<FALSE>> /\ code.isr = <<Do("callback"), Wlk, EA, Dsp>> /\ InCallback
  /\ IF cut THEN alarm = nextAlarm ELSE alarm \in armed

IsrReturns ==
  saved.isr = <<FALSE>> /\ InCallback /\ \E r \in After : code.isr = <<r, Wlk, EA, Dsp>>

IsrAdvances ==
  saved.isr = <<FALSE>> /\ InCallback /\ alarm \notin armed /\ code.isr = <<Adv, Wlk, EA, Dsp>>

IsrTimes ==
  /\ saved.isr = <<FALSE, FALSE>> /\ InCallback
  /\ \E b \in Startable, n \in Delays, r \in After :
       code.isr = <<Time(b, n), LinkIn(b), EA, r, Wlk, EA, Dsp>>

IsrLinks ==
  /\ saved.isr = <<FALSE, FALSE>> /\ InCallback
  /\ \E b \in Startable, r \in After :
       code.isr = <<LinkIn(b), EA, r, Wlk, EA, Dsp>> /\ due[b] # 0 /\ (~cut => Counting(b))

IsrUnlinks ==
  /\ saved.isr = <<FALSE, FALSE>> /\ InCallback
  /\ \/ \E b \in OnceLinked, r \in After : code.isr = <<TakeOut(b), EA, r, Wlk, EA, Dsp>>
     \/ code.isr = <<TakeOut(alarm), EA, Adv, Wlk, EA, Dsp>>

IsrIn(op) ==
  /\ op = "disable_all" => IsrEnters
  /\ op = "enable_all" => IsrLeaves
  /\ op = "dispatch" => IsrDispatches
  /\ op = "clear" => IsrClears
  /\ op = "tick" => IsrTicks
  /\ op = "walk" => IsrWalks
  /\ op = "callback" => IsrCalls
  /\ op = "returned" => IsrReturns
  /\ op = "advance" => IsrAdvances
  /\ op = "time" => IsrTimes
  /\ op = "link" => IsrLinks
  /\ op = "unlink" => IsrUnlinks

IsrCode == Head(code.isr).op \in IsrOps /\ IsrIn(Head(code.isr).op)

(***************************************************************************)
(* Contexts.  The interrupt routine runs only between two sections of the  *)
(* program, and the program only between two ticks.                        *)
(***************************************************************************)
Contexts ==
  /\ code = [main |-> code.main, isr |-> code.isr]
  /\ saved = [main |-> saved.main, isr |-> saved.isr]
  /\ mode = "main" => /\ pie <=> saved.main = <<>>
                      /\ code.isr = <<>> /\ saved.isr = <<>>
                      /\ Quiet
  /\ mode = "isr" => ~pie /\ saved.main = <<>> /\ code.isr # <<>> /\ IsrCode

(* The program has taken the handler of i back and has yet to mask i.     *)
Drops(i, on) ==
  \/ /\ saved.main = <<TRUE>>
     /\ \/ code.main = <<Context(i, NULL), DA, Mask(i, on), EA, EA>>
        \/ code.main = <<DA, Mask(i, on), EA, EA>>
  \/ saved.main = <<TRUE, FALSE>> /\ code.main = <<Mask(i, on), EA, EA>>

Dropping(i) == \E on \in BOOLEAN : ~on /\ Drops(i, on)

Tables ==
  /\ \A i \in ienable : i \in Served \/ Dropping(i)
  /\ \A i \in Irqs : \/ alt_irq[i].context = alt_irq[i].handler
                     \/ code.main # <<>> /\ Head(code.main).op = "context" /\ Head(code.main).irq = i

IInv == TypeOK /\ Linked /\ MainCode /\ Contexts /\ Tables

(***************************************************************************)
(* Sequences: the provers take heads and tails of explicit sequences, and  *)
(* need to be told what joining them gives.                                *)
(***************************************************************************)
Joins(S, s, t, u) ==
  /\ s \in Seq(S) /\ t \in Seq(S) /\ u \in Seq(S)
  /\ Len(u) = Len(s) + Len(t)
  /\ \A k \in 1 .. Len(s) : u[k] = s[k]
  /\ \A k \in 1 .. Len(t) : u[Len(s) + k] = t[k]

LEMMA JoinIsConcat == \A S, s, t, u : Joins(S, s, t, u) => s \o t = u
<1> SUFFICES ASSUME NEW S, NEW s, NEW t, NEW u, Joins(S, s, t, u)
             PROVE  s \o t = u
  OBVIOUS
<1>1. s \in Seq(S) /\ t \in Seq(S) /\ u \in Seq(S) /\ Len(u) = Len(s) + Len(t)
  BY DEF Joins
<1>2. Len(s) \in Nat /\ Len(t) \in Nat
  BY <1>1
<1>3. /\ s \o t \in Seq(S) /\ Len(s \o t) = Len(s) + Len(t)
      /\ \A k \in 1 .. Len(s) + Len(t) :
           (s \o t)[k] = IF k <= Len(s) THEN s[k] ELSE t[k - Len(s)]
  BY <1>1, ConcatProperties
<1>4. ASSUME NEW k \in 1 .. Len(s) + Len(t)
      PROVE  (s \o t)[k] = u[k]
  <2>1. CASE k <= Len(s)
    BY <1>2, <1>3, <2>1 DEF Joins
  <2>2. CASE ~(k <= Len(s))
    <3>1. k - Len(s) \in 1 .. Len(t) /\ Len(s) + (k - Len(s)) = k
      BY <1>2, <2>2
    <3> QED
      BY <1>3, <2>2, <3>1 DEF Joins
  <2> QED
    BY <2>1, <2>2
<1> QED
  BY <1>1, <1>3, <1>4, SeqEqual

(* Lemma Join<m>x<n>: a sequence of m joined to one of n. *)
LEMMA Join0x1 == \A a : <<>> \o <<a>> = <<a>>
<1> TAKE a
<1>1. Joins({a}, <<>>, <<a>>, <<a>>)
  BY DEF Joins
<1> QED
  BY <1>1, JoinIsConcat, Zenon

LEMMA Join1x0 == \A a : <<a>> \o <<>> = <<a>>
<1> TAKE a
<1>1. Joins({a}, <<a>>, <<>>, <<a>>)
  BY DEF Joins
<1> QED
  BY <1>1, JoinIsConcat, Zenon

LEMMA Join1x1 == \A a, b : <<a>> \o <<b>> = <<a, b>>
<1>1. ASSUME NEW a, NEW b
      PROVE  Joins({a, b}, <<a>>, <<b>>, <<a, b>>)
  <2> DEFINE s == <<a>>  t == <<b>>  u == <<a, b>>
  <2>1. s \in Seq({a, b}) /\ t \in Seq({a, b}) /\ u \in Seq({a, b})
    OBVIOUS
  <2>2. Len(s) = 1 /\ Len(t) = 1 /\ Len(u) = 2
    OBVIOUS
  <2>3. u[1] = a /\ u[2] = b /\ s[1] = a /\ t[1] = b
    OBVIOUS
  <2> HIDE DEF s, t, u
  <2>4. Joins({a, b}, s, t, u)
    BY <2>1, <2>2, <2>3 DEF Joins
  <2> QED
    BY <2>4 DEF s, t, u
<1> QED
  BY <1>1, JoinIsConcat, Zenon

LEMMA Join1x2 == \A a, b, c : <<a>> \o <<b, c>> = <<a, b, c>>
<1> TAKE a, b, c
<1>1. Joins({a, b, c}, <<a>>, <<b, c>>, <<a, b, c>>)
  BY DEF Joins
<1> QED
  BY <1>1, JoinIsConcat, Zenon

LEMMA Join1x3 == \A a, b, c, d : <<a>> \o <<b, c, d>> = <<a, b, c, d>>
<1> TAKE a, b, c, d
<1>1. Joins({a, b, c, d}, <<a>>, <<b, c, d>>, <<a, b, c, d>>)
  BY DEF Joins
<1> QED
  BY <1>1, JoinIsConcat, Zenon

LEMMA Join1x4 == \A a, b, c, d, e : <<a>> \o <<b, c, d, e>> = <<a, b, c, d, e>>
<1> TAKE a, b, c, d, e
<1>1. Joins({a, b, c, d, e}, <<a>>, <<b, c, d, e>>, <<a, b, c, d, e>>)
  BY DEF Joins
<1> QED
  BY <1>1, JoinIsConcat, Zenon

LEMMA Join1x5 == \A a, b, c, d, e, f : <<a>> \o <<b, c, d, e, f>> = <<a, b, c, d, e, f>>
<1> TAKE a, b, c, d, e, f
<1>1. Joins({a, b, c, d, e, f}, <<a>>, <<b, c, d, e, f>>, <<a, b, c, d, e, f>>)
  BY DEF Joins
<1> QED
  BY <1>1, JoinIsConcat, Zenon

LEMMA Join2x1 == \A a, b, c : <<a, b>> \o <<c>> = <<a, b, c>>
<1> TAKE a, b, c
<1>1. Joins({a, b, c}, <<a, b>>, <<c>>, <<a, b, c>>)
  BY DEF Joins
<1> QED
  BY <1>1, JoinIsConcat, Zenon

LEMMA Join2x3 == \A a, b, c, d, e : <<a, b>> \o <<c, d, e>> = <<a, b, c, d, e>>
<1> TAKE a, b, c, d, e
<1>1. Joins({a, b, c, d, e}, <<a, b>>, <<c, d, e>>, <<a, b, c, d, e>>)
  BY DEF Joins
<1> QED
  BY <1>1, JoinIsConcat, Zenon

LEMMA Join3x1 == \A a, b, c, d : <<a, b, c>> \o <<d>> = <<a, b, c, d>>
<1> TAKE a, b, c, d
<1>1. Joins({a, b, c, d}, <<a, b, c>>, <<d>>, <<a, b, c, d>>)
  BY DEF Joins
<1> QED
  BY <1>1, JoinIsConcat, Zenon

LEMMA Join4x1 == \A a, b, c, d, e : <<a, b, c, d>> \o <<e>> = <<a, b, c, d, e>>
<1> TAKE a, b, c, d, e
<1>1. Joins({a, b, c, d, e}, <<a, b, c, d>>, <<e>>, <<a, b, c, d, e>>)
  BY DEF Joins
<1> QED
  BY <1>1, JoinIsConcat, Zenon

LEMMA Join4x3 == \A a, b, c, d, e, f, g : <<a, b, c, d>> \o <<e, f, g>> = <<a, b, c, d, e, f, g>>
<1> TAKE a, b, c, d, e, f, g
<1>1. Joins({a, b, c, d, e, f, g}, <<a, b, c, d>>, <<e, f, g>>, <<a, b, c, d, e, f, g>>)
  BY DEF Joins
<1> QED
  BY <1>1, JoinIsConcat, Zenon

LEMMA Join5x1 == \A a, b, c, d, e, f : <<a, b, c, d, e>> \o <<f>> = <<a, b, c, d, e, f>>
<1> TAKE a, b, c, d, e, f
<1>1. Joins({a, b, c, d, e, f}, <<a, b, c, d, e>>, <<f>>, <<a, b, c, d, e, f>>)
  BY DEF Joins
<1> QED
  BY <1>1, JoinIsConcat, Zenon

LEMMA Join5x3 == \A a, b, c, d, e, f, g, h : <<a, b, c, d, e>> \o <<f, g, h>> = <<a, b, c, d, e, f, g, h>>
<1> TAKE a, b, c, d, e, f, g, h
<1>1. Joins({a, b, c, d, e, f, g, h}, <<a, b, c, d, e>>, <<f, g, h>>, <<a, b, c, d, e, f, g, h>>)
  BY DEF Joins
<1> QED
  BY <1>1, JoinIsConcat, Zenon

LEMMA Join6x1 == \A a, b, c, d, e, f, g : <<a, b, c, d, e, f>> \o <<g>> = <<a, b, c, d, e, f, g>>
<1> TAKE a, b, c, d, e, f, g
<1>1. Joins({a, b, c, d, e, f, g}, <<a, b, c, d, e, f>>, <<g>>, <<a, b, c, d, e, f, g>>)
  BY DEF Joins
<1> QED
  BY <1>1, JoinIsConcat, Zenon

(* The saved PIE bits of one open section, and of two. *)
LEMMA SavedBits ==
  ASSUME NEW x, NEW y
  PROVE  /\ Append(<<>>, x) = <<x>> /\ Append(<<x>>, y) = <<x, y>>
         /\ Front(<<x>>) = <<>> /\ Front(<<x, y>>) = <<x>>
         /\ Last(<<x>>) = x /\ Last(<<x, y>>) = y
<1>1. Append(<<>>, x) = <<x>>
  OBVIOUS
<1>2. Append(<<x>>, y) = <<x, y>>
  <2> DEFINE s == Append(<<x>>, y)  t == <<x, y>>
  <2>1. s \in Seq({x, y}) /\ t \in Seq({x, y}) /\ Len(s) = 2 /\ Len(t) = 2
    OBVIOUS
  <2>2. s[1] = x /\ s[2] = y /\ t[1] = x /\ t[2] = y
    OBVIOUS
  <2>3. \A k \in 1 .. Len(s) : s[k] = t[k]
    BY <2>1, <2>2
  <2> HIDE DEF s, t
  <2>4. s = t
    BY <2>1, <2>3, SeqEqual
  <2> QED
    BY <2>4 DEF s, t
<1>3. Front(<<x>>) = <<>>
  BY DEF Front
<1>4. Front(<<x, y>>) = <<x>>
  <2> DEFINE s == SubSeq(<<x, y>>, 1, 1)  t == <<x>>
  <2>1. s \in Seq({x, y}) /\ t \in Seq({x, y}) /\ Len(s) = 1 /\ Len(t) = 1
    OBVIOUS
  <2>2. s[1] = x /\ t[1] = x
    OBVIOUS
  <2>3. \A k \in 1 .. Len(s) : s[k] = t[k]
    BY <2>1, <2>2
  <2> HIDE DEF s, t
  <2>4. s = t
    BY <2>1, <2>3, SeqEqual
  <2>5. Len(<<x, y>>) - 1 = 1
    OBVIOUS
  <2> QED
    BY <2>4, <2>5 DEF s, t, Front
<1>5. Last(<<x>>) = x /\ Last(<<x, y>>) = y
  BY DEF Last
<1> QED
  BY <1>1, <1>2, <1>3, <1>4, <1>5

LEMMA SectionBits ==
  /\ Append(<<>>, TRUE) = <<TRUE>> /\ Append(<<TRUE>>, FALSE) = <<TRUE, FALSE>>
  /\ Append(<<>>, FALSE) = <<FALSE>> /\ Append(<<FALSE>>, FALSE) = <<FALSE, FALSE>>
  /\ Front(<<TRUE>>) = <<>> /\ Front(<<TRUE, FALSE>>) = <<TRUE>>
  /\ Front(<<FALSE>>) = <<>> /\ Front(<<FALSE, FALSE>>) = <<FALSE>>
  /\ Last(<<TRUE>>) = TRUE /\ Last(<<TRUE, FALSE>>) = FALSE
  /\ Last(<<FALSE>>) = FALSE /\ Last(<<FALSE, FALSE>>) = FALSE
  /\ <<TRUE>> # <<>> /\ <<TRUE, FALSE>> # <<>>
<1>1. \A x, y : /\ Append(<<>>, x) = <<x>> /\ Append(<<x>>, y) = <<x, y>>
               /\ Front(<<x>>) = <<>> /\ Front(<<x, y>>) = <<x>>
               /\ Last(<<x>>) = x /\ Last(<<x, y>>) = y
  BY SavedBits
<1>2. <<TRUE>> # <<>> /\ <<TRUE, FALSE>> # <<>>
  OBVIOUS
<1> QED
  BY <1>1, <1>2, Zenon

(* The calls, written out. *)
LEMMA CallsWritten ==
  /\ \A i, on : SetMask(i, on) = <<DA, Mask(i, on), EA>>
  /\ \A i, h : Register(i, h) =
                 <<DA, Handler(i, h), Context(i, h), DA, Mask(i, h # NULL), EA, EA>>
  /\ \A a, n : Start(a, n) = <<DA, Time(a, n), LinkIn(a), EA>>
  /\ \A a : Stop(a) = <<DA, TakeOut(a), EA>>
  /\ TimerCode = <<DA, Do("tick"), Wlk, EA>>
<1>1. ASSUME NEW x PROVE Critical(<<x>>) = <<DA, x, EA>>
  <2>1. <<DA>> \o <<x>> = <<DA, x>>
    BY Join1x1, Zenon
  <2>2. <<DA, x>> \o <<EA>> = <<DA, x, EA>>
    BY Join2x1, Zenon
  <2> QED
    BY <2>1, <2>2, Zenon DEF Critical, DA, EA
<1>2. ASSUME NEW x, NEW y PROVE Critical(<<x, y>>) = <<DA, x, y, EA>>
  <2>1. <<DA>> \o <<x, y>> = <<DA, x, y>>
    BY Join1x2, Zenon
  <2>2. <<DA, x, y>> \o <<EA>> = <<DA, x, y, EA>>
    BY Join3x1, Zenon
  <2> QED
    BY <2>1, <2>2, Zenon DEF Critical, DA, EA
<1>3. \A i, on : SetMask(i, on) = <<DA, Mask(i, on), EA>>
  BY <1>1, Zenon DEF SetMask, Mask
<1>4. ASSUME NEW i, NEW h
      PROVE  Register(i, h) =
               <<DA, Handler(i, h), Context(i, h), DA, Mask(i, h # NULL), EA, EA>>
  <2>1. Register(i, h) =
          <<DA>> \o (<<Handler(i, h), Context(i, h)>> \o <<DA, Mask(i, h # NULL), EA>>) \o <<EA>>
    BY <1>3, Zenon DEF Register, Critical, DA, EA, Handler, Context
  <2> DEFINE H == Handler(i, h)  C == Context(i, h)  M == Mask(i, h # NULL)
  <2>2. <<H, C>> \o <<DA, M, EA>> = <<H, C, DA, M, EA>>
    BY Join2x3, Zenon
  <2>3. <<DA>> \o <<H, C, DA, M, EA>> = <<DA, H, C, DA, M, EA>>
    BY Join1x5, ZenonT(60)
  <2>4. <<DA, H, C, DA, M, EA>> \o <<EA>> = <<DA, H, C, DA, M, EA, EA>>
    BY Join6x1, ZenonT(60)
  <2> QED
    BY <2>1, <2>2, <2>3, <2>4, Zenon
<1>5. \A a, n : Start(a, n) = <<DA, Time(a, n), LinkIn(a), EA>>
  BY <1>2, Zenon DEF Start, Time, LinkIn
<1>6. \A a : Stop(a) = <<DA, TakeOut(a), EA>>
  BY <1>1, Zenon DEF Stop, TakeOut
<1>7. TimerCode = <<DA, Do("tick"), Wlk, EA>>
  BY <1>2, Zenon DEF TimerCode, Wlk
<1> QED
  BY <1>3, <1>4, <1>5, <1>6, <1>7

(***************************************************************************)
(* What a step leaves alone.                                               *)
(***************************************************************************)
LEMMA ClockFrame ==
  ASSUME UNCHANGED <<_alt_nticks, time, rollover, due>>
  PROVE  \A a : /\ Wraps(a)' <=> Wraps(a)
                /\ Clocked(a)' <=> Clocked(a)
                /\ Late(a)' <=> Late(a)
                /\ Counting(a)' <=> Counting(a)
<1>1. \A a : Wraps(a)' <=> Wraps(a)
  BY DEF Wraps
<1>2. \A a : Clocked(a)' <=> Clocked(a)
  BY <1>1 DEF Clocked
<1>3. \A a : Late(a)' <=> Late(a)
  BY DEF Late
<1>4. \A a : Counting(a)' <=> Counting(a)
  BY <1>2, <1>3 DEF Counting
<1> QED
  BY <1>1, <1>2, <1>3, <1>4

LEMMA QuietFrame ==
  ASSUME UNCHANGED <<_alt_nticks, time, rollover, due, armed, cut>>
  PROVE  Quiet' <=> Quiet
  BY ClockFrame DEF Quiet

LEMMA LinkedFrame ==
  ASSUME UNCHANGED <<armed, next, previous>>
  PROVE  /\ Linked' <=> Linked
         /\ List' = List /\ Fresh' = Fresh /\ OnceLinked' = OnceLinked /\ Stopped' = Stopped
         /\ \A x, a : Ahead(x, a)' <=> Ahead(x, a)
<1>1. List' = List /\ Fresh' = Fresh /\ OnceLinked' = OnceLinked /\ Stopped' = Stopped
  BY DEF List, Fresh, OnceLinked, Stopped
<1>2. Linked' <=> Linked
  BY <1>1 DEF Linked
<1>3. \A x, a : Ahead(x, a)' <=> Ahead(x, a)
  BY <1>1 DEF Ahead, Closed
<1> QED
  BY <1>1, <1>2, <1>3

LEMMA TickFrame ==
  ASSUME UNCHANGED tickVars
  PROVE  /\ Linked' <=> Linked
         /\ Quiet' <=> Quiet
         /\ InWalk' <=> InWalk
         /\ InCallback' <=> InCallback
         /\ Fresh' = Fresh /\ OnceLinked' = OnceLinked
         /\ \A a : Counting(a)' <=> Counting(a)
<1>1. UNCHANGED <<_alt_nticks, next, previous, time, rollover, alarm, nextAlarm, armed, due, cut>>
  BY DEF tickVars
<1>2. Trapped' <=> Trapped
  BY <1>1 DEF Trapped, Stopped
<1>3. InWalk' <=> InWalk
  BY <1>1, <1>2, LinkedFrame, ClockFrame DEF InWalk
<1>4. InCallback' <=> InCallback
  BY <1>1, <1>2, LinkedFrame, ClockFrame DEF InCallback
<1>5. Quiet' <=> Quiet
  BY <1>1, QuietFrame
<1>6. (Linked' <=> Linked) /\ Fresh' = Fresh /\ OnceLinked' = OnceLinked
  BY <1>1, LinkedFrame
<1>7. \A a : Counting(a)' <=> Counting(a)
  BY <1>1, ClockFrame
<1> QED
  BY <1>3, <1>4, <1>5, <1>6, <1>7

(* A context that executes moves only its own code. *)
LEMMA ThenMain ==
  ASSUME Contexts, mode = "main", NEW X, Then(X)
  PROVE  /\ code' = [main |-> X, isr |-> <<>>]
         /\ code'.main = X /\ code'.isr = <<>>
  BY DEF Then, Contexts

LEMMA ThenIsr ==
  ASSUME Contexts, mode = "isr", NEW X, Then(X)
  PROVE  /\ code' = [main |-> code.main, isr |-> X]
         /\ code'.main = code.main /\ code'.isr = X
  BY DEF Then, Contexts

LEMMA ExecutesMain ==
  ASSUME MainCode, mode = "main", NEW op, Executes(op)
  PROVE  code.main # <<>> /\ Head(code.main).op = op /\ op \in MainOps /\ MainIn(op)
  BY DEF MainCode, Executes

LEMMA ExecutesIsr ==
  ASSUME Contexts, mode = "isr", NEW op, Executes(op)
  PROVE  code.isr # <<>> /\ Head(code.isr).op = op /\ op \in IsrOps /\ IsrIn(op)
  BY DEF Contexts, IsrCode, Executes

(* While the interrupt routine runs the program waits before a section. *)
MainWaits ==
  /\ saved.main = <<>>
  /\ \/ code.main = <<>>
     \/ \E i \in Irqs, h \in Handlers \union {NULL} :
          code.main = <<DA, Handler(i, h), Context(i, h), DA, Mask(i, h # NULL), EA, EA>>
     \/ \E i \in Served, on \in BOOLEAN : code.main = <<DA, Mask(i, on), EA>>
     \/ \E a \in Fresh, n \in Delays : code.main = <<DA, Time(a, n), LinkIn(a), EA>>
     \/ \E a \in OnceLinked : code.main = <<DA, TakeOut(a), EA>>

LEMMA OutsideWaits ==
  ASSUME MainCode, saved.main = <<>>
  PROVE  MainWaits
<1>1. CASE code.main = <<>>
  BY <1>1 DEF MainWaits
<1>2. CASE code.main # <<>>
  <2>1. Head(code.main).op \in MainOps /\ MainIn(Head(code.main).op)
    BY <1>2 DEF MainCode
  <2>2. Head(code.main).op = "disable_all"
    BY <2>1 DEF MainOps, MainIn, MainLeaves, MainMasks, MainSetsHandler, MainSetsContext,
       MainTimes, MainLinks, MainUnlinks
  <2>3. MainEnters
    BY <2>1, <2>2 DEF MainIn
  <2>4. saved.main # <<TRUE>>
    OBVIOUS
  <2> QED
    BY <2>3, <2>4, Zenon DEF MainEnters, MainWaits
<1> QED
  BY <1>1, <1>2

LEMMA WaitsIsCode ==
  ASSUME MainWaits
  PROVE  MainCode
<1>1. CASE code.main = <<>>
  BY <1>1 DEF MainWaits, MainCode
<1>2. CASE code.main # <<>>
  <2>1. MainEnters
    BY <1>2 DEF MainWaits, MainEnters
  <2>2. Head(code.main) = DA
    <3>1. \A s, t, u, v, w, x : /\ Head(<<DA, s, t>>) = DA
                                /\ Head(<<DA, s, t, u>>) = DA
                                /\ Head(<<DA, s, t, u, v, w, x>>) = DA
      OBVIOUS
    <3> QED
      BY <1>2, <3>1, Zenon DEF MainWaits
  <2>4. Head(code.main).op = "disable_all"
    BY <2>2 DEF DA, Do
  <2>3. MainIn("disable_all")
    BY <2>1 DEF MainIn
  <2> QED
    BY <1>2, <2>3, <2>4 DEF MainCode, MainOps
<1> QED
  BY <1>1, <1>2

(* An interrupt loses its handler only inside a section of the program.    *)
LEMMA DroppingInside ==
  ASSUME NEW i, Dropping(i)
  PROVE  /\ saved.main # <<>> /\ code.main # <<>>
         /\ Head(code.main).op \in {"context", "disable_all", "mask"}
<1>1. PICK on \in BOOLEAN : Drops(i, on)
  BY Zenon DEF Dropping
<1>2. saved.main # <<>>
  BY <1>1, SectionBits, Zenon DEF Drops
<1>3. Context(i, NULL).op = "context" /\ DA.op = "disable_all" /\ Mask(i, on).op = "mask"
  BY DEF Context, DA, Do, Mask
<1>4. CASE code.main = <<Context(i, NULL), DA, Mask(i, on), EA, EA>>
  <2>1. code.main # <<>> /\ Head(code.main) = Context(i, NULL)
    BY <1>4
  <2> QED
    BY <1>2, <1>3, <2>1
<1>5. CASE code.main = <<DA, Mask(i, on), EA, EA>>
  <2>1. code.main # <<>> /\ Head(code.main) = DA
    BY <1>5
  <2> QED
    BY <1>2, <1>3, <2>1
<1>6. CASE code.main = <<Mask(i, on), EA, EA>>
  <2>1. code.main # <<>> /\ Head(code.main) = Mask(i, on)
    BY <1>6
  <2> QED
    BY <1>2, <1>3, <2>1
<1> QED
  BY <1>1, <1>4, <1>5, <1>6, Zenon DEF Drops

(* What of it is left when the next instruction is op. *)
LEMMA DroppingNow ==
  ASSUME NEW i, NEW on, Drops(i, on)
  PROVE  /\ Head(code.main).op = "context" =>
              saved.main = <<TRUE>> /\ code.main = <<Context(i, NULL), DA, Mask(i, on), EA, EA>>
         /\ Head(code.main).op = "disable_all" => code.main = <<DA, Mask(i, on), EA, EA>>
         /\ Head(code.main).op = "mask" => code.main = <<Mask(i, on), EA, EA>>
<1>1. Context(i, NULL).op = "context" /\ DA.op = "disable_all" /\ Mask(i, on).op = "mask"
  BY DEF Context, DA, Do, Mask
<1>2. ASSUME code.main = <<Context(i, NULL), DA, Mask(i, on), EA, EA>>
      PROVE  Head(code.main).op = "context"
  <2>1. Head(code.main) = Context(i, NULL)
    BY <1>2
  <2> QED
    BY <1>1, <2>1
<1>3. ASSUME code.main = <<DA, Mask(i, on), EA, EA>>
      PROVE  Head(code.main).op = "disable_all"
  <2>1. Head(code.main) = DA
    BY <1>3
  <2> QED
    BY <1>1, <2>1
<1>4. ASSUME code.main = <<Mask(i, on), EA, EA>>
      PROVE  Head(code.main).op = "mask"
  <2>1. Head(code.main) = Mask(i, on)
    BY <1>4
  <2> QED
    BY <1>1, <2>1
<1>5. "context" # "disable_all" /\ "context" # "mask" /\ "disable_all" # "mask"
  OBVIOUS
<1> QED
  BY <1>2, <1>3, <1>4, <1>5, Zenon DEF Drops

LEMMA ServedOutside ==
  ASSUME Tables, \/ saved.main = <<>>
                 \/ Head(code.main).op \notin {"context", "disable_all", "mask"}
  PROVE  ienable \subseteq Served
  BY DroppingInside DEF Tables

(***************************************************************************)
(* The program's calls, interrupts, and the instructions of HalIrq.        *)
(***************************************************************************)
LEMMA InitHolds == Init => IInv
<1> SUFFICES ASSUME Init
             PROVE  IInv
  OBVIOUS
<1> USE DEF Init, IrqInit
<1>1. armed = {} /\ List = {ListHead} /\ Stopped = Alarms
  BY DEF List, Stopped
<1>2. TypeOK
  <2>1. pie \in BOOLEAN /\ cut \in BOOLEAN
    BY Zenon
  <2>2. rollover \in [Alarms -> BOOLEAN]
    OBVIOUS
  <2>3. alt_irq \in [Irqs -> [handler : Handlers \union {NULL, TimerIrq},
                              context : Handlers \union {NULL, TimerIrq}]]
    OBVIOUS
  <2>4. _alt_nticks \in 0 .. Word - 1 /\ time \in [Alarms -> 0 .. Word - 1]
        /\ due \in [Alarms -> 0 .. Word - 1]
    BY AlarmAssumption
  <2>5. next \in [Nodes -> Nodes \union {NULL}] /\ previous \in [Nodes -> Nodes \union {NULL}]
    BY DEF Nodes
  <2>6. ienable \subseteq Irqs /\ line \subseteq Irqs /\ mode \in {"main", "isr"}
    BY IrqAssumption
  <2> QED
    BY <2>1, <2>2, <2>3, <2>4, <2>5, <2>6 DEF TypeOK, Nodes
<1>3. Linked
  BY <1>1, AlarmAssumption DEF Linked, Nodes, List
<1>4. MainCode
  BY DEF MainCode
<1>5. Quiet
  BY <1>1 DEF Quiet
<1>6. Contexts
  BY <1>5 DEF Contexts
<1>7. Tables
  BY IrqAssumption DEF Tables, Served
<1> QED
  BY <1>2, <1>3, <1>4, <1>6, <1>7 DEF IInv

LEMMA TypeFrame ==
  ASSUME TypeOK, UNCHANGED <<mode, pie, ienable, alt_irq, line>>, UNCHANGED tickVars
  PROVE  TypeOK'
  BY DEF TypeOK, tickVars

(* The program starts a call. *)
LEMMA CallHolds ==
  ASSUME IInv, Idle, NEW X, Then(X), UNCHANGED cpuRest, UNCHANGED tickVars,
         \/ \E i \in Irqs, h \in Handlers \union {NULL} : X = Register(i, h)
         \/ \E i \in Served, on \in BOOLEAN : X = SetMask(i, on)
         \/ \E a \in Fresh, n \in Delays : X = Start(a, n)
         \/ \E a \in OnceLinked : X = Stop(a)
  PROVE  IInv'
<1> USE DEF IInv
<1>1. mode = "main" /\ code.main = <<>> /\ saved.main = <<>>
  <2>1. mode = "main" /\ code.main = <<>>
    BY DEF Idle
  <2> QED
    BY <2>1 DEF MainCode
<1>2. UNCHANGED <<mode, pie, saved, ienable, alt_irq, line>>
  BY DEF cpuRest
<1>3. code' = [main |-> X, isr |-> <<>>] /\ code'.main = X /\ code'.isr = <<>>
  BY <1>1, ThenMain
<1>4. Served' = Served /\ Fresh' = Fresh /\ OnceLinked' = OnceLinked
  BY <1>2, TickFrame DEF Served
<1>5. MainWaits'
  BY <1>1, <1>2, <1>3, <1>4, CallsWritten, Zenon DEF MainWaits
<1>6. MainCode'
  BY <1>5, WaitsIsCode, PTL
<1>7. Contexts'
  BY <1>1, <1>2, <1>3, TickFrame DEF Contexts
<1>8. Tables'
  BY <1>1, <1>2, <1>4, ServedOutside DEF Tables
<1> QED
  BY <1>2, <1>6, <1>7, <1>8, TypeFrame, TickFrame

LEMMA ProgramHolds ==
  ASSUME IInv, Program
  PROVE  IInv'
<1>1. ASSUME NEW i \in Irqs \ {0}, NEW h \in Handlers \union {NULL},
             CallRegister(i, h), UNCHANGED tickVars
      PROVE  IInv'
  <2>1. Idle /\ Then(Register(i, h)) /\ UNCHANGED cpuRest
    BY <1>1 DEF CallRegister, cpuRest
  <2> QED
    BY <1>1, <2>1, CallHolds
<1>2. ASSUME NEW i \in Irqs \ {0}, NEW on \in BOOLEAN, CallSetMask(i, on), UNCHANGED tickVars
      PROVE  IInv'
  <2>1. Idle /\ Then(SetMask(i, on)) /\ UNCHANGED cpuRest /\ i \in Served
    BY <1>2 DEF CallSetMask, cpuRest, Served
  <2> QED
    BY <1>2, <2>1, CallHolds
<1>3. ASSUME NEW a \in Alarms, NEW n \in Delays, CallStart(a, n)
      PROVE  IInv'
  <2>1. /\ Idle /\ Then(Start(a, n)) /\ UNCHANGED cpuRest /\ UNCHANGED tickVars
        /\ a \in Fresh
    BY <1>3 DEF CallStart, Fresh
  <2> QED
    BY <2>1, CallHolds
<1>4. ASSUME NEW a \in Alarms, CallStop(a)
      PROVE  IInv'
  <2>1. /\ Idle /\ Then(Stop(a)) /\ UNCHANGED cpuRest /\ UNCHANGED tickVars
        /\ a \in OnceLinked
    BY <1>4 DEF CallStop, OnceLinked
  <2> QED
    BY <2>1, CallHolds
<1> QED
  BY <1>1, <1>2, <1>3, <1>4 DEF Program

(* A step that touches neither the contexts nor the clock. *)
LEMMA SameCode ==
  ASSUME IInv, UNCHANGED <<mode, code, pie, saved, ienable, alt_irq>>, UNCHANGED tickVars
  PROVE  Linked' /\ MainCode' /\ Contexts' /\ Tables'
<1> USE DEF IInv
<1>1. UNCHANGED <<_alt_nticks, next, previous, time, rollover, alarm, nextAlarm, armed, due, cut>>
  BY DEF tickVars
<1>2. /\ Served' = Served /\ Fresh' = Fresh /\ OnceLinked' = OnceLinked
      /\ Linked' /\ (Quiet' <=> Quiet) /\ (InWalk' <=> InWalk) /\ (InCallback' <=> InCallback)
      /\ \A a : Counting(a)' <=> Counting(a)
  BY TickFrame DEF Served
<1>3. MainCode'
  BY <1>2 DEF MainCode, MainIn, MainEnters, MainLeaves, MainMasks,
     MainSetsHandler, MainSetsContext, MainTimes, MainLinks, MainUnlinks
<1>4. Startable' = Startable
  BY <1>1, <1>2 DEF Startable, Starting
<1>5. IsrCode' <=> IsrCode
  <2>1. IsrEnters' <=> IsrEnters
    BY <1>1, <1>2, <1>4 DEF IsrEnters
  <2>2. IsrLeaves' <=> IsrLeaves
    BY <1>1, <1>2 DEF IsrLeaves
  <2>3. (IsrTimes' <=> IsrTimes) /\ (IsrLinks' <=> IsrLinks) /\ (IsrUnlinks' <=> IsrUnlinks)
    BY <1>1, <1>2, <1>4 DEF IsrTimes, IsrLinks, IsrUnlinks
  <2>4. /\ IsrDispatches' <=> IsrDispatches
        /\ IsrClears' <=> IsrClears
        /\ IsrTicks' <=> IsrTicks
        /\ IsrWalks' <=> IsrWalks
    BY <1>1, <1>2 DEF IsrDispatches, IsrClears, IsrTicks, IsrWalks
  <2>5. /\ IsrCalls' <=> IsrCalls
        /\ IsrReturns' <=> IsrReturns
        /\ IsrAdvances' <=> IsrAdvances
    BY <1>1, <1>2 DEF IsrCalls, IsrReturns, IsrAdvances
  <2>6. \A op : IsrIn(op)' <=> IsrIn(op)
    BY <2>1, <2>2, <2>3, <2>4, <2>5 DEF IsrIn
  <2> QED
    BY <2>6 DEF IsrCode
<1>6. Contexts'
  BY <1>2, <1>5 DEF Contexts
<1>7. Tables'
  BY <1>2 DEF Tables, Dropping, Drops
<1> QED
  BY <1>2, <1>3, <1>6, <1>7

LEMMA RaiseHolds ==
  ASSUME IInv, Devices
  PROVE  IInv'
<1> USE DEF IInv
<1>1. PICK i \in Irqs : Raise(i) /\ UNCHANGED tickVars
  BY DEF Devices
<1>2. UNCHANGED <<mode, code, pie, saved, ienable, alt_irq>> /\ line' = line \union {i}
  BY <1>1 DEF Raise
<1>3. TypeOK'
  BY <1>1, <1>2 DEF TypeOK, tickVars
<1> QED
  BY <1>1, <1>2, <1>3, SameCode

(* The tables, read by the instruction that is next. *)
LEMMA MainRows ==
  ASSUME code.main # <<>>
  PROVE  /\ Head(code.main).op = "disable_all" /\ MainEnters => MainCode
         /\ Head(code.main).op = "enable_all" /\ MainLeaves => MainCode
         /\ Head(code.main).op = "handler" /\ MainSetsHandler => MainCode
         /\ Head(code.main).op = "context" /\ MainSetsContext => MainCode
         /\ Head(code.main).op = "mask" /\ MainMasks => MainCode
         /\ Head(code.main).op = "time" /\ MainTimes => MainCode
         /\ Head(code.main).op = "link" /\ MainLinks => MainCode
         /\ Head(code.main).op = "unlink" /\ MainUnlinks => MainCode
  BY DEF MainCode, MainOps, MainIn

LEMMA IsrRows ==
  /\ Head(code.isr).op = "disable_all" /\ IsrEnters => IsrCode
  /\ Head(code.isr).op = "enable_all" /\ IsrLeaves => IsrCode
  /\ Head(code.isr).op = "dispatch" /\ IsrDispatches => IsrCode
  /\ Head(code.isr).op = "clear" /\ IsrClears => IsrCode
  /\ Head(code.isr).op = "tick" /\ IsrTicks => IsrCode
  /\ Head(code.isr).op = "walk" /\ IsrWalks => IsrCode
  /\ Head(code.isr).op = "callback" /\ IsrCalls => IsrCode
  /\ Head(code.isr).op = "returned" /\ IsrReturns => IsrCode
  /\ Head(code.isr).op = "advance" /\ IsrAdvances => IsrCode
  /\ Head(code.isr).op = "time" /\ IsrTimes => IsrCode
  /\ Head(code.isr).op = "link" /\ IsrLinks => IsrCode
  /\ Head(code.isr).op = "unlink" /\ IsrUnlinks => IsrCode
<1> USE DEF IsrCode, IsrOps, IsrIn
<1>1. /\ Head(code.isr).op = "disable_all" /\ IsrEnters => IsrCode
      /\ Head(code.isr).op = "enable_all" /\ IsrLeaves => IsrCode
      /\ Head(code.isr).op = "dispatch" /\ IsrDispatches => IsrCode
      /\ Head(code.isr).op = "clear" /\ IsrClears => IsrCode
  OBVIOUS
<1>2. /\ Head(code.isr).op = "tick" /\ IsrTicks => IsrCode
      /\ Head(code.isr).op = "walk" /\ IsrWalks => IsrCode
      /\ Head(code.isr).op = "callback" /\ IsrCalls => IsrCode
      /\ Head(code.isr).op = "returned" /\ IsrReturns => IsrCode
  OBVIOUS
<1>3. /\ Head(code.isr).op = "advance" /\ IsrAdvances => IsrCode
      /\ Head(code.isr).op = "time" /\ IsrTimes => IsrCode
      /\ Head(code.isr).op = "link" /\ IsrLinks => IsrCode
      /\ Head(code.isr).op = "unlink" /\ IsrUnlinks => IsrCode
  OBVIOUS
<1> QED
  BY <1>1, <1>2, <1>3

LEMMA InterruptHolds ==
  ASSUME IInv, Interrupt, UNCHANGED tickVars
  PROVE  IInv'
<1> USE DEF IInv
<1>1. /\ mode = "main" /\ pie /\ mode' = "isr" /\ ~pie'
      /\ code' = [code EXCEPT !.isr = <<Dsp>>]
      /\ UNCHANGED <<saved, ienable, alt_irq, line>>
  BY DEF Interrupt, Dsp
<1>2. saved.main = <<>> /\ saved.isr = <<>> /\ Quiet
  BY <1>1 DEF Contexts
<1>3. /\ code' = [main |-> code.main, isr |-> <<Dsp>>]
      /\ code'.main = code.main /\ code'.isr = <<Dsp>>
  BY <1>1 DEF Contexts
<1>4. TypeOK'
  <2>1. pie' = FALSE
    BY DEF Interrupt
  <2>2. pie' \in BOOLEAN
    BY <2>1, Zenon
  <2> QED
    BY <1>1, <2>2 DEF TypeOK, tickVars
<1>5. Served' = Served /\ Fresh' = Fresh /\ OnceLinked' = OnceLinked /\ Linked' /\ Quiet'
  BY <1>1, <1>2, TickFrame DEF Served
<1>6. MainWaits'
  BY <1>1, <1>2, <1>3, <1>5, OutsideWaits DEF MainWaits
<1>7. MainCode'
  BY <1>6, WaitsIsCode, PTL
<1>8. IsrCode'
  <2>1. IsrDispatches' /\ (Head(code.isr).op = "dispatch")'
    BY <1>1, <1>2, <1>3, <1>5 DEF IsrDispatches, Dsp, Do
  <2> QED
    BY <2>1, IsrRows, PTL
<1>9. Contexts'
  BY <1>1, <1>2, <1>3, <1>8 DEF Contexts
<1>10. Tables'
  BY <1>1, <1>2, <1>3, <1>5, ServedOutside DEF Tables
<1> QED
  BY <1>4, <1>5, <1>7, <1>9, <1>10

(* The instructions as the actions of HalIrq and HalAlarms look at them. *)
LEMMA Fields ==
  /\ DA.op = "disable_all" /\ EA.op = "enable_all"
  /\ Dsp.op = "dispatch" /\ Wlk.op = "walk" /\ Adv.op = "advance"
  /\ Do("tick").op = "tick" /\ Do("callback").op = "callback"
  /\ \A i, h : Handler(i, h).op = "handler" /\ Handler(i, h).irq = i /\ Handler(i, h).isr = h
  /\ \A i, h : Context(i, h).op = "context" /\ Context(i, h).irq = i /\ Context(i, h).isr = h
  /\ \A i, on : Mask(i, on).op = "mask" /\ Mask(i, on).irq = i
  /\ \A a, n : Time(a, n).op = "time" /\ Time(a, n).alarm = a /\ Time(a, n).ticks = n
  /\ \A a : LinkIn(a).op = "link" /\ LinkIn(a).alarm = a
  /\ \A a : TakeOut(a).op = "unlink" /\ TakeOut(a).alarm = a
  /\ \A r \in After : r.op = "returned"
<1> USE DEF DA, EA, Dsp, Wlk, Adv, Do
<1>1. /\ DA.op = "disable_all" /\ EA.op = "enable_all"
      /\ Dsp.op = "dispatch" /\ Wlk.op = "walk" /\ Adv.op = "advance"
      /\ Do("tick").op = "tick" /\ Do("callback").op = "callback"
  OBVIOUS
<1>2. \A i, h : Handler(i, h).op = "handler" /\ Handler(i, h).irq = i /\ Handler(i, h).isr = h
  BY DEF Handler
<1>3. \A i, h : Context(i, h).op = "context" /\ Context(i, h).irq = i /\ Context(i, h).isr = h
  BY DEF Context
<1>4. \A i, on : Mask(i, on).op = "mask" /\ Mask(i, on).irq = i
  BY DEF Mask
<1>5. \A a, n : Time(a, n).op = "time" /\ Time(a, n).alarm = a /\ Time(a, n).ticks = n
  BY DEF Time
<1>6. /\ \A a : LinkIn(a).op = "link" /\ LinkIn(a).alarm = a
      /\ \A a : TakeOut(a).op = "unlink" /\ TakeOut(a).alarm = a
  BY DEF LinkIn, TakeOut
<1>7. \A r \in After : r.op = "returned"
  BY DEF After, Returned
<1> QED
  BY <1>1, <1>2, <1>3, <1>4, <1>5, <1>6, <1>7

(* A step of the program in a section leaves the rest of Contexts alone. *)
LEMMA MainStays ==
  ASSUME mode' = "main", code' = [main |-> code'.main, isr |-> <<>>],
         saved' = [main |-> saved'.main, isr |-> <<>>], pie' <=> saved'.main = <<>>, Quiet'
  PROVE  Contexts'
  BY DEF Contexts

LEMMA DisableMain ==
  ASSUME IInv, mode = "main", DisableAll, UNCHANGED tickVars
  PROVE  MainCode' /\ Contexts' /\ Tables'
<1> USE DEF IInv
<1>1. /\ code.main # <<>> /\ MainEnters /\ Head(code.main).op = "disable_all"
      /\ Then(Tail(code.main)) /\ pie' = FALSE
      /\ saved' = [saved EXCEPT !.main = Append(saved.main, pie)]
      /\ UNCHANGED <<mode, ienable, alt_irq, line>>
  BY ExecutesMain DEF DisableAll, MainIn, Rest
<1>2. /\ code' = [main |-> Tail(code.main), isr |-> <<>>]
      /\ code'.main = Tail(code.main)
  BY <1>1, ThenMain
<1>3. /\ saved' = [main |-> Append(saved.main, pie), isr |-> <<>>]
      /\ saved'.main = Append(saved.main, pie)
  BY <1>1 DEF Contexts
<1>4. Served' = Served /\ Fresh' = Fresh /\ OnceLinked' = OnceLinked /\ Quiet' 
  BY <1>1, TickFrame DEF Served, Contexts
<1>5. CASE saved.main = <<>>
  <2>1. pie = TRUE
    BY <1>5 DEF Contexts, TypeOK
  <2>2. saved'.main = <<TRUE>>
    BY <1>3, <1>5, <2>1, SavedBits
  <2>3. MainCode'
    <3>1. ASSUME NEW i \in Irqs, NEW h \in Handlers \union {NULL},
                 code.main = <<DA, Handler(i, h), Context(i, h), DA, Mask(i, h # NULL), EA, EA>>
          PROVE  MainCode'
      <4>1. code'.main = <<Handler(i, h), Context(i, h), DA, Mask(i, h # NULL), EA, EA>>
        BY <1>2, <3>1
      <4>2. (code.main # <<>> /\ Head(code.main).op = "handler")'
        BY <4>1, Fields
      <4>3. MainSetsHandler'
        BY <2>2, <4>1 DEF MainSetsHandler
      <4> QED
        BY <4>2, <4>3, MainRows, PTL
    <3>2. ASSUME NEW i \in Served, NEW on \in BOOLEAN, code.main = <<DA, Mask(i, on), EA>>
          PROVE  MainCode'
      <4>1. code'.main = <<Mask(i, on), EA>>
        BY <1>2, <3>2
      <4>2. (code.main # <<>> /\ Head(code.main).op = "mask")'
        BY <4>1, Fields
      <4>3. MainMasks'
        BY <1>4, <2>2, <4>1 DEF MainMasks
      <4> QED
        BY <4>2, <4>3, MainRows, PTL
    <3>3. ASSUME NEW a \in Fresh, NEW n \in Delays,
                 code.main = <<DA, Time(a, n), LinkIn(a), EA>>
          PROVE  MainCode'
      <4>1. code'.main = <<Time(a, n), LinkIn(a), EA>>
        BY <1>2, <3>3
      <4>2. (code.main # <<>> /\ Head(code.main).op = "time")'
        BY <4>1, Fields
      <4>3. MainTimes'
        BY <1>4, <2>2, <4>1 DEF MainTimes
      <4> QED
        BY <4>2, <4>3, MainRows, PTL
    <3>4. ASSUME NEW a \in OnceLinked, code.main = <<DA, TakeOut(a), EA>>
          PROVE  MainCode'
      <4>1. code'.main = <<TakeOut(a), EA>>
        BY <1>2, <3>4
      <4>2. (code.main # <<>> /\ Head(code.main).op = "unlink")'
        BY <4>1, Fields
      <4>3. MainUnlinks'
        BY <1>4, <2>2, <4>1 DEF MainUnlinks
      <4> QED
        BY <4>2, <4>3, MainRows, PTL
    <3>5. saved.main # <<TRUE>>
      BY <1>5
    <3> QED
      BY <1>1, <3>1, <3>2, <3>3, <3>4, <3>5, Zenon DEF MainEnters
  <2>4. Contexts'
    <3>1. saved'.main # <<>>
      BY <2>2
    <3> QED
      BY <1>1, <1>2, <1>3, <1>4, <3>1, MainStays
  <2>5. Tables'
    BY <1>1, <1>4, <1>5, Fields, ServedOutside DEF Tables
  <2> QED
    BY <2>3, <2>4, <2>5
<1>6. CASE saved.main # <<>>
  <2>1. pie = FALSE
    BY <1>6 DEF Contexts, TypeOK
  <2>2. PICK i \in Irqs, on \in BOOLEAN :
          (on => i \in Served) /\ code.main = <<DA, Mask(i, on), EA, EA>>
    BY <1>1, <1>6, Zenon DEF MainEnters
  <2>3. saved.main = <<TRUE>>
    BY <1>1, <1>6, Zenon DEF MainEnters
  <2>4. saved'.main = <<TRUE, FALSE>>
    BY <1>3, <2>1, <2>3, SavedBits
  <2>5. code'.main = <<Mask(i, on), EA, EA>>
    BY <1>2, <2>2
  <2>6. MainCode'
    <3>1. (code.main # <<>> /\ Head(code.main).op = "mask")'
      BY <2>5, Fields
    <3>2. MainMasks'
      BY <1>4, <2>2, <2>4, <2>5, Zenon DEF MainMasks
    <3> QED
      BY <3>1, <3>2, MainRows, PTL
  <2>7. Contexts'
    <3>1. saved'.main # <<>>
      BY <2>4
    <3> QED
      BY <1>1, <1>2, <1>3, <1>4, <3>1, MainStays
  <2>8. Tables'
    <3>1. ASSUME NEW j \in ienable, Dropping(j)
          PROVE  Dropping(j)'
      <4>1. PICK off \in BOOLEAN : ~off /\ Drops(j, off)
        BY <3>1, Zenon DEF Dropping
      <4>2. code.main = <<DA, Mask(j, off), EA, EA>>
        BY <1>1, <4>1, DroppingNow
      <4>3. code'.main = <<Mask(j, off), EA, EA>>
        BY <1>2, <4>2
      <4> QED
        BY <2>4, <4>1, <4>3, Zenon DEF Dropping, Drops
    <3> QED
      BY <1>1, <1>4, <3>1, Fields DEF Tables
  <2> QED
    BY <2>6, <2>7, <2>8
<1> QED
  BY <1>5, <1>6

LEMMA MainSteps ==
  ASSUME IInv, mode = "main", NEW op, Executes(op), Then(Rest)
  PROVE  /\ code.main # <<>> /\ Head(code.main).op = op /\ op \in MainOps /\ MainIn(op)
         /\ code' = [main |-> Tail(code.main), isr |-> <<>>]
         /\ code'.main = Tail(code.main)
         /\ saved = [main |-> saved.main, isr |-> <<>>]
  BY ExecutesMain, ThenMain DEF Rest, IInv, Contexts

LEMMA EnableMain ==
  ASSUME IInv, mode = "main", EnableAll, UNCHANGED tickVars
  PROVE  MainCode' /\ Contexts' /\ Tables'
<1> USE DEF IInv
<1>1. /\ MainLeaves /\ Head(code.main).op = "enable_all" /\ pie' = Last(saved.main)
      /\ code' = [main |-> Tail(code.main), isr |-> <<>>] /\ code'.main = Tail(code.main)
      /\ saved' = [saved EXCEPT !.main = Front(saved.main)]
      /\ UNCHANGED <<mode, ienable, alt_irq, line>>
  BY MainSteps DEF EnableAll, MainIn
<1>2. saved' = [main |-> Front(saved.main), isr |-> <<>>] /\ saved'.main = Front(saved.main)
  BY <1>1 DEF Contexts
<1>3. Served' = Served /\ Quiet'
  BY <1>1, TickFrame DEF Served, Contexts
<1>4. Tables'
  BY <1>1, <1>3, Fields, ServedOutside DEF Tables
<1>5. CASE saved.main = <<TRUE>> /\ code.main = <<EA>>
  <2>1. code'.main = <<>>
    BY <1>1, <1>5
  <2>2. saved'.main = <<>>
    BY <1>2, <1>5, SectionBits, Zenon
  <2>0. pie' = TRUE
    BY <1>1, <1>5, SectionBits, Zenon
  <2>3. MainCode'
    BY <2>1, <2>2 DEF MainCode
  <2>4. Contexts'
    BY <1>1, <1>2, <1>3, <2>0, <2>2, MainStays
  <2> QED
    BY <1>4, <2>3, <2>4
<1>6. CASE saved.main = <<TRUE, FALSE>> /\ code.main = <<EA, EA>>
  <2>0. code'.main = <<EA>>
    BY <1>1, <1>6
  <2>1. saved'.main = <<TRUE>> /\ saved'.main # <<>>
    BY <1>2, <1>6, SectionBits, Zenon
  <2>2. pie' = FALSE
    BY <1>1, <1>6, SectionBits, Zenon
  <2>3. (code.main # <<>> /\ Head(code.main).op = "enable_all")' /\ MainLeaves'
    BY <2>0, <2>1, Fields DEF MainLeaves
  <2>4. MainCode'
    BY <2>3, MainRows, PTL
  <2>5. Contexts'
    BY <1>1, <1>2, <1>3, <2>1, <2>2, MainStays
  <2> QED
    BY <1>4, <2>4, <2>5
<1> QED
  BY <1>1, <1>5, <1>6 DEF MainLeaves

(* alt_ic_isr_register, with interrupts off: handler, context, mask. *)
LEMMA WriteHandlerHolds ==
  ASSUME IInv, mode = "main", WriteHandler, UNCHANGED tickVars
  PROVE  IInv'
<1> USE DEF IInv
<1>1. /\ MainSetsHandler /\ Head(code.main).op = "handler"
      /\ code' = [main |-> Tail(code.main), isr |-> <<>>] /\ code'.main = Tail(code.main)
      /\ alt_irq' = [alt_irq EXCEPT ![Head(code.main).irq].handler = Head(code.main).isr]
      /\ UNCHANGED <<mode, pie, saved, ienable, line>>
  BY MainSteps DEF WriteHandler, MainIn
<1>2. PICK i \in Irqs, h \in Handlers \union {NULL} :
        code.main = <<Handler(i, h), Context(i, h), DA, Mask(i, h # NULL), EA, EA>>
  BY <1>1 DEF MainSetsHandler
<1>3. code'.main = <<Context(i, h), DA, Mask(i, h # NULL), EA, EA>>
  BY <1>1, <1>2
<1>4. Head(code.main).irq = i /\ Head(code.main).isr = h
  BY <1>2, Fields
<1>5. alt_irq' = [alt_irq EXCEPT ![i].handler = h]
  BY <1>1, <1>4
<1>6. /\ alt_irq' \in [Irqs -> [handler : Handlers \union {NULL, TimerIrq},
                                context : Handlers \union {NULL, TimerIrq}]]
      /\ alt_irq'[i].handler = h /\ \A j \in Irqs \ {i} : alt_irq'[j] = alt_irq[j]
  BY <1>5 DEF TypeOK
<1>7. \A j \in ienable : j \in Served' \/ Dropping(j)'
  <2>1. ienable \subseteq Served
    BY <1>1, ServedOutside
  <2>2. ASSUME NEW j \in ienable, j # i
        PROVE  j \in Served'
    BY <1>6, <2>1, <2>2 DEF Served
  <2>3. CASE h # NULL
    BY <1>6, <2>2, <2>3 DEF Served
  <2>4. CASE h = NULL
    <3>1. PICK on \in BOOLEAN : on = (h # NULL)
      BY Zenon
    <3>2. ~on /\ code'.main = <<Context(i, NULL), DA, Mask(i, on), EA, EA>>
      BY <1>3, <2>4, <3>1, Zenon
    <3>4. saved'.main = <<TRUE>>
      BY <1>1 DEF MainSetsHandler
    <3>3. Dropping(i)'
      BY <3>2, <3>4, Zenon DEF Dropping, Drops
    <3> QED
      BY <2>2, <3>3
  <2> QED
    BY <2>3, <2>4
<1>8. (code.main # <<>> /\ Head(code.main).op = "context")' /\ Head(code'.main).irq = i
  BY <1>3, Fields
<1>9. MainSetsContext'
  BY <1>1, <1>3, <1>6 DEF MainSetsHandler, MainSetsContext
<1>10. MainCode'
  BY <1>8, <1>9, MainRows, PTL
<1>11. Quiet' /\ Linked'
  BY <1>1, TickFrame DEF Contexts
<1>12. Contexts'
  BY <1>1, <1>11, MainStays DEF Contexts
<1>13. Tables'
  BY <1>1, <1>6, <1>7, <1>8 DEF Tables
<1>14. TypeOK'
  BY <1>1, <1>6 DEF TypeOK, tickVars
<1> QED
  BY <1>10, <1>11, <1>12, <1>13, <1>14

LEMMA WriteContextHolds ==
  ASSUME IInv, mode = "main", WriteContext, UNCHANGED tickVars
  PROVE  IInv'
<1> USE DEF IInv
<1>1. /\ MainSetsContext /\ Head(code.main).op = "context"
      /\ code' = [main |-> Tail(code.main), isr |-> <<>>] /\ code'.main = Tail(code.main)
      /\ alt_irq' = [alt_irq EXCEPT ![Head(code.main).irq].context = Head(code.main).isr]
      /\ UNCHANGED <<mode, pie, saved, ienable, line>>
  BY MainSteps DEF WriteContext, MainIn
<1>2. PICK i \in Irqs, h \in Handlers \union {NULL} :
        code.main = <<Context(i, h), DA, Mask(i, h # NULL), EA, EA>> /\ alt_irq[i].handler = h
  BY <1>1 DEF MainSetsContext
<1>3. code'.main = <<DA, Mask(i, h # NULL), EA, EA>>
  BY <1>1, <1>2
<1>4. Head(code.main).irq = i /\ Head(code.main).isr = h
  BY <1>2, Fields
<1>5. alt_irq' = [alt_irq EXCEPT ![i].context = h]
  BY <1>1, <1>4
<1>6. /\ alt_irq' \in [Irqs -> [handler : Handlers \union {NULL, TimerIrq},
                                context : Handlers \union {NULL, TimerIrq}]]
      /\ alt_irq'[i].handler = h /\ alt_irq'[i].context = h
      /\ \A j \in Irqs \ {i} : alt_irq'[j] = alt_irq[j]
  BY <1>2, <1>5 DEF TypeOK
<1>7. Served' = Served /\ (h # NULL => i \in Served)
  BY <1>2, <1>6 DEF Served
<1>8. (code.main # <<>> /\ Head(code.main).op = "disable_all")'
  BY <1>3, Fields
<1>9. MainEnters'
  <2>1. PICK on \in BOOLEAN : on = (h # NULL)
    BY Zenon
  <2>2. (on => i \in Served') /\ code'.main = <<DA, Mask(i, on), EA, EA>>
    BY <1>3, <1>7, <2>1, Zenon
  <2>3. saved'.main = <<TRUE>>
    BY <1>1 DEF MainSetsContext
  <2> QED
    BY <2>2, <2>3, Zenon DEF MainEnters
<1>10. MainCode'
  BY <1>8, <1>9, MainRows, PTL
<1>11. Quiet' /\ Linked'
  BY <1>1, TickFrame DEF Contexts
<1>12. Contexts'
  BY <1>1, <1>11, MainStays DEF Contexts
<1>13. Tables'
  <2>1. ASSUME NEW j \in ienable, Dropping(j)
        PROVE  Dropping(j)'
    <3>1. PICK off \in BOOLEAN : ~off /\ Drops(j, off)
      BY <2>1, Zenon DEF Dropping
    <3>2. code.main = <<Context(j, NULL), DA, Mask(j, off), EA, EA>> /\ saved.main = <<TRUE>>
      BY <1>1, <3>1, DroppingNow
    <3>3. code'.main = <<DA, Mask(j, off), EA, EA>> /\ saved'.main = <<TRUE>>
      BY <1>1, <3>2
    <3> QED
      BY <3>1, <3>3, Zenon DEF Dropping, Drops
  <2>2. \A j \in ienable' : j \in Served' \/ Dropping(j)'
    BY <1>1, <1>7, <2>1 DEF Tables
  <2>3. \A j \in Irqs : \/ alt_irq'[j].context = alt_irq'[j].handler
                        \/ (code.main # <<>> /\ Head(code.main).op = "context"
                              /\ Head(code.main).irq = j)'
    BY <1>1, <1>4, <1>6 DEF Tables
  <2> QED
    BY <2>2, <2>3 DEF Tables
<1>14. TypeOK'
  BY <1>1, <1>6 DEF TypeOK, tickVars
<1> QED
  BY <1>10, <1>11, <1>12, <1>13, <1>14

LEMMA WriteMaskHolds ==
  ASSUME IInv, mode = "main", WriteMask, UNCHANGED tickVars
  PROVE  IInv'
<1> USE DEF IInv
<1>1. /\ MainMasks /\ Head(code.main).op = "mask"
      /\ code' = [main |-> Tail(code.main), isr |-> <<>>] /\ code'.main = Tail(code.main)
      /\ ienable' = IF Head(code.main).on THEN ienable \union {Head(code.main).irq}
                                         ELSE ienable \ {Head(code.main).irq}
      /\ UNCHANGED <<mode, pie, saved, alt_irq, line>>
  BY MainSteps, Zenon DEF WriteMask, MainIn
<1>2. PICK i \in Irqs, on \in BOOLEAN :
        /\ on => i \in Served
        /\ \/ saved.main = <<TRUE>> /\ code.main = <<Mask(i, on), EA>>
           \/ saved.main = <<TRUE, FALSE>> /\ code.main = <<Mask(i, on), EA, EA>>
  BY <1>1, Zenon DEF MainMasks, Served
<1>3. code.main = <<Mask(i, on), EA>> \/ code.main = <<Mask(i, on), EA, EA>>
  BY <1>2, Zenon
<1>4. Head(code.main) = Mask(i, on)
  BY <1>3
<1>5. MainLeaves' /\ (code.main # <<>> /\ Head(code.main).op = "enable_all")'
  <2>1. CASE saved.main = <<TRUE>> /\ code.main = <<Mask(i, on), EA>>
    <3>1. code'.main = <<EA>>
      BY <1>1, <2>1
    <3>2. MainLeaves'
      BY <1>1, <2>1, <3>1, Zenon DEF MainLeaves
    <3> QED
      BY <3>1, <3>2, Fields
  <2>2. CASE saved.main = <<TRUE, FALSE>> /\ code.main = <<Mask(i, on), EA, EA>>
    <3>1. code.main = <<Mask(i, on), EA, EA>>
      BY <2>2
    <3>2. code'.main = <<EA, EA>>
      BY <1>1, <3>1
    <3>3. MainLeaves'
      BY <1>1, <2>2, <3>2, Zenon DEF MainLeaves
    <3> QED
      BY <3>2, <3>3, Fields
  <2> QED
    BY <1>2, <2>1, <2>2, Zenon
<1>6. MainCode'
  BY <1>5, MainRows, PTL
<1>7. Quiet' /\ Linked'
  BY <1>1, TickFrame DEF Contexts
<1>8. Contexts'
  BY <1>1, <1>7, MainStays DEF Contexts
<1>9. Served' = Served /\ Served \subseteq Irqs
  BY <1>1 DEF Served
<1>10. ienable' \subseteq Served
  <2>1. Mask(i, on).irq = i /\ Mask(i, on).on = on
    BY DEF Mask
  <2>2. ienable' = IF on THEN ienable \union {i} ELSE ienable \ {i}
    BY <1>1, <1>4, <2>1, Zenon
  <2>3. ASSUME NEW j \in ienable, j # i
        PROVE  j \in Served
    <3>1. ASSUME NEW off \in BOOLEAN, Drops(j, off)
          PROVE  FALSE
      <4>1. code.main = <<Mask(j, off), EA, EA>>
        BY <1>1, <3>1, DroppingNow
      <4>2. Head(code.main) = Mask(j, off)
        BY <4>1
      <4>3. Head(code.main).irq = j /\ Head(code.main).irq = i
        BY <1>4, <4>2, Fields
      <4> QED
        BY <2>3, <4>3
    <3>2. ~Dropping(j)
      BY <3>1, Zenon DEF Dropping
    <3> QED
      BY <3>2 DEF Tables
  <2>4. CASE on = TRUE
    BY <1>2, <2>2, <2>3, <2>4
  <2>5. CASE on = FALSE
    BY <2>2, <2>3, <2>5
  <2> QED
    BY <2>4, <2>5, Zenon
<1>11. Tables'
  BY <1>1, <1>9, <1>10 DEF Tables
<1>12. TypeOK'
  BY <1>1, <1>9, <1>10 DEF TypeOK, tickVars
<1> QED
  BY <1>6, <1>7, <1>8, <1>11, <1>12

(***************************************************************************)
(* The interrupt routine's instructions of HalIrq.                         *)
(***************************************************************************)
LEMMA IsrSteps ==
  ASSUME IInv, mode = "isr", NEW op, Executes(op), Then(Rest)
  PROVE  /\ code.isr # <<>> /\ Head(code.isr).op = op /\ op \in IsrOps /\ IsrIn(op)
         /\ code' = [main |-> code.main, isr |-> Tail(code.isr)]
         /\ code'.main = code.main /\ code'.isr = Tail(code.isr)
  BY ExecutesIsr, ThenIsr DEF Rest, IInv

(* A step of the interrupt routine holds if its own code is in the tables  *)
(* and it leaves what the waiting program relies on.                       *)
LEMMA IsrDone ==
  ASSUME IInv, mode = "isr", mode' = "isr", ~pie',
         saved' = [main |-> saved.main, isr |-> saved'.isr],
         code' = [main |-> code.main, isr |-> code'.isr], code'.isr # <<>>,
         UNCHANGED <<ienable, alt_irq>>,
         OnceLinked \subseteq OnceLinked', \A a \in Fresh : Starting(a) => a \in Fresh',
         IsrCode'
  PROVE  MainCode' /\ Contexts' /\ Tables'
<1> USE DEF IInv
<1>1. saved.main = <<>> /\ saved'.main = <<>> /\ code'.main = code.main
  BY DEF Contexts
<1>2. MainWaits
  BY <1>1, OutsideWaits
<1>3. Served' = Served
  BY DEF Served
<1>4. ASSUME NEW a \in Fresh, NEW n \in Delays, code.main = <<DA, Time(a, n), LinkIn(a), EA>>
      PROVE  a \in Fresh'
  <2>1. 2 \in DOMAIN code.main /\ code.main[2] = Time(a, n)
    BY <1>4
  <2>2. Time(a, n) \in [op : {"time"}, alarm : {a}, ticks : Delays]
    BY DEF Time
  <2>3. Starting(a)
    BY <2>1, <2>2 DEF Starting
  <2> QED
    BY <2>3
<1>5. MainWaits'
  <2>1. CASE code.main = <<>>
    BY <1>1, <2>1 DEF MainWaits
  <2>2. ASSUME NEW i \in Irqs, NEW h \in Handlers \union {NULL},
               code.main = <<DA, Handler(i, h), Context(i, h), DA, Mask(i, h # NULL), EA, EA>>
        PROVE  MainWaits'
    BY <1>1, <2>2 DEF MainWaits
  <2>3. ASSUME NEW i \in Served, NEW on \in BOOLEAN, code.main = <<DA, Mask(i, on), EA>>
        PROVE  MainWaits'
    BY <1>1, <1>3, <2>3 DEF MainWaits
  <2>4. ASSUME NEW a \in Fresh, NEW n \in Delays, code.main = <<DA, Time(a, n), LinkIn(a), EA>>
        PROVE  MainWaits'
    BY <1>1, <1>4, <2>4 DEF MainWaits
  <2>5. ASSUME NEW a \in OnceLinked, code.main = <<DA, TakeOut(a), EA>>
        PROVE  MainWaits'
    BY <1>1, <2>5 DEF MainWaits
  <2> QED
    BY <1>2, <2>1, <2>2, <2>3, <2>4, <2>5 DEF MainWaits
<1>6. MainCode'
  BY <1>5, WaitsIsCode, PTL
<1>7. Contexts'
  BY <1>1 DEF Contexts
<1>8. Tables'
  BY <1>1, <1>3, ServedOutside DEF Tables
<1> QED
  BY <1>6, <1>7, <1>8

LEMMA DisableIsr ==
  ASSUME IInv, mode = "isr", DisableAll, UNCHANGED tickVars
  PROVE  MainCode' /\ Contexts' /\ Tables'
<1> USE DEF IInv
<1>1. /\ IsrEnters /\ Head(code.isr).op = "disable_all" /\ pie' = FALSE
      /\ code' = [main |-> code.main, isr |-> Tail(code.isr)] /\ code'.isr = Tail(code.isr)
      /\ code'.main = code.main
      /\ saved' = [saved EXCEPT !.isr = Append(saved.isr, pie)]
      /\ UNCHANGED <<mode, ienable, alt_irq, line>>
  BY IsrSteps DEF DisableAll, IsrIn
<1>2. pie = FALSE
  BY DEF Contexts, TypeOK
<1>3. saved' = [main |-> saved.main, isr |-> Append(saved.isr, FALSE)]
      /\ saved'.isr = Append(saved.isr, FALSE)
  BY <1>1, <1>2 DEF Contexts
<1>4. /\ Served' = Served /\ Fresh' = Fresh /\ OnceLinked' = OnceLinked
      /\ Quiet' <=> Quiet
      /\ InCallback' <=> InCallback
  BY <1>1, TickFrame DEF Served
<1>5. Startable' = Startable
  BY <1>1, <1>4 DEF Startable, Starting, tickVars
<1>6. CASE saved.isr = <<>> /\ code.isr = TickThenWalk /\ Quiet
  <2>1. code'.isr = <<Do("tick"), Wlk, EA, Dsp>>
    BY <1>1, <1>6 DEF TickThenWalk
  <2>2. saved'.isr = <<FALSE>>
    BY <1>3, <1>6, SectionBits, Zenon
  <2>3. (Head(code.isr).op = "tick")' /\ code'.isr # <<>> /\ IsrTicks'
    BY <1>4, <1>6, <2>1, <2>2, Fields DEF IsrTicks
  <2>4. IsrCode'
    BY <2>3, IsrRows, PTL
  <2> QED
    BY <1>1, <1>3, <1>4, <2>3, <2>4, IsrDone
<1>7. CASE saved.isr = <<FALSE>> /\ InCallback
  <2>1. saved'.isr = <<FALSE, FALSE>>
    BY <1>3, <1>7, SectionBits, Zenon
  <2>2. ASSUME NEW b \in Startable, NEW n \in Delays, NEW r \in After,
               code.isr = <<DA, Time(b, n), LinkIn(b), EA, r, Wlk, EA, Dsp>>
        PROVE  IsrCode' /\ code'.isr # <<>>
    <3>1. code'.isr = <<Time(b, n), LinkIn(b), EA, r, Wlk, EA, Dsp>>
      BY <1>1, <2>2
    <3>2. (Head(code.isr).op = "time")' /\ code'.isr # <<>>
      BY <3>1, Fields
    <3>3. IsrTimes'
      BY <1>4, <1>5, <1>7, <2>1, <3>1 DEF IsrTimes
    <3> QED
      BY <3>2, <3>3, IsrRows, PTL
  <2>3. ASSUME NEW b \in OnceLinked, NEW r \in After,
               code.isr = <<DA, TakeOut(b), EA, r, Wlk, EA, Dsp>>
        PROVE  IsrCode' /\ code'.isr # <<>>
    <3>1. code'.isr = <<TakeOut(b), EA, r, Wlk, EA, Dsp>>
      BY <1>1, <2>3
    <3>2. (Head(code.isr).op = "unlink")' /\ code'.isr # <<>>
      BY <3>1, Fields
    <3>3. IsrUnlinks'
      BY <1>4, <1>7, <2>1, <3>1 DEF IsrUnlinks
    <3> QED
      BY <3>2, <3>3, IsrRows, PTL
  <2>4. ASSUME code.isr = <<DA, TakeOut(alarm), EA, Adv, Wlk, EA, Dsp>>
        PROVE  IsrCode' /\ code'.isr # <<>>
    <3>1. code'.isr = <<TakeOut(alarm'), EA, Adv, Wlk, EA, Dsp>>
      BY <1>1, <2>4 DEF tickVars
    <3>2. (Head(code.isr).op = "unlink")' /\ code'.isr # <<>>
      BY <3>1, Fields
    <3>3. IsrUnlinks'
      BY <1>4, <1>7, <2>1, <3>1 DEF IsrUnlinks
    <3> QED
      BY <3>2, <3>3, IsrRows, PTL
  <2>5. IsrCode' /\ code'.isr # <<>>
    <3>1. saved.isr # <<>>
      BY <1>7
    <3> QED
      BY <1>1, <3>1, <2>2, <2>3, <2>4, Zenon DEF IsrEnters
  <2> QED
    BY <1>1, <1>3, <1>4, <2>5, IsrDone
<1> QED
  BY <1>1, <1>6, <1>7 DEF IsrEnters

LEMMA EnableIsr ==
  ASSUME IInv, mode = "isr", EnableAll, UNCHANGED tickVars
  PROVE  MainCode' /\ Contexts' /\ Tables'
<1> USE DEF IInv
<1>1. /\ IsrLeaves /\ Head(code.isr).op = "enable_all" /\ pie' = Last(saved.isr)
      /\ code' = [main |-> code.main, isr |-> Tail(code.isr)] /\ code'.isr = Tail(code.isr)
      /\ code'.main = code.main
      /\ saved' = [saved EXCEPT !.isr = Front(saved.isr)]
      /\ UNCHANGED <<mode, ienable, alt_irq, line>>
  BY IsrSteps DEF EnableAll, IsrIn
<1>2. saved' = [main |-> saved.main, isr |-> Front(saved.isr)]
      /\ saved'.isr = Front(saved.isr)
  BY <1>1 DEF Contexts
<1>3. /\ Fresh' = Fresh /\ OnceLinked' = OnceLinked
      /\ Quiet' <=> Quiet
      /\ InCallback' <=> InCallback
  BY <1>1, TickFrame
<1>4. CASE saved.isr = <<FALSE>> /\ code.isr = <<EA, Dsp>> /\ Quiet
  <2>1. code'.isr = <<Dsp>>
    BY <1>1, <1>4
  <2>2. saved'.isr = <<>> /\ pie' = FALSE
    BY <1>1, <1>2, <1>4, SectionBits, Zenon
  <2>3. (Head(code.isr).op = "dispatch")' /\ code'.isr # <<>> /\ IsrDispatches'
    BY <1>3, <1>4, <2>1, <2>2, Fields DEF IsrDispatches
  <2>4. IsrCode'
    BY <2>3, IsrRows, PTL
  <2> QED
    BY <1>1, <1>2, <1>3, <2>2, <2>3, <2>4, IsrDone
<1>5. CASE saved.isr = <<FALSE, FALSE>> /\ InCallback
  <2>1. saved'.isr = <<FALSE>> /\ pie' = FALSE
    BY <1>1, <1>2, <1>5, SectionBits, Zenon
  <2>2. ASSUME NEW r \in After, code.isr = <<EA, r, Wlk, EA, Dsp>>
        PROVE  IsrCode' /\ code'.isr # <<>>
    <3>1. code'.isr = <<r, Wlk, EA, Dsp>>
      BY <1>1, <2>2
    <3>2. (Head(code.isr).op = "returned")' /\ code'.isr # <<>>
      BY <3>1, Fields
    <3>3. IsrReturns'
      BY <1>3, <1>5, <2>1, <3>1 DEF IsrReturns
    <3> QED
      BY <3>2, <3>3, IsrRows, PTL
  <2>3. ASSUME code.isr = <<EA, Adv, Wlk, EA, Dsp>>, alarm \notin armed
        PROVE  IsrCode' /\ code'.isr # <<>>
    <3>1. code'.isr = <<Adv, Wlk, EA, Dsp>>
      BY <1>1, <2>3
    <3>2. (Head(code.isr).op = "advance")' /\ code'.isr # <<>>
      BY <3>1, Fields
    <3>3. IsrAdvances'
      BY <1>3, <1>5, <2>1, <2>3, <3>1 DEF IsrAdvances, tickVars
    <3> QED
      BY <3>2, <3>3, IsrRows, PTL
  <2>4. IsrCode' /\ code'.isr # <<>>
    <3>1. saved.isr # <<FALSE>>
      BY <1>5
    <3> QED
      BY <1>1, <3>1, <2>2, <2>3, Zenon DEF IsrLeaves
  <2> QED
    BY <1>1, <1>2, <1>3, <2>1, <2>4, IsrDone
<1> QED
  BY <1>1, <1>4, <1>5 DEF IsrLeaves

LEMMA ClearIsr ==
  ASSUME IInv, mode = "isr", Clear, UNCHANGED tickVars
  PROVE  IInv'
<1> USE DEF IInv
<1>1. /\ IsrClears
      /\ code' = [main |-> code.main, isr |-> Tail(code.isr)] /\ code'.isr = Tail(code.isr)
      /\ code'.main = code.main
      /\ line' = line \ {Head(code.isr).irq}
      /\ UNCHANGED <<mode, pie, saved, ienable, alt_irq>>
  BY IsrSteps DEF Clear, IsrIn
<1>2. /\ Fresh' = Fresh /\ OnceLinked' = OnceLinked /\ Linked'
      /\ Quiet' <=> Quiet
      /\ InCallback' <=> InCallback
  BY TickFrame
<1>3. code'.isr \in {<<Dsp>>, TickThenWalk} /\ saved'.isr = <<>> /\ Quiet'
  BY <1>1, <1>2 DEF IsrClears
<1>4. ASSUME code'.isr = <<Dsp>>
      PROVE  IsrCode'
  <2>1. (Head(code.isr).op = "dispatch")' /\ code'.isr # <<>> /\ IsrDispatches'
    BY <1>3, <1>4, Fields DEF IsrDispatches
  <2> QED
    BY <2>1, IsrRows, PTL
<1>5. ASSUME code'.isr = TickThenWalk
      PROVE  IsrCode'
  <2>1. (Head(code.isr).op = "disable_all")' /\ code'.isr # <<>>
    BY <1>5, Fields DEF TickThenWalk
  <2>2. IsrEnters'
    BY <1>3, <1>5 DEF IsrEnters
  <2> QED
    BY <2>1, <2>2, IsrRows, PTL
<1>6. IsrCode' /\ code'.isr # <<>>
  <2>1. code'.isr # <<>>
    BY <1>3 DEF TickThenWalk
  <2> QED
    BY <1>3, <1>4, <1>5, <2>1
<1>7. MainCode' /\ Contexts' /\ Tables'
  <2>1. ~pie' /\ saved' = [main |-> saved.main, isr |-> saved'.isr]
    BY <1>1 DEF Contexts
  <2> QED
    BY <1>1, <1>2, <1>6, <2>1, IsrDone
<1>8. TypeOK'
  BY <1>1 DEF TypeOK, tickVars
<1> QED
  BY <1>2, <1>7, <1>8

LEMMA DispatchIsr ==
  ASSUME IInv, mode = "isr", Dispatch(TimerCode), UNCHANGED tickVars
  PROVE  IInv'
<1> USE DEF IInv
<1> DEFINE i == Min(Pending)  cl == [op |-> "clear", irq |-> i]
<1>1. IsrDispatches
  BY ExecutesIsr DEF Dispatch, IsrIn
<1>2. /\ Then(<<cl>> \o (IF alt_irq[i].handler = TimerIrq THEN TimerCode ELSE <<>>) \o <<Dsp>>)
      /\ UNCHANGED <<mode, pie, saved, ienable, alt_irq, line>>
  BY Zenon DEF Dispatch, HandlerCode, Dsp
<1>3. code' = [main |-> code.main, isr |-> code'.isr]
  BY <1>2, ThenIsr
<1>4. code'.isr = <<cl, Dsp>> \/ code'.isr = <<cl, DA, Do("tick"), Wlk, EA, Dsp>>
  <2>1. code'.isr = <<cl>> \o (IF alt_irq[i].handler = TimerIrq THEN TimerCode ELSE <<>>) \o <<Dsp>>
    BY <1>2, ThenIsr
  <2>2. CASE alt_irq[i].handler = TimerIrq
    <3>1. code'.isr = <<cl>> \o <<DA, Do("tick"), Wlk, EA>> \o <<Dsp>>
      BY <2>1, <2>2, CallsWritten, Zenon
    <3>2. <<cl>> \o <<DA, Do("tick"), Wlk, EA>> = <<cl, DA, Do("tick"), Wlk, EA>>
      BY Join1x4, Zenon
    <3>3. <<cl, DA, Do("tick"), Wlk, EA>> \o <<Dsp>> = <<cl, DA, Do("tick"), Wlk, EA, Dsp>>
      BY Join5x1, Zenon
    <3> QED
      BY <3>1, <3>2, <3>3, Zenon
  <2>3. CASE alt_irq[i].handler # TimerIrq
    <3>1. code'.isr = <<cl>> \o <<>> \o <<Dsp>>
      BY <2>1, <2>3, Zenon
    <3>2. <<cl>> \o <<>> = <<cl>> /\ <<cl>> \o <<Dsp>> = <<cl, Dsp>>
      BY Join1x0, Join1x1, Zenon
    <3> QED
      BY <3>1, <3>2, Zenon
  <2> QED
    BY <2>2, <2>3
<1>5. cl.op = "clear"
  OBVIOUS
<1> HIDE DEF cl, i
<1>6. /\ (Head(code.isr).op = "clear")' /\ code'.isr # <<>>
      /\ Tail(code'.isr) \in {<<Dsp>>, TickThenWalk}
  <2>1. ASSUME code'.isr = <<cl, Dsp>>
        PROVE  Head(code'.isr) = cl /\ code'.isr # <<>> /\ Tail(code'.isr) = <<Dsp>>
    BY <2>1
  <2>2. ASSUME code'.isr = <<cl, DA, Do("tick"), Wlk, EA, Dsp>>
        PROVE  Head(code'.isr) = cl /\ code'.isr # <<>> /\ Tail(code'.isr) = TickThenWalk
    BY <2>2 DEF TickThenWalk
  <2> QED
    BY <1>4, <1>5, <2>1, <2>2
<1>7. /\ Fresh' = Fresh /\ OnceLinked' = OnceLinked /\ Linked'
      /\ Quiet' <=> Quiet
  BY TickFrame
<1>8. IsrClears'
  BY <1>1, <1>2, <1>6, <1>7 DEF IsrDispatches, IsrClears
<1>9. IsrCode'
  BY <1>6, <1>8, IsrRows, PTL
<1>10. MainCode' /\ Contexts' /\ Tables'
  <2>1. ~pie' /\ saved' = [main |-> saved.main, isr |-> saved'.isr]
    BY <1>2 DEF Contexts
  <2> QED
    BY <1>2, <1>3, <1>6, <1>7, <1>9, <2>1, IsrDone
<1> QED
  BY <1>2, <1>7, <1>10, TypeFrame

LEMMA ReturnIsr ==
  ASSUME IInv, mode = "isr", Return, UNCHANGED tickVars
  PROVE  IInv'
<1> USE DEF IInv
<1>1. IsrDispatches
  BY ExecutesIsr DEF Return, IsrIn
<1>2. /\ mode' = "main" /\ pie' = TRUE /\ Then(<<>>)
      /\ UNCHANGED <<saved, ienable, alt_irq, line>>
  BY DEF Return
<1>3. /\ code' = [main |-> code.main, isr |-> <<>>]
      /\ code'.main = code.main /\ code'.isr = <<>>
  BY <1>2, ThenIsr
<1>4. /\ Fresh' = Fresh /\ OnceLinked' = OnceLinked /\ Linked'
      /\ Quiet' /\ Served' = Served
  BY <1>1, <1>2, TickFrame DEF IsrDispatches, Served
<1>5. saved.main = <<>> /\ saved' = [main |-> saved'.main, isr |-> <<>>]
  BY <1>1, <1>2 DEF Contexts, IsrDispatches
<1>6. MainWaits'
  BY <1>2, <1>3, <1>4, <1>5, OutsideWaits DEF MainWaits
<1>7. MainCode'
  BY <1>6, WaitsIsCode, PTL
<1>8. Contexts'
  BY <1>2, <1>3, <1>4, <1>5, MainStays
<1>9. Tables'
  BY <1>2, <1>3, <1>4, <1>5, ServedOutside DEF Tables, Dropping
<1>10. TypeOK'
  <2>1. pie' \in BOOLEAN
    BY <1>2, Zenon
  <2> QED
    BY <1>2, <2>1 DEF TypeOK, tickVars
<1> QED
  BY <1>4, <1>7, <1>8, <1>9, <1>10

(* DisableAll and EnableAll in either context. *)
LEMMA SectionsHold ==
  ASSUME IInv, DisableAll \/ EnableAll, UNCHANGED tickVars
  PROVE  IInv'
<1> USE DEF IInv
<1>1. mode \in {"main", "isr"}
  BY DEF TypeOK
<1>2. MainCode' /\ Contexts' /\ Tables'
  BY <1>1, DisableMain, DisableIsr, EnableMain, EnableIsr
<1>3. Linked'
  BY TickFrame
<1>4. UNCHANGED <<mode, ienable, alt_irq, line>>
  BY DEF DisableAll, EnableAll
<1>5. CASE DisableAll
  <2>1. pie' = FALSE
    BY <1>5 DEF DisableAll
  <2>2. pie' \in BOOLEAN
    BY <2>1, Zenon
  <2> QED
    BY <1>2, <1>3, <1>4, <2>2 DEF TypeOK, tickVars
<1>6. CASE EnableAll
  <2>1. pie' = Last(saved[mode]) /\ Executes("enable_all")
    BY <1>6 DEF EnableAll
  <2>2. saved[mode] \in {<<TRUE>>, <<TRUE, FALSE>>, <<FALSE>>, <<FALSE, FALSE>>}
    <3>1. CASE mode = "main"
      <4>1. MainLeaves
        BY <2>1, <3>1, ExecutesMain DEF MainIn
      <4> QED
        BY <3>1, <4>1, Zenon DEF MainLeaves
    <3>2. CASE mode = "isr"
      <4>1. IsrLeaves
        BY <2>1, <3>2, ExecutesIsr DEF IsrIn
      <4> QED
        BY <3>2, <4>1, Zenon DEF IsrLeaves
    <3> QED
      BY <1>1, <3>1, <3>2
  <2>3. pie' \in BOOLEAN
    BY <2>1, <2>2, SectionBits, Zenon
  <2> QED
    BY <1>2, <1>3, <1>4, <2>3 DEF TypeOK, tickVars
<1> QED
  BY <1>5, <1>6

(***************************************************************************)
(* Linking and unlinking.                                                  *)
(***************************************************************************)
LEMMA LinkedNodes ==
  ASSUME Linked
  PROVE  /\ List \subseteq Nodes /\ ListHead \in List /\ ListHead \notin armed
         /\ ListHead \notin Stopped /\ NULL \notin Nodes
         /\ \A x \in Stopped : x \in Nodes /\ x \notin List
         /\ \A x \in armed : next[x] # x /\ previous[x] # x
<1>1. /\ List \subseteq Nodes /\ ListHead \in List /\ ListHead \notin armed
      /\ ListHead \notin Stopped /\ NULL \notin Nodes
      /\ \A x \in Stopped : x \in Nodes /\ x \notin List
  BY AlarmAssumption DEF Linked, List, Stopped, Nodes
<1>2. ASSUME NEW x \in armed
      PROVE  next[x] # x /\ previous[x] # x
  <2>1. {x} \in SUBSET armed /\ {x} # {}
    OBVIOUS
  <2>2. (\E y \in {x} : next[y] \notin {x}) /\ (\E y \in {x} : previous[y] \notin {x})
    BY <2>1 DEF Linked
  <2> QED
    BY <2>2
<1> QED
  BY <1>1, <1>2

LEMMA LinkKeepsList ==
  ASSUME Linked, NEW a \in Fresh,
         next' = [next EXCEPT ![a] = next[ListHead], ![ListHead] = a],
         previous' = [previous EXCEPT ![a] = ListHead, ![next[ListHead]] = a],
         armed' = armed \union {a}
  PROVE  /\ Linked'
         /\ \A x \in Nodes : next[x] # NULL => next'[x] # NULL
         /\ \A x \in Stopped \ {a} : next'[x] = next[x]
         /\ List' = List \union {a}
         /\ \A x \in List, c \in armed : Ahead(x, c) => Ahead(x, c)'
<1> DEFINE h == next[ListHead]
<1>1. /\ List \subseteq Nodes /\ ListHead \in List /\ ListHead \notin armed
      /\ ListHead \notin Stopped /\ NULL \notin Nodes
      /\ \A x \in Stopped : x \in Nodes /\ x \notin List
  BY LinkedNodes
<1>2. a \in Alarms /\ a \notin List /\ a \in Nodes /\ a # ListHead /\ a \in Stopped
  BY <1>1 DEF Fresh, Stopped, List, Nodes
<1>3. /\ \A x \in List : next[x] \in List /\ previous[next[x]] = x
      /\ \A x \in List : previous[x] \in List /\ next[previous[x]] = x
      /\ next \in [Nodes -> Nodes \union {NULL}] /\ previous \in [Nodes -> Nodes \union {NULL}]
      /\ armed \subseteq Alarms
  BY DEF Linked
<1>4. h \in List /\ previous[h] = ListHead /\ h # a /\ h \in Nodes
  BY <1>1, <1>2, <1>3
<1>5. /\ next' \in [Nodes -> Nodes \union {NULL}]
      /\ next'[a] = h /\ next'[ListHead] = a
      /\ \A x \in Nodes \ {a, ListHead} : next'[x] = next[x]
  BY <1>1, <1>2, <1>3, <1>4
<1>6. /\ previous' \in [Nodes -> Nodes \union {NULL}]
      /\ previous'[a] = ListHead /\ previous'[h] = a
      /\ \A x \in Nodes \ {a, h} : previous'[x] = previous[x]
  BY <1>1, <1>2, <1>3, <1>4
<1>7. /\ List' = List \union {a} /\ Stopped' = Stopped \ {a}
      /\ armed \subseteq List \ {ListHead} /\ List = armed \union {ListHead}
  BY <1>1 DEF List, Stopped
<1> HIDE DEF h
<1>8. ASSUME NEW x \in List'
      PROVE  next'[x] \in List' /\ previous'[next'[x]] = x
  <2>1. CASE x = a \/ x = ListHead
    BY <1>1, <1>2, <1>4, <1>5, <1>6, <1>7, <2>1
  <2>2. CASE x \in List \ {ListHead}
    <3>1. next'[x] = next[x] /\ next[x] \in List /\ previous[next[x]] = x
      BY <1>1, <1>2, <1>3, <1>5, <2>2
    <3>2. next[x] # a /\ next[x] # h
      BY <1>2, <1>4, <2>2, <3>1
    <3> QED
      BY <1>1, <1>6, <1>7, <3>1, <3>2
  <2> QED
    BY <1>7, <2>1, <2>2
<1>9. ASSUME NEW x \in List'
      PROVE  previous'[x] \in List' /\ next'[previous'[x]] = x
  <2>1. CASE x = a \/ x = h
    BY <1>1, <1>2, <1>4, <1>5, <1>6, <1>7, <2>1
  <2>2. CASE x \in List \ {h}
    <3>1. previous'[x] = previous[x] /\ previous[x] \in List /\ next[previous[x]] = x
      BY <1>1, <1>2, <1>3, <1>6, <2>2
    <3>2. previous[x] # a /\ previous[x] # ListHead
      BY <1>2, <1>4, <2>2, <3>1 DEF h
    <3> QED
      BY <1>1, <1>5, <1>7, <3>1, <3>2
  <2> QED
    BY <1>7, <2>1, <2>2
<1>10. ASSUME NEW S \in SUBSET armed', S # {}
       PROVE  \E x \in S : next'[x] \notin S
  <2>1. CASE S \ {a} = {}
    <3>1. a \in S /\ h \notin S
      BY <1>4, <1>10, <2>1
    <3> QED
      BY <1>5, <3>1
  <2>2. CASE S \ {a} # {}
    <3>1. S \ {a} \in SUBSET armed
      OBVIOUS
    <3>2. PICK x \in S \ {a} : next[x] \notin S \ {a}
      BY <2>2, <3>1 DEF Linked
    <3>3. x \in List \ {ListHead} /\ x # a
      BY <1>7, <3>1, <3>2
    <3>4. next'[x] = next[x] /\ next[x] # a
      BY <1>1, <1>2, <1>3, <1>5, <3>3
    <3> QED
      BY <3>2, <3>4
  <2> QED
    BY <2>1, <2>2
<1>11. ASSUME NEW S \in SUBSET armed', S # {}
       PROVE  \E x \in S : previous'[x] \notin S
  <2>1. CASE a \in S
    <3>1. ListHead \notin S
      BY <1>1, <1>2
    <3> QED
      BY <1>6, <2>1, <3>1
  <2>2. CASE a \notin S
    <3>1. S \in SUBSET armed
      BY <2>2
    <3>2. PICK x \in S : previous[x] \notin S
      BY <1>11, <3>1 DEF Linked
    <3>3. x \in Nodes /\ x # a
      BY <1>1, <1>2, <1>7, <3>1, <3>2
    <3> QED
      BY <1>6, <2>2, <3>2, <3>3
  <2> QED
    BY <2>1, <2>2
<1>12. ASSUME NEW x \in Stopped \ {a}
       PROVE  /\ next'[x] \in {NULL, x} /\ previous'[x] = next'[x]
              /\ next'[x] = next[x]
  <2>1. x \in Nodes /\ x # a /\ x # ListHead /\ x # h
    BY <1>1, <1>4, <1>12
  <2> QED
    BY <1>5, <1>6, <1>12, <2>1 DEF Linked
<1>13. Linked'
  <2>1. armed' \subseteq Alarms
    BY <1>2, <1>3
  <2> QED
    BY <1>5, <1>6, <1>7, <1>8, <1>9, <1>10, <1>11, <1>12, <2>1 DEF Linked, Nodes
<1>14. ASSUME NEW x \in Nodes, next[x] # NULL
       PROVE  next'[x] # NULL
  BY <1>1, <1>2, <1>4, <1>5, <1>14
<1>15. ASSUME NEW x \in List, NEW c \in armed, Ahead(x, c),
              NEW S \in SUBSET List', x \in S, Closed(S)'
       PROVE  c \in S
  <2>1. S \ {a} \in SUBSET List /\ x \in S \ {a}
    BY <1>2, <1>7, <1>15
  <2>2. ASSUME NEW y \in (S \ {a}) \ {ListHead}
        PROVE  next[y] \in S \ {a}
    <3>1. y \in List /\ next'[y] = next[y] /\ next[y] # a
      BY <1>1, <1>2, <1>3, <1>5, <2>1
    <3> QED
      BY <1>15, <3>1 DEF Closed
  <2>3. c \in S \ {a}
    BY <1>15, <2>1, <2>2 DEF Ahead, Closed
  <2> QED
    BY <2>3
<1>16. \A x \in List, c \in armed : Ahead(x, c) => Ahead(x, c)'
  BY <1>15 DEF Ahead
<1> QED
  BY <1>7, <1>12, <1>13, <1>14, <1>16

LEMMA UnlinkKeepsList ==
  ASSUME Linked, NEW a \in OnceLinked,
         next' = [next EXCEPT ![previous[a]] = next[a], ![a] = a],
         previous' = [previous EXCEPT ![next[a]] = previous[a], ![a] = a],
         armed' = armed \ {a}
  PROVE  /\ Linked'
         /\ \A x \in Nodes : next[x] # NULL => next'[x] # NULL
         /\ \A x \in Stopped \union {a} : next[x] = x \/ x = a => next'[x] = x
         /\ List' = List \ {a} /\ Stopped' = Stopped \union {a}
         /\ \A x \in List \ {a}, c \in armed \ {a} : Ahead(x, c) => Ahead(x, c)'
<1>1. /\ List \subseteq Nodes /\ ListHead \in List /\ ListHead \notin armed
      /\ ListHead \notin Stopped /\ NULL \notin Nodes
      /\ \A x \in Stopped : x \in Nodes /\ x \notin List
      /\ \A x \in armed : next[x] # x /\ previous[x] # x
  BY LinkedNodes
<1>2. a \in Alarms /\ a \in Nodes /\ a # ListHead /\ next[a] # NULL
  BY AlarmAssumption DEF OnceLinked, Nodes
<1>3. /\ \A x \in List : next[x] \in List /\ previous[next[x]] = x
      /\ \A x \in List : previous[x] \in List /\ next[previous[x]] = x
      /\ next \in [Nodes -> Nodes \union {NULL}] /\ previous \in [Nodes -> Nodes \union {NULL}]
      /\ armed \subseteq Alarms
  BY DEF Linked
<1>4. /\ List' = List \ {a} /\ Stopped' = Stopped \union {a}
      /\ armed \subseteq List \ {ListHead} /\ List = armed \union {ListHead}
  BY <1>1, <1>2 DEF List, Stopped
<1>5. CASE a \notin armed
  <2>1. a \in Stopped /\ next[a] = a /\ previous[a] = a
    BY <1>2, <1>5 DEF Linked, Stopped
  <2>2. next' = next /\ previous' = previous /\ armed' = armed
    BY <1>2, <1>3, <1>5, <2>1
  <2> QED
    BY <1>4, <2>1, <2>2, LinkedFrame
<1>6. CASE a \in armed
  <2> DEFINE p == previous[a]  n == next[a]
  <2>1. /\ p \in List /\ n \in List /\ next[p] = a /\ previous[n] = a
        /\ p # a /\ n # a /\ p \in Nodes /\ n \in Nodes /\ a \in List
    BY <1>1, <1>3, <1>4, <1>6
  <2>2. /\ next' \in [Nodes -> Nodes \union {NULL}]
        /\ next'[p] = n /\ next'[a] = a
        /\ \A x \in Nodes \ {a, p} : next'[x] = next[x]
    BY <1>2, <1>3, <2>1
  <2>3. /\ previous' \in [Nodes -> Nodes \union {NULL}]
        /\ previous'[n] = p /\ previous'[a] = a
        /\ \A x \in Nodes \ {a, n} : previous'[x] = previous[x]
    BY <1>2, <1>3, <2>1
  <2>4. next[a] = n /\ previous[a] = p
    OBVIOUS
  <2> HIDE DEF p, n
  <2>5. ASSUME NEW x \in List'
        PROVE  next'[x] \in List' /\ previous'[next'[x]] = x
    <3>1. CASE x = p
      BY <1>4, <2>1, <2>2, <2>3, <3>1
    <3>2. CASE x # p
      <4>1. x \in List /\ x # a /\ x \in Nodes
        BY <1>1, <1>4
      <4>2. next'[x] = next[x] /\ next[x] \in List /\ previous[next[x]] = x
        BY <1>3, <2>2, <3>2, <4>1
      <4>3. next[x] # a /\ next[x] # n
        BY <2>1, <2>4, <3>2, <4>1, <4>2
      <4> QED
        BY <1>1, <1>4, <2>3, <4>2, <4>3
    <3> QED
      BY <3>1, <3>2
  <2>6. ASSUME NEW x \in List'
        PROVE  previous'[x] \in List' /\ next'[previous'[x]] = x
    <3>1. CASE x = n
      BY <1>4, <2>1, <2>2, <2>3, <3>1
    <3>2. CASE x # n
      <4>1. x \in List /\ x # a /\ x \in Nodes
        BY <1>1, <1>4
      <4>2. previous'[x] = previous[x] /\ previous[x] \in List /\ next[previous[x]] = x
        BY <1>3, <2>3, <3>2, <4>1
      <4>3. previous[x] # a /\ previous[x] # p
        BY <2>1, <2>4, <3>2, <4>1, <4>2
      <4> QED
        BY <1>1, <1>4, <2>2, <4>2, <4>3
    <3> QED
      BY <3>1, <3>2
  <2>7. ASSUME NEW S \in SUBSET armed', S # {}
        PROVE  \E x \in S : next'[x] \notin S
    <3>1. S \in SUBSET armed /\ a \notin S /\ S \subseteq Nodes
      BY <1>1, <1>4
    <3>2. CASE p \in S /\ n \notin S
      BY <2>2, <3>2
    <3>3. CASE p \in S /\ n \in S
      <4>1. S \union {a} \in SUBSET armed
        BY <1>6, <3>1
      <4>2. PICK x \in S \union {a} : next[x] \notin S \union {a}
        BY <4>1 DEF Linked
      <4>3. x # a /\ x # p
        BY <2>1, <2>4, <3>3, <4>2
      <4> QED
        BY <2>2, <3>1, <4>2, <4>3
    <3>4. CASE p \notin S
      <4>1. PICK x \in S : next[x] \notin S
        BY <2>7, <3>1 DEF Linked
      <4> QED
        BY <2>2, <3>1, <3>4, <4>1
    <3> QED
      BY <3>2, <3>3, <3>4
  <2>8. ASSUME NEW S \in SUBSET armed', S # {}
        PROVE  \E x \in S : previous'[x] \notin S
    <3>1. S \in SUBSET armed /\ a \notin S /\ S \subseteq Nodes
      BY <1>1, <1>4
    <3>2. CASE n \in S /\ p \notin S
      BY <2>3, <3>2
    <3>3. CASE n \in S /\ p \in S
      <4>1. S \union {a} \in SUBSET armed
        BY <1>6, <3>1
      <4>2. PICK x \in S \union {a} : previous[x] \notin S \union {a}
        BY <4>1 DEF Linked
      <4>3. x # a /\ x # n
        BY <2>1, <2>4, <3>3, <4>2
      <4> QED
        BY <2>3, <3>1, <4>2, <4>3
    <3>4. CASE n \notin S
      <4>1. PICK x \in S : previous[x] \notin S
        BY <2>8, <3>1 DEF Linked
      <4> QED
        BY <2>3, <3>1, <3>4, <4>1
    <3> QED
      BY <3>2, <3>3, <3>4
  <2>9. ASSUME NEW x \in Stopped
        PROVE  next'[x] = next[x] /\ previous'[x] = previous[x]
    BY <1>1, <1>6, <2>1, <2>2, <2>3 DEF Stopped
  <2>10. Linked'
    <3>1. armed' \subseteq Alarms
      BY <1>3
    <3>2. \A x \in Stopped' : next'[x] \in {NULL, x} /\ previous'[x] = next'[x]
      BY <1>4, <2>2, <2>3, <2>9, ZenonT(60) DEF Linked
    <3> QED
      BY <2>2, <2>3, <2>5, <2>6, <2>7, <2>8, <3>1, <3>2 DEF Linked, Nodes
  <2>11. ASSUME NEW x \in Nodes, next[x] # NULL
         PROVE  next'[x] # NULL
    BY <1>1, <2>1, <2>2, <2>11
  <2>12. ASSUME NEW x \in List \ {a}, NEW c \in armed \ {a}, Ahead(x, c),
                NEW S \in SUBSET List', x \in S, Closed(S)'
         PROVE  c \in S
    <3>1. S \subseteq List /\ a \notin S /\ S \subseteq Nodes
      BY <1>1, <1>4
    <3>2. \A y \in S \ {ListHead} : next'[y] \in S
      BY <2>12 DEF Closed
    <3>3. CASE p \in S \ {ListHead}
      <4>1. S \union {a} \in SUBSET List
        BY <2>1, <3>1
      <4>2. ASSUME NEW y \in (S \union {a}) \ {ListHead}
            PROVE  next[y] \in S \union {a}
        <5>1. n \in S
          BY <2>2, <3>2, <3>3
        <5>2. CASE y = a \/ y = p
          BY <2>1, <2>4, <5>1, <5>2
        <5>3. CASE y # a /\ y # p
          BY <2>2, <3>1, <3>2, <5>3
        <5> QED
          BY <5>2, <5>3
      <4>3. c \in S \union {a}
        BY <2>12, <4>1, <4>2 DEF Ahead, Closed
      <4> QED
        BY <4>3
    <3>4. CASE p \notin S \ {ListHead}
      <4>1. \A y \in S \ {ListHead} : next[y] \in S
        BY <2>2, <3>1, <3>2, <3>4
      <4> QED
        BY <2>12, <3>1, <4>1 DEF Ahead, Closed
    <3> QED
      BY <3>3, <3>4
  <2>13. \A x \in List \ {a}, c \in armed \ {a} : Ahead(x, c) => Ahead(x, c)'
    BY <2>12 DEF Ahead
  <2> QED
    BY <1>4, <2>2, <2>9, <2>10, <2>11, <2>13
<1> QED
  BY <1>5, <1>6

(***************************************************************************)
(* The clock.                                                              *)
(***************************************************************************)
LEMMA ModSmall ==
  ASSUME NEW x \in 0 .. 2 * Word - 1
  PROVE  x % Word = IF x < Word THEN x ELSE x - Word
<1> USE AlarmAssumption
<1>1. CASE x < Word
  BY <1>1
<1>2. CASE x >= Word
  BY <1>2
<1> QED
  BY <1>1, <1>2

(* An alarm whose times a step leaves alone. *)
LEMMA ClockOf ==
  ASSUME NEW a, _alt_nticks' = _alt_nticks,
         time'[a] = time[a], rollover'[a] = rollover[a], due'[a] = due[a]
  PROVE  /\ Clocked(a)' <=> Clocked(a)
         /\ Late(a)' <=> Late(a)
         /\ Counting(a)' <=> Counting(a)
<1>1. Wraps(a)' <=> Wraps(a)
  BY DEF Wraps
<1>2. Clocked(a)' <=> Clocked(a)
  BY <1>1 DEF Clocked
<1>3. Late(a)' <=> Late(a)
  BY DEF Late
<1> QED
  BY <1>2, <1>3 DEF Counting

LEMMA SetTimeClock ==
  ASSUME TypeOK, NEW b \in Alarms, NEW n \in Delays, _alt_nticks' = _alt_nticks,
         time' = [time EXCEPT ![b] = (n + _alt_nticks + 1) % Word],
         rollover' = [rollover EXCEPT ![b] = (n + _alt_nticks + 1) % Word < _alt_nticks],
         due' = [due EXCEPT ![b] = n + 1]
  PROVE  /\ time' \in [Alarms -> 0 .. Word - 1] /\ rollover' \in [Alarms -> BOOLEAN]
         /\ due' \in [Alarms -> 0 .. Word - 1]
         /\ Counting(b)'
         /\ \A a \in Alarms \ {b} : /\ rollover'[a] = rollover[a] /\ due'[a] = due[a]
                                    /\ Clocked(a)' <=> Clocked(a)
                                    /\ Late(a)' <=> Late(a)
                                    /\ Counting(a)' <=> Counting(a)
<1> DEFINE t == (n + _alt_nticks + 1) % Word
<1>1. n \in 0 .. Word - 2 /\ _alt_nticks \in 0 .. Word - 1 /\ Word \in Nat \ {0}
  BY AlarmAssumption DEF TypeOK
<1>2. t = IF n + _alt_nticks + 1 < Word THEN n + _alt_nticks + 1 ELSE n + _alt_nticks + 1 - Word
  <2>1. n + _alt_nticks + 1 \in 0 .. 2 * Word - 1
    BY <1>1
  <2> QED
    BY <1>1, <2>1, ModSmall
<1>3. /\ time' = [time EXCEPT ![b] = t] /\ rollover' = [rollover EXCEPT ![b] = t < _alt_nticks]
      /\ due' = [due EXCEPT ![b] = n + 1]
  OBVIOUS
<1> HIDE DEF t
<1>4. t \in 0 .. Word - 1
  BY <1>1, <1>2
<1>5. /\ time' \in [Alarms -> 0 .. Word - 1] /\ rollover' \in [Alarms -> BOOLEAN]
      /\ due' \in [Alarms -> 0 .. Word - 1]
  BY <1>1, <1>3, <1>4 DEF TypeOK
<1>6. time'[b] = t /\ (rollover'[b] <=> t < _alt_nticks) /\ due'[b] = n + 1
  BY <1>3 DEF TypeOK
<1>7. Counting(b)'
  <2>1. Clocked(b)'
    BY <1>1, <1>2, <1>6 DEF Clocked, Wraps
  <2>2. ~Late(b)'
    BY <1>1, <1>2, <1>6 DEF Late
  <2> QED
    BY <2>1, <2>2 DEF Counting
<1>8. ASSUME NEW a \in Alarms \ {b}
      PROVE  time'[a] = time[a] /\ rollover'[a] = rollover[a] /\ due'[a] = due[a]
  BY <1>3 DEF TypeOK
<1> QED
  BY <1>5, <1>7, <1>8, ClockOf

LEMMA TickClock ==
  ASSUME TypeOK, Quiet, UNCHANGED <<time, rollover>>,
         _alt_nticks' = (_alt_nticks + 1) % Word,
         due' = [a \in Alarms |-> IF a \in armed /\ due[a] > 0 THEN due[a] - 1 ELSE due[a]]
  PROVE  /\ _alt_nticks' \in 0 .. Word - 1 /\ due' \in [Alarms -> 0 .. Word - 1]
         /\ \A a \in armed : Clocked(a)'
<1>1. _alt_nticks \in 0 .. Word - 1 /\ Word \in Nat \ {0} /\ armed \subseteq Alarms
  BY AlarmAssumption DEF TypeOK
<1>2. _alt_nticks' = IF _alt_nticks + 1 < Word THEN _alt_nticks + 1 ELSE 0
  <2>1. _alt_nticks + 1 \in 0 .. 2 * Word - 1
    BY <1>1
  <2>2. (_alt_nticks + 1) % Word =
          IF _alt_nticks + 1 < Word THEN _alt_nticks + 1 ELSE _alt_nticks + 1 - Word
    BY <1>1, <2>1, ModSmall
  <2> QED
    BY <1>1, <2>2
<1>3. _alt_nticks' \in 0 .. Word - 1 /\ due' \in [Alarms -> 0 .. Word - 1]
  BY <1>1, <1>2 DEF TypeOK
<1>4. ASSUME NEW a \in armed
      PROVE  Clocked(a)'
  <2>1. /\ due[a] \in 0 .. Word - 1 /\ time[a] \in 0 .. Word - 1 /\ rollover[a] \in BOOLEAN
        /\ due[a] # 0 /\ Clocked(a) /\ (_alt_nticks = 0 => ~rollover[a])
    BY <1>1 DEF TypeOK, Quiet, Counting, Late
  <2>2. due'[a] = due[a] - 1 /\ time'[a] = time[a] /\ rollover'[a] = rollover[a]
    BY <1>1, <2>1
  <2>3. rollover[a] <=> _alt_nticks + due[a] >= Word
    BY <1>1, <2>1 DEF Clocked, Wraps
  <2> QED
    BY <1>1, <1>2, <2>1, <2>2, <2>3 DEF Clocked, Wraps
<1> QED
  BY <1>3, <1>4

(* The walk finds an alarm due exactly when its ticks are over, and brings *)
(* its flag up to date.                                                    *)
LEMMA VisitClock ==
  ASSUME TypeOK, NEW a \in Alarms, Clocked(a), UNCHANGED <<_alt_nticks, time, due>>,
         rollover' = [rollover EXCEPT ![a] = RolledOver(a)]
  PROVE  /\ Expired(a) <=> due[a] = 0
         /\ Clocked(a)' /\ (Late(a)' <=> due[a] = 0)
         /\ Expired(a) => ~rollover'[a]
<1>1. /\ _alt_nticks \in 0 .. Word - 1 /\ Word \in Nat \ {0}
      /\ due[a] \in 0 .. Word - 1 /\ time[a] \in 0 .. Word - 1 /\ rollover[a] \in BOOLEAN
  BY AlarmAssumption DEF TypeOK
<1>2. rollover'[a] <=> (rollover[a] /\ _alt_nticks # 0)
  BY DEF TypeOK, RolledOver
<1>3. rollover'[a] <=> _alt_nticks + due[a] >= Word
  BY <1>1, <1>2 DEF Clocked, Wraps
<1>4. Expired(a) <=> time[a] <= _alt_nticks /\ ~rollover'[a]
  BY <1>2 DEF Expired, RolledOver
<1>5. time[a] = IF _alt_nticks + due[a] >= Word
                  THEN _alt_nticks + due[a] - Word ELSE _alt_nticks + due[a]
  BY DEF Clocked, Wraps
<1>6. Expired(a) <=> due[a] = 0
  BY <1>1, <1>3, <1>4, <1>5
<1>7. Clocked(a)'
  BY <1>3, <1>5 DEF Clocked, Wraps
<1>8. Late(a)' <=> due[a] = 0
  BY <1>1, <1>2 DEF Late
<1> QED
  BY <1>4, <1>6, <1>7, <1>8

LEMMA PeriodClock ==
  ASSUME TypeOK, NEW a \in Alarms, NEW p \in Periods, p # 0, _alt_nticks' = _alt_nticks,
         time' = [time EXCEPT ![a] = (time[a] + p) % Word],
         rollover' = [rollover EXCEPT ![a] = @ \/ (time[a] + p) % Word < _alt_nticks],
         due' = [due EXCEPT ![a] = p]
  PROVE  /\ time' \in [Alarms -> 0 .. Word - 1] /\ rollover' \in [Alarms -> BOOLEAN]
         /\ due' \in [Alarms -> 0 .. Word - 1]
         /\ Clocked(a) /\ due[a] = 0 /\ ~rollover[a] => Counting(a)'
         /\ \A b \in Alarms \ {a} : /\ Clocked(b)' <=> Clocked(b)
                                    /\ Late(b)' <=> Late(b)
<1> DEFINE t == (time[a] + p) % Word
<1>1. /\ p \in 1 .. Word - 1 /\ _alt_nticks \in 0 .. Word - 1 /\ Word \in Nat \ {0}
      /\ time[a] \in 0 .. Word - 1
  BY AlarmAssumption DEF TypeOK
<1>2. t = IF time[a] + p < Word THEN time[a] + p ELSE time[a] + p - Word
  <2>1. time[a] + p \in 0 .. 2 * Word - 1
    BY <1>1
  <2> QED
    BY <1>1, <2>1, ModSmall
<1>3. /\ time' = [time EXCEPT ![a] = t]
      /\ rollover' = [rollover EXCEPT ![a] = rollover[a] \/ t < _alt_nticks]
      /\ due' = [due EXCEPT ![a] = p]
  OBVIOUS
<1> HIDE DEF t
<1>4. t \in 0 .. Word - 1
  BY <1>1, <1>2
<1>5. /\ time' \in [Alarms -> 0 .. Word - 1] /\ rollover' \in [Alarms -> BOOLEAN]
      /\ due' \in [Alarms -> 0 .. Word - 1]
  BY <1>1, <1>3, <1>4 DEF TypeOK
<1>6. time'[a] = t /\ (rollover'[a] <=> rollover[a] \/ t < _alt_nticks) /\ due'[a] = p
  BY <1>3 DEF TypeOK
<1>7. ASSUME Clocked(a), due[a] = 0, ~rollover[a]
      PROVE  Counting(a)'
  <2>1. time[a] = _alt_nticks
    BY <1>1, <1>7 DEF Clocked, Wraps
  <2>2. Clocked(a)'
    BY <1>1, <1>2, <1>6, <1>7, <2>1 DEF Clocked, Wraps
  <2>3. ~Late(a)'
    BY <1>1, <1>2, <1>6, <1>7, <2>1 DEF Late
  <2> QED
    BY <2>2, <2>3 DEF Counting
<1>8. ASSUME NEW b \in Alarms \ {a}
      PROVE  time'[b] = time[b] /\ rollover'[b] = rollover[b] /\ due'[b] = due[b]
  BY <1>3 DEF TypeOK
<1> QED
  BY <1>5, <1>7, <1>8, ClockOf

(***************************************************************************)
(* Starting and stopping an alarm, by the program and by a callback.       *)
(***************************************************************************)
LEMMA SetTimeMain ==
  ASSUME IInv, mode = "main", SetTime
  PROVE  IInv'
<1> USE DEF IInv
<1>1. /\ MainTimes
      /\ code' = [main |-> Tail(code.main), isr |-> <<>>] /\ code'.main = Tail(code.main)
      /\ UNCHANGED <<mode, pie, saved, ienable, alt_irq, line>>
      /\ UNCHANGED <<_alt_nticks, next, previous, alarm, nextAlarm, armed, cut>>
  BY MainSteps DEF SetTime, MainIn, cpuRest
<1>2. PICK a \in Fresh, n \in Delays : code.main = <<Time(a, n), LinkIn(a), EA>>
  BY <1>1 DEF MainTimes
<1>3. Head(code.main).alarm = a /\ Head(code.main).ticks = n /\ a \in Alarms /\ a \notin armed
  BY <1>2, Fields DEF Fresh
<1>4. /\ time' = [time EXCEPT ![a] = (n + _alt_nticks + 1) % Word]
      /\ rollover' = [rollover EXCEPT ![a] = (n + _alt_nticks + 1) % Word < _alt_nticks]
      /\ due' = [due EXCEPT ![a] = n + 1]
  BY <1>1, <1>3, Zenon DEF SetTime
<1>5. /\ time' \in [Alarms -> 0 .. Word - 1] /\ rollover' \in [Alarms -> BOOLEAN]
      /\ due' \in [Alarms -> 0 .. Word - 1]
      /\ Counting(a)'
      /\ \A b \in Alarms \ {a} : Counting(b)' <=> Counting(b)
  BY <1>1, <1>3, <1>4, SetTimeClock
<1>6. TypeOK'
  BY <1>1, <1>5 DEF TypeOK
<1>7. Linked' /\ Fresh' = Fresh
  BY <1>1, LinkedFrame
<1>8. Quiet'
  BY <1>1, <1>3, <1>5 DEF Quiet, Contexts, Linked
<1>9. code'.main = <<LinkIn(a), EA>>
  BY <1>1, <1>2
<1>10. (code.main # <<>> /\ Head(code.main).op = "link")'
  BY <1>9, Fields
<1>11. MainLinks'
  BY <1>1, <1>5, <1>7, <1>9 DEF MainTimes, MainLinks
<1>12. MainCode'
  BY <1>10, <1>11, MainRows, PTL
<1>13. Contexts'
  BY <1>1, <1>8, MainStays DEF Contexts
<1>14. Tables'
  BY <1>1, <1>2, Fields, ServedOutside DEF Tables, Served
<1> QED
  BY <1>6, <1>7, <1>12, <1>13, <1>14

LEMMA LinkMain ==
  ASSUME IInv, mode = "main", Link
  PROVE  IInv'
<1> USE DEF IInv
<1>1. /\ MainLinks
      /\ code' = [main |-> Tail(code.main), isr |-> <<>>] /\ code'.main = Tail(code.main)
      /\ UNCHANGED <<mode, pie, saved, ienable, alt_irq, line>>
      /\ UNCHANGED <<_alt_nticks, time, rollover, alarm, nextAlarm, due, cut>>
  BY MainSteps DEF Link, MainIn, cpuRest
<1>2. PICK a \in Fresh : code.main = <<LinkIn(a), EA>> /\ Counting(a)
  BY <1>1 DEF MainLinks
<1>3. Head(code.main).alarm = a
  BY <1>2, Fields
<1>4. /\ next' = [next EXCEPT ![a] = next[ListHead], ![ListHead] = a]
      /\ previous' = [previous EXCEPT ![a] = ListHead, ![next[ListHead]] = a]
      /\ armed' = armed \union {a}
  BY <1>1, <1>3, Zenon DEF Link
<1>5. Linked'
  BY <1>4, LinkKeepsList
<1>6. TypeOK'
  BY <1>1, <1>5 DEF TypeOK, Linked, Nodes
<1>7. Quiet'
  BY <1>1, <1>2, <1>4, ClockFrame DEF Quiet, Contexts
<1>8. code'.main = <<EA>>
  BY <1>1, <1>2
<1>9. (code.main # <<>> /\ Head(code.main).op = "enable_all")' /\ MainLeaves'
  <2>1. (code.main # <<>> /\ Head(code.main).op = "enable_all")'
    BY <1>8, Fields
  <2>2. saved'.main = <<TRUE>>
    BY <1>1 DEF MainLinks
  <2> QED
    BY <1>8, <2>1, <2>2, Zenon DEF MainLeaves
<1>10. MainCode'
  BY <1>9, MainRows, PTL
<1>11. Contexts'
  BY <1>1, <1>7, MainStays DEF Contexts
<1>12. Tables'
  BY <1>1, <1>2, Fields, ServedOutside DEF Tables, Served
<1> QED
  BY <1>5, <1>6, <1>10, <1>11, <1>12

LEMMA UnlinkMain ==
  ASSUME IInv, mode = "main", Unlink
  PROVE  IInv'
<1> USE DEF IInv
<1>1. /\ MainUnlinks
      /\ code' = [main |-> Tail(code.main), isr |-> <<>>] /\ code'.main = Tail(code.main)
      /\ UNCHANGED <<mode, pie, saved, ienable, alt_irq, line>>
      /\ UNCHANGED <<_alt_nticks, time, rollover, alarm, nextAlarm>>
  BY MainSteps DEF Unlink, MainIn, cpuRest
<1>2. PICK a \in OnceLinked : code.main = <<TakeOut(a), EA>>
  BY <1>1 DEF MainUnlinks
<1>3. Head(code.main).alarm = a /\ a \in Alarms
  BY <1>2, Fields DEF OnceLinked
<1>4. /\ next' = [next EXCEPT ![previous[a]] = next[a], ![a] = a]
      /\ previous' = [previous EXCEPT ![next[a]] = previous[a], ![a] = a]
      /\ armed' = armed \ {a} /\ due' = [due EXCEPT ![a] = 0]
      /\ cut' = (cut \/ (mode = "isr" /\ a = nextAlarm))
  BY <1>1, <1>3, Zenon DEF Unlink
<1>5. Linked'
  BY <1>4, UnlinkKeepsList
<1>6. ~cut /\ cut' = FALSE
  BY <1>4 DEF Contexts, Quiet, TypeOK
<1>7. TypeOK'
  <2>1. cut' \in BOOLEAN
    BY <1>6, Zenon
  <2>2. due' \in [Alarms -> 0 .. Word - 1]
    <3>1. 0 \in 0 .. Word - 1 /\ due \in [Alarms -> 0 .. Word - 1]
      BY AlarmAssumption DEF TypeOK
    <3>2. due' = [due EXCEPT ![a] = 0]
      BY <1>4
    <3> QED
      BY <3>1, <3>2
  <2> QED
    BY <1>1, <1>4, <1>5, <2>1, <2>2 DEF TypeOK, Linked, Nodes
<1>8. Quiet'
  <2>1. ASSUME NEW b \in armed'
        PROVE  Counting(b)'
    <3>1. b \in armed /\ b \in Alarms /\ b # a
      BY <1>4 DEF TypeOK
    <3>2. due'[b] = due[b]
      BY <1>4, <3>1 DEF TypeOK
    <3> QED
      BY <1>1, <3>1, <3>2, ClockOf DEF Contexts, Quiet
  <2> QED
    BY <1>6, <2>1 DEF Quiet
<1>9. code'.main = <<EA>>
  BY <1>1, <1>2
<1>10. (code.main # <<>> /\ Head(code.main).op = "enable_all")' /\ MainLeaves'
  <2>1. (code.main # <<>> /\ Head(code.main).op = "enable_all")'
    BY <1>9, Fields
  <2>2. saved'.main = <<TRUE>>
    BY <1>1 DEF MainUnlinks
  <2> QED
    BY <1>9, <2>1, <2>2, Zenon DEF MainLeaves
<1>11. MainCode'
  BY <1>10, MainRows, PTL
<1>12. Contexts'
  BY <1>1, <1>8, MainStays DEF Contexts
<1>13. Tables'
  BY <1>1, <1>2, Fields, ServedOutside DEF Tables, Served
<1> QED
  BY <1>5, <1>7, <1>11, <1>12, <1>13

LEMMA SetTimeIsr ==
  ASSUME IInv, mode = "isr", SetTime
  PROVE  IInv'
<1> USE DEF IInv
<1>1. /\ IsrTimes
      /\ code' = [main |-> code.main, isr |-> Tail(code.isr)]
      /\ code'.main = code.main /\ code'.isr = Tail(code.isr)
      /\ UNCHANGED <<mode, pie, saved, ienable, alt_irq, line>>
      /\ UNCHANGED <<_alt_nticks, next, previous, alarm, nextAlarm, armed, cut>>
  BY IsrSteps DEF SetTime, IsrIn, cpuRest
<1>2. PICK b \in Startable, n \in Delays, r \in After :
        code.isr = <<Time(b, n), LinkIn(b), EA, r, Wlk, EA, Dsp>>
  BY <1>1 DEF IsrTimes
<1>3. /\ Head(code.isr).alarm = b /\ Head(code.isr).ticks = n
      /\ b \in Alarms /\ b \notin armed /\ b # alarm
  BY <1>2, Fields DEF Startable, Fresh
<1>4. /\ time' = [time EXCEPT ![b] = (n + _alt_nticks + 1) % Word]
      /\ rollover' = [rollover EXCEPT ![b] = (n + _alt_nticks + 1) % Word < _alt_nticks]
      /\ due' = [due EXCEPT ![b] = n + 1]
  BY <1>1, <1>3, Zenon DEF SetTime
<1>5. /\ time' \in [Alarms -> 0 .. Word - 1] /\ rollover' \in [Alarms -> BOOLEAN]
      /\ due' \in [Alarms -> 0 .. Word - 1]
      /\ Counting(b)'
      /\ \A a \in Alarms \ {b} : /\ rollover'[a] = rollover[a] /\ due'[a] = due[a]
                                 /\ Clocked(a)' <=> Clocked(a)
                                 /\ Late(a)' <=> Late(a)
  BY <1>1, <1>3, <1>4, SetTimeClock
<1>6. TypeOK'
  BY <1>1, <1>5 DEF TypeOK
<1>7. /\ Linked' /\ List' = List /\ Stopped' = Stopped
      /\ Fresh' = Fresh /\ OnceLinked' = OnceLinked
      /\ \A x, a : Ahead(x, a)' <=> Ahead(x, a)
  BY <1>1, LinkedFrame
<1>8. InCallback'
  <2>1. InCallback /\ armed \subseteq Alarms \ {b}
    BY <1>1, <1>3 DEF IsrTimes, TypeOK
  <2>2. Trapped' <=> Trapped
    BY <1>1, <1>7 DEF Trapped
  <2> QED
    BY <1>1, <1>3, <1>5, <1>7, <2>1, <2>2 DEF InCallback
<1>9. b \in Startable'
  BY <1>1, <1>2, <1>7 DEF Startable, Starting
<1>10. code'.isr = <<LinkIn(b), EA, r, Wlk, EA, Dsp>>
  BY <1>1, <1>2
<1>11. (Head(code.isr).op = "link")' /\ code'.isr # <<>>
  BY <1>10, Fields
<1>12. r \in After'
  BY DEF After
<1>13. IsrLinks'
  <2>1. due'[b] # 0
    BY <1>3, <1>4, AlarmAssumption DEF TypeOK
  <2> QED
    BY <1>1, <1>5, <1>8, <1>9, <1>10, <1>12, <2>1 DEF IsrTimes, IsrLinks
<1>14. IsrCode'
  BY <1>11, <1>13, IsrRows, PTL
<1>15. MainCode' /\ Contexts' /\ Tables'
  <2>1. ~pie' /\ saved' = [main |-> saved.main, isr |-> saved'.isr]
    BY <1>1 DEF Contexts
  <2> QED
    BY <1>1, <1>7, <1>11, <1>14, <2>1, IsrDone
<1> QED
  BY <1>6, <1>7, <1>15

LEMMA LinkIsr ==
  ASSUME IInv, mode = "isr", Link
  PROVE  IInv'
<1> USE DEF IInv
<1>1. /\ IsrLinks
      /\ code' = [main |-> code.main, isr |-> Tail(code.isr)]
      /\ code'.main = code.main /\ code'.isr = Tail(code.isr)
      /\ UNCHANGED <<mode, pie, saved, ienable, alt_irq, line>>
      /\ UNCHANGED <<_alt_nticks, time, rollover, alarm, nextAlarm, due, cut>>
  BY IsrSteps DEF Link, IsrIn, cpuRest
<1>2. PICK b \in Startable, r \in After :
        code.isr = <<LinkIn(b), EA, r, Wlk, EA, Dsp>> /\ due[b] # 0 /\ (~cut => Counting(b))
  BY <1>1 DEF IsrLinks
<1>3. /\ Head(code.isr).alarm = b
      /\ b \in Fresh /\ b # alarm /\ ~Starting(b) /\ (cut => b # nextAlarm)
  BY <1>2, Fields DEF Startable
<1>4. /\ next' = [next EXCEPT ![b] = next[ListHead], ![ListHead] = b]
      /\ previous' = [previous EXCEPT ![b] = ListHead, ![next[ListHead]] = b]
      /\ armed' = armed \union {b}
  BY <1>1, <1>3, Zenon DEF Link
<1>5. /\ Linked'
      /\ \A x \in Nodes : next[x] # NULL => next'[x] # NULL
      /\ \A x \in Stopped \ {b} : next'[x] = next[x]
      /\ List' = List \union {b}
      /\ \A x \in List, c \in armed : Ahead(x, c) => Ahead(x, c)'
  BY <1>3, <1>4, LinkKeepsList
<1>6. TypeOK'
  BY <1>1, <1>5 DEF TypeOK, Linked, Nodes
<1>7. InCallback'
  <2>1. InCallback
    BY <1>1 DEF IsrLinks
  <2>2. alarm \in Alarms /\ next'[alarm] # NULL /\ next'[nextAlarm] # NULL
    BY <1>5, <2>1 DEF InCallback, TypeOK
  <2>3. cut => Trapped'
    <3>1. SUFFICES ASSUME cut
                   PROVE  Trapped'
      OBVIOUS
    <3>2. Trapped /\ nextAlarm # b
      BY <1>3, <2>1, <3>1 DEF InCallback
    <3> QED
      BY <1>1, <1>4, <1>5, <3>2 DEF Trapped, Stopped
  <2>4. ~cut => /\ nextAlarm \in List'
                /\ alarm \in armed' => due[alarm] = 0 /\ ~rollover[alarm]
                /\ \A a \in armed' : Clocked(a)'
                /\ \A a \in armed' \ {alarm} : Late(a)' => Ahead(nextAlarm, a)'
    <3>1. SUFFICES ASSUME ~cut
                   PROVE  /\ nextAlarm \in List'
                          /\ alarm \in armed' => due[alarm] = 0 /\ ~rollover[alarm]
                          /\ \A a \in armed' : Clocked(a)'
                          /\ \A a \in armed' \ {alarm} : Late(a)' => Ahead(nextAlarm, a)'
      OBVIOUS
    <3>2. Clocked(b)' /\ ~Late(b)'
      BY <1>1, <1>2, <3>1, ClockFrame DEF Counting
    <3>3. /\ nextAlarm \in List
          /\ alarm \in armed => due[alarm] = 0 /\ ~rollover[alarm]
          /\ \A a \in armed : Clocked(a)
          /\ \A a \in armed \ {alarm} : Late(a) => Ahead(nextAlarm, a)
      BY <2>1, <3>1 DEF InCallback
    <3>4. \A a : (Clocked(a)' <=> Clocked(a)) /\ (Late(a)' <=> Late(a))
      BY <1>1, ClockFrame
    <3>5. ASSUME NEW a \in armed' \ {alarm}, Late(a)'
          PROVE  Ahead(nextAlarm, a)'
      <4>1. a \in armed /\ Late(a)
        BY <1>4, <3>2, <3>4, <3>5
      <4>2. Ahead(nextAlarm, a)
        BY <3>3, <3>5, <4>1
      <4>3. \A x \in List, c \in armed : Ahead(x, c) => Ahead(x, c)'
        BY <1>5
      <4> QED
        BY <1>1, <3>3, <4>1, <4>2, <4>3 DEF Ahead, Closed
    <3> QED
      BY <1>3, <1>4, <1>5, <3>2, <3>3, <3>4, <3>5
  <2>5. alarm \in armed' => due[alarm] = 0
    BY <1>3, <1>4, <2>1 DEF InCallback
  <2> QED
    BY <1>1, <2>2, <2>3, <2>4, <2>5 DEF InCallback
<1>8. OnceLinked \subseteq OnceLinked' /\ \A a \in Fresh : Starting(a) => a \in Fresh'
  BY <1>3, <1>4, <1>5 DEF OnceLinked, Fresh, Nodes
<1>9. code'.isr = <<EA, r, Wlk, EA, Dsp>> /\ r \in After'
  BY <1>1, <1>2 DEF After
<1>10. (Head(code.isr).op = "enable_all")' /\ code'.isr # <<>>
  BY <1>9, Fields
<1>11. IsrLeaves'
  BY <1>1, <1>7, <1>9 DEF IsrLinks, IsrLeaves
<1>12. IsrCode'
  BY <1>10, <1>11, IsrRows, PTL
<1>13. MainCode' /\ Contexts' /\ Tables'
  <2>1. ~pie' /\ saved' = [main |-> saved.main, isr |-> saved'.isr]
    BY <1>1 DEF Contexts
  <2> QED
    BY <1>1, <1>8, <1>10, <1>12, <2>1, IsrDone
<1> QED
  BY <1>5, <1>6, <1>13

LEMMA UnlinkIsr ==
  ASSUME IInv, mode = "isr", Unlink
  PROVE  IInv'
<1> USE DEF IInv
<1>1. /\ IsrUnlinks
      /\ code' = [main |-> code.main, isr |-> Tail(code.isr)]
      /\ code'.main = code.main /\ code'.isr = Tail(code.isr)
      /\ UNCHANGED <<mode, pie, saved, ienable, alt_irq, line>>
      /\ UNCHANGED <<_alt_nticks, time, rollover, alarm, nextAlarm>>
  BY IsrSteps DEF Unlink, IsrIn, cpuRest
<1>2. saved.isr = <<FALSE, FALSE>> /\ InCallback
  BY <1>1, Zenon DEF IsrUnlinks
<1>3. PICK a \in OnceLinked :
        \/ \E r \in After : code.isr = <<TakeOut(a), EA, r, Wlk, EA, Dsp>>
        \/ code.isr = <<TakeOut(a), EA, Adv, Wlk, EA, Dsp>> /\ a = alarm
  <2>1. alarm \in OnceLinked
    BY <1>2 DEF InCallback, OnceLinked
  <2> QED
    BY <1>1, <2>1, Zenon DEF IsrUnlinks
<1>4. Head(code.isr).alarm = a /\ a \in Alarms
  BY <1>3, Fields DEF OnceLinked
<1>5. /\ next' = [next EXCEPT ![previous[a]] = next[a], ![a] = a]
      /\ previous' = [previous EXCEPT ![next[a]] = previous[a], ![a] = a]
      /\ armed' = armed \ {a} /\ due' = [due EXCEPT ![a] = 0]
      /\ cut' = (cut \/ (mode = "isr" /\ a = nextAlarm))
  BY <1>1, <1>4, Zenon DEF Unlink
<1>6. /\ Linked'
      /\ \A x \in Nodes : next[x] # NULL => next'[x] # NULL
      /\ \A x \in Stopped \union {a} : next[x] = x \/ x = a => next'[x] = x
      /\ List' = List \ {a} /\ Stopped' = Stopped \union {a}
      /\ \A x \in List \ {a}, c \in armed \ {a} : Ahead(x, c) => Ahead(x, c)'
  BY <1>5, UnlinkKeepsList
<1>7. cut' \in BOOLEAN /\ (cut' <=> cut \/ a = nextAlarm)
  <2>1. cut' \in BOOLEAN
    BY <1>5, Zenon
  <2>2. cut' <=> cut \/ a = nextAlarm
    BY <1>5
  <2> QED
    BY <2>1, <2>2
<1>8. TypeOK'
  <2>1. 0 \in 0 .. Word - 1 /\ due \in [Alarms -> 0 .. Word - 1]
    BY AlarmAssumption DEF TypeOK
  <2>2. due' \in [Alarms -> 0 .. Word - 1]
    BY <1>5, <2>1
  <2> QED
    BY <1>1, <1>5, <1>6, <1>7, <2>2 DEF TypeOK, Linked, Nodes
<1>9. InCallback'
  <2>1. alarm \in Alarms /\ next'[alarm] # NULL /\ next'[nextAlarm] # NULL
    BY <1>2, <1>6 DEF InCallback, TypeOK
  <2>2. ASSUME cut'
        PROVE  Trapped'
    <3>1. nextAlarm \in Stopped \union {a} /\ (next[nextAlarm] = nextAlarm \/ nextAlarm = a)
      BY <1>2, <1>7, <2>2 DEF InCallback, Trapped
    <3> QED
      BY <1>1, <1>6, <3>1 DEF Trapped
  <2>3. ASSUME ~cut'
        PROVE  /\ nextAlarm \in List'
               /\ alarm \in armed' => due'[alarm] = 0 /\ ~rollover[alarm]
               /\ \A c \in armed' : Clocked(c)'
               /\ \A c \in armed' \ {alarm} : Late(c)' => Ahead(nextAlarm, c)'
    <3>1. /\ nextAlarm \in List \ {a}
          /\ alarm \in armed => due[alarm] = 0 /\ ~rollover[alarm]
          /\ \A c \in armed : Clocked(c)
          /\ \A c \in armed \ {alarm} : Late(c) => Ahead(nextAlarm, c)
      BY <1>2, <1>7, <2>3 DEF InCallback
    <3>2. ASSUME NEW c \in armed'
          PROVE  /\ c \in armed \ {a} /\ due'[c] = due[c]
                 /\ Clocked(c)' <=> Clocked(c)
                 /\ Late(c)' <=> Late(c)
      <4>1. c \in armed \ {a} /\ due'[c] = due[c]
        BY <1>5 DEF TypeOK
      <4> QED
        BY <1>1, <4>1, ClockOf
    <3>3. ASSUME NEW c \in armed' \ {alarm}, Late(c)'
          PROVE  Ahead(nextAlarm, c)'
      <4>1. c \in armed \ {a} /\ c # alarm /\ Late(c)
        BY <3>2, <3>3
      <4>2. Ahead(nextAlarm, c)
        BY <3>1, <4>1
      <4>3. \A x \in List \ {a}, d \in armed \ {a} : Ahead(x, d) => Ahead(x, d)'
        BY <1>6
      <4> QED
        BY <1>1, <3>1, <4>1, <4>2, <4>3 DEF Ahead, Closed
    <3> QED
      BY <1>1, <1>6, <3>1, <3>2, <3>3
  <2>4. alarm \in armed' => due'[alarm] = 0
    BY <1>2, <1>5 DEF InCallback, TypeOK
  <2> QED
    BY <1>1, <2>1, <2>2, <2>3, <2>4 DEF InCallback
<1>10. OnceLinked \subseteq OnceLinked' /\ \A c \in Fresh : Starting(c) => c \in Fresh'
  BY <1>5, <1>6 DEF OnceLinked, Fresh, Nodes
<1>11. IsrCode' /\ code'.isr # <<>>
  <2>1. ASSUME NEW r \in After, code.isr = <<TakeOut(a), EA, r, Wlk, EA, Dsp>>
        PROVE  (Head(code.isr).op = "enable_all")' /\ code'.isr # <<>> /\ IsrLeaves'
    <3>1. code'.isr = <<EA, r, Wlk, EA, Dsp>> /\ r \in After'
      BY <1>1, <2>1 DEF After
    <3>2. (Head(code.isr).op = "enable_all")' /\ code'.isr # <<>>
      BY <3>1, Fields
    <3>3. saved'.isr = <<FALSE, FALSE>>
      BY <1>1, <1>2
    <3> QED
      BY <1>9, <3>1, <3>2, <3>3, Zenon DEF IsrLeaves
  <2>2. ASSUME code.isr = <<TakeOut(a), EA, Adv, Wlk, EA, Dsp>>, a = alarm
        PROVE  (Head(code.isr).op = "enable_all")' /\ code'.isr # <<>> /\ IsrLeaves'
    <3>1. code'.isr = <<EA, Adv, Wlk, EA, Dsp>>
      BY <1>1, <2>2
    <3>2. (Head(code.isr).op = "enable_all")' /\ code'.isr # <<>>
      BY <3>1, Fields
    <3>3. saved'.isr = <<FALSE, FALSE>>
      BY <1>1, <1>2
    <3>4. alarm' \notin armed'
      BY <1>1, <1>5, <2>2
    <3> QED
      BY <1>9, <3>1, <3>2, <3>3, <3>4, Zenon DEF IsrLeaves
  <2>3. (Head(code.isr).op = "enable_all")' /\ code'.isr # <<>> /\ IsrLeaves'
    BY <1>3, <2>1, <2>2
  <2> QED
    BY <2>3, IsrRows, PTL
<1>12. MainCode' /\ Contexts' /\ Tables'
  <2>1. ~pie' /\ saved' = [main |-> saved.main, isr |-> saved'.isr]
    BY <1>1 DEF Contexts
  <2> QED
    BY <1>1, <1>10, <1>11, <2>1, IsrDone
<1> QED
  BY <1>6, <1>8, <1>12

(***************************************************************************)
(* alt_tick.                                                               *)
(***************************************************************************)
(* From the head the links come to every alarm on the list.                *)
LEMMA AllAhead ==
  ASSUME Linked, NEW a \in armed
  PROVE  Ahead(next[ListHead], a)
<1> SUFFICES ASSUME NEW S \in SUBSET List, next[ListHead] \in S, Closed(S), a \notin S
             PROVE  FALSE
  BY DEF Ahead
<1>1. armed \ S \in SUBSET armed /\ armed \ S # {}
  OBVIOUS
<1>2. PICK x \in armed \ S : previous[x] \notin armed \ S
  BY <1>1 DEF Linked
<1>3. previous[x] \in List /\ next[previous[x]] = x /\ x \notin S
  BY <1>2 DEF Linked, List
<1>4. CASE previous[x] = ListHead
  BY <1>3, <1>4
<1>5. CASE previous[x] \in S \ {ListHead}
  BY <1>3, <1>5 DEF Closed
<1> QED
  BY <1>2, <1>3, <1>4, <1>5 DEF List

(* The walk is over when it is back at the head.                           *)
LEMMA NoneAhead ==
  ASSUME Linked, NEW a \in armed
  PROVE  ~Ahead(ListHead, a)
<1>1. ListHead \in List /\ a # ListHead
  BY LinkedNodes
<1>2. {ListHead} \in SUBSET List /\ Closed({ListHead})
  BY <1>1 DEF Closed
<1> QED
  BY <1>1, <1>2 DEF Ahead

(* One step along the links passes one alarm.                              *)
LEMMA AheadNext ==
  ASSUME Linked, NEW x \in armed, NEW a \in armed, a # x, Ahead(x, a)
  PROVE  Ahead(next[x], a)
<1> SUFFICES ASSUME NEW S \in SUBSET List, next[x] \in S, Closed(S)
             PROVE  a \in S
  BY DEF Ahead
<1>1. S \union {x} \in SUBSET List /\ Closed(S \union {x})
  BY DEF Closed, List
<1>2. a \in S \union {x}
  BY <1>1 DEF Ahead
<1> QED
  BY <1>2

LEMMA TickIsr ==
  ASSUME IInv, mode = "isr", Tick
  PROVE  IInv'
<1> USE DEF IInv
<1>1. /\ IsrTicks
      /\ code' = [main |-> code.main, isr |-> Tail(code.isr)]
      /\ code'.main = code.main /\ code'.isr = Tail(code.isr)
      /\ UNCHANGED <<mode, pie, saved, ienable, alt_irq, line>>
      /\ UNCHANGED <<next, previous, time, rollover, nextAlarm, armed, cut>>
      /\ alarm' = next[ListHead]
      /\ _alt_nticks' = (_alt_nticks + 1) % Word
      /\ due' = [a \in Alarms |-> IF a \in armed /\ due[a] > 0 THEN due[a] - 1 ELSE due[a]]
  BY IsrSteps DEF Tick, IsrIn, cpuRest
<1>2. saved.isr = <<FALSE>> /\ code.isr = <<Do("tick"), Wlk, EA, Dsp>> /\ Quiet
  BY <1>1 DEF IsrTicks
<1>3. /\ _alt_nticks' \in 0 .. Word - 1 /\ due' \in [Alarms -> 0 .. Word - 1]
      /\ \A a \in armed : Clocked(a)'
  BY <1>1, <1>2, TickClock
<1>4. /\ Linked' /\ List' = List /\ Fresh' = Fresh /\ OnceLinked' = OnceLinked
      /\ \A x, a : Ahead(x, a)' <=> Ahead(x, a)
  BY <1>1, LinkedFrame
<1>5. ListHead \in List /\ next[ListHead] \in List /\ List \subseteq Nodes /\ NULL \notin Nodes
  BY LinkedNodes DEF Linked
<1>6. TypeOK'
  BY <1>1, <1>3, <1>5 DEF TypeOK
<1>7. InWalk'
  <2>1. ~cut' /\ alarm' \in List' /\ next'[alarm'] # NULL
    BY <1>1, <1>2, <1>4, <1>5 DEF Quiet, Linked
  <2>2. ASSUME NEW a \in armed'
        PROVE  Clocked(a)' /\ Ahead(alarm, a)'
    <3>1. a \in armed /\ Ahead(next[ListHead], a)
      BY <1>1, AllAhead
    <3>2. Ahead(alarm, a)'
      BY <1>1, <1>4, <3>1 DEF Ahead, Closed
    <3> QED
      BY <1>1, <1>3, <3>1, <3>2
  <2> QED
    BY <2>1, <2>2 DEF InWalk
<1>8. code'.isr = <<Wlk, EA, Dsp>> /\ saved'.isr = <<FALSE>>
  BY <1>1, <1>2
<1>9. (Head(code.isr).op = "walk")' /\ code'.isr # <<>>
  BY <1>8, Fields
<1>10. IsrWalks'
  BY <1>7, <1>8 DEF IsrWalks
<1>11. IsrCode'
  BY <1>9, <1>10, IsrRows, PTL
<1>12. MainCode' /\ Contexts' /\ Tables'
  <2>1. ~pie' /\ saved' = [main |-> saved.main, isr |-> saved'.isr]
    BY <1>1 DEF Contexts
  <2> QED
    BY <1>1, <1>4, <1>9, <1>11, <2>1, IsrDone
<1> QED
  BY <1>4, <1>6, <1>12

LEMMA WalkEndsIsr ==
  ASSUME IInv, mode = "isr", WalkEnds
  PROVE  IInv'
<1> USE DEF IInv
<1>1. /\ IsrWalks /\ alarm = ListHead
      /\ code' = [main |-> code.main, isr |-> Tail(code.isr)]
      /\ code'.main = code.main /\ code'.isr = Tail(code.isr)
      /\ UNCHANGED <<mode, pie, saved, ienable, alt_irq, line>>
      /\ UNCHANGED <<_alt_nticks, next, previous, time, rollover, alarm, armed, due>>
      /\ nextAlarm' = ListHead /\ cut' = FALSE
  BY IsrSteps DEF WalkEnds, IsrIn, cpuRest
<1>2. saved.isr = <<FALSE>> /\ code.isr = <<Wlk, EA, Dsp>> /\ InWalk
  BY <1>1 DEF IsrWalks
<1>3. Linked' /\ Fresh' = Fresh /\ OnceLinked' = OnceLinked
  BY <1>1, LinkedFrame
<1>4. ~cut
  BY <1>1, <1>2, LinkedNodes DEF InWalk, Trapped
<1>5. Quiet'
  <2>1. ASSUME NEW a \in armed
        PROVE  Counting(a)
    BY <1>1, <1>2, <1>4, NoneAhead DEF InWalk, Counting
  <2> QED
    BY <1>1, <2>1, ClockFrame DEF Quiet
<1>6. TypeOK'
  <2>1. cut' \in BOOLEAN
    BY <1>1, Zenon
  <2> QED
    BY <1>1, <2>1 DEF TypeOK, Nodes
<1>7. code'.isr = <<EA, Dsp>> /\ saved'.isr = <<FALSE>>
  BY <1>1, <1>2
<1>8. (Head(code.isr).op = "enable_all")' /\ code'.isr # <<>>
  BY <1>7, Fields
<1>9. IsrLeaves'
  BY <1>5, <1>7, Zenon DEF IsrLeaves
<1>10. IsrCode'
  BY <1>8, <1>9, IsrRows, PTL
<1>11. MainCode' /\ Contexts' /\ Tables'
  <2>1. ~pie' /\ saved' = [main |-> saved.main, isr |-> saved'.isr]
    BY <1>1 DEF Contexts
  <2> QED
    BY <1>1, <1>3, <1>8, <1>10, <2>1, IsrDone
<1> QED
  BY <1>3, <1>6, <1>11

(* Every alarm but the visited one is as it was.                           *)
LEMMA OthersStay ==
  ASSUME TypeOK, NEW a \in Alarms, NEW v \in BOOLEAN, UNCHANGED <<_alt_nticks, time, due>>,
         rollover' = [rollover EXCEPT ![a] = v]
  PROVE  /\ rollover' \in [Alarms -> BOOLEAN]
         /\ \A b \in Alarms \ {a} : (Clocked(b)' <=> Clocked(b)) /\ (Late(b)' <=> Late(b))
<1>1. ASSUME NEW b \in Alarms \ {a}
      PROVE  rollover'[b] = rollover[b]
  BY DEF TypeOK
<1>2. rollover' \in [Alarms -> BOOLEAN]
  BY DEF TypeOK
<1> QED
  BY <1>1, <1>2, ClockOf

LEMMA VisitIsr ==
  ASSUME IInv, mode = "isr", Visit
  PROVE  IInv'
<1> USE DEF IInv
<1>1. /\ IsrWalks /\ alarm # ListHead
      /\ UNCHANGED <<mode, pie, saved, ienable, alt_irq, line>>
      /\ UNCHANGED <<_alt_nticks, next, previous, time, armed, due, cut>>
      /\ nextAlarm' = next[alarm]
      /\ rollover' = [rollover EXCEPT ![alarm] = RolledOver(alarm)]
  BY ExecutesIsr DEF Visit, IsrIn, cpuRest
<1>2. saved.isr = <<FALSE>> /\ code.isr = <<Wlk, EA, Dsp>> /\ InWalk
  BY <1>1 DEF IsrWalks
<1>3. /\ Linked' /\ List' = List /\ Stopped' = Stopped
      /\ Fresh' = Fresh /\ OnceLinked' = OnceLinked
  BY <1>1, LinkedFrame
<1>4. /\ List \subseteq Nodes /\ NULL \notin Nodes
      /\ \A x \in List : next[x] \in List
      /\ alarm \in Alarms /\ alarm \in Nodes /\ next[alarm] # NULL
      /\ armed \subseteq Alarms
  BY <1>1, <1>2, LinkedNodes DEF TypeOK, Nodes, InWalk, Linked
<1>5. cut => alarm = nextAlarm /\ alarm \in Stopped /\ next[alarm] = alarm
  BY <1>2 DEF InWalk, Trapped
<1>6. ~cut => /\ alarm \in armed /\ next[alarm] \in List
              /\ \A a \in armed : Clocked(a) /\ (Late(a) => Ahead(alarm, a))
  BY <1>1, <1>2, <1>4 DEF InWalk, List
<1>7. next[alarm] \in Nodes /\ next[next[alarm]] # NULL
  BY <1>4, <1>5, <1>6
<1>8. /\ rollover' \in [Alarms -> BOOLEAN]
      /\ \A b \in Alarms \ {alarm} : (Clocked(b)' <=> Clocked(b)) /\ (Late(b)' <=> Late(b))
  <2>1. RolledOver(alarm) \in BOOLEAN
    BY DEF RolledOver
  <2> QED
    BY <1>1, <1>4, <2>1, OthersStay
<1>9. ASSUME ~cut, NEW a \in Alarms, a = alarm
      PROVE  /\ Expired(a) <=> due[a] = 0
             /\ Clocked(a)' /\ (Late(a)' <=> due[a] = 0)
             /\ Expired(a) => ~rollover'[a]
  <2>1. Clocked(a) /\ rollover' = [rollover EXCEPT ![a] = RolledOver(a)]
    BY <1>1, <1>6, <1>9
  <2> QED
    BY <1>1, <2>1, VisitClock
<1>10. ASSUME ~cut, NEW a \in armed, a # alarm
       PROVE  Clocked(a)' /\ (Late(a)' => Ahead(next[alarm], a))
  BY <1>4, <1>6, <1>8, <1>10, AheadNext
<1>11. CASE Expired(alarm)
  <2>1. UNCHANGED alarm /\ Then(<<Do("callback")>> \o code[mode])
    BY <1>11 DEF Visit
  <2>2. /\ code' = [main |-> code.main, isr |-> <<Do("callback")>> \o <<Wlk, EA, Dsp>>]
        /\ code'.isr = <<Do("callback")>> \o <<Wlk, EA, Dsp>>
    BY <1>2, <2>1, ThenIsr
  <2>3. code'.isr = <<Do("callback"), Wlk, EA, Dsp>>
    BY <2>2, Join1x3, Zenon
  <2>4. InCallback'
    <3>1. alarm' \in Alarms /\ next'[alarm'] # NULL /\ next'[nextAlarm'] # NULL
      BY <1>1, <1>4, <1>7, <2>1
    <3>2. cut' => Trapped'
      BY <1>1, <1>3, <1>5 DEF Trapped
    <3>3. ASSUME ~cut
          PROVE  /\ nextAlarm' \in List'
                 /\ due'[alarm'] = 0 /\ ~rollover'[alarm']
                 /\ \A a \in armed' : Clocked(a)'
      <4>1. PICK v \in Alarms : v = alarm
        BY <1>4
      <4>2. Expired(v)
        BY <1>11, <4>1
      <4>3. due[v] = 0 /\ ~rollover'[v]
        BY <1>9, <3>3, <4>1, <4>2
      <4>4. nextAlarm' \in List'
        BY <1>1, <1>3, <1>6, <3>3
      <4>5. ASSUME NEW a \in armed
            PROVE  Clocked(a)'
        <5>1. CASE a = alarm
          BY <1>4, <1>9, <3>3, <5>1
        <5>2. CASE a # alarm
          BY <1>10, <3>3, <5>2
        <5> QED
          BY <5>1, <5>2
      <4> QED
        BY <1>1, <2>1, <4>1, <4>3, <4>4, <4>5
    <3>4. ASSUME ~cut, NEW a \in armed' \ {alarm'}, Late(a)'
          PROVE  Ahead(nextAlarm, a)'
      <4>1. Ahead(next[alarm], a) /\ a \in armed
        BY <1>1, <1>10, <2>1, <3>4
      <4> QED
        BY <1>1, <1>3, <4>1 DEF Ahead, Closed
    <3>5. alarm' \in armed' => due'[alarm'] = 0
      BY <1>1, <1>5, <2>1, <3>3 DEF Stopped
    <3> QED
      BY <1>1, <3>1, <3>2, <3>3, <3>4, <3>5 DEF InCallback
  <2>5. IF cut' THEN alarm' = nextAlarm' ELSE alarm' \in armed'
    BY <1>1, <1>5, <1>6, <2>1
  <2>6. (Head(code.isr).op = "callback")' /\ code'.isr # <<>>
    BY <2>3, Fields
  <2>7. IsrCalls'
    BY <1>1, <1>2, <2>3, <2>4, <2>5 DEF IsrCalls
  <2>8. IsrCode'
    BY <2>6, <2>7, IsrRows, PTL
  <2>9. MainCode' /\ Contexts' /\ Tables'
    <3>1. ~pie' /\ saved' = [main |-> saved.main, isr |-> saved'.isr]
      BY <1>1 DEF Contexts
    <3> QED
      BY <1>1, <1>3, <2>2, <2>6, <2>8, <3>1, IsrDone
  <2>10. TypeOK'
    BY <1>1, <1>7, <1>8, <2>1 DEF TypeOK
  <2> QED
    BY <1>3, <2>9, <2>10
<1>12. CASE ~Expired(alarm)
  <2>1. alarm' = next[alarm] /\ UNCHANGED code
    BY <1>12 DEF Visit
  <2>2. InWalk'
    <3>1. next'[alarm'] # NULL
      BY <1>1, <1>7, <2>1
    <3>2. cut' => Trapped' /\ alarm' = nextAlarm'
      BY <1>1, <1>3, <1>5, <2>1 DEF Trapped
    <3>3. ~cut => alarm' \in List'
      BY <1>3, <1>6, <2>1
    <3>4. ASSUME ~cut, NEW a \in armed
          PROVE  Clocked(a)' /\ (Late(a)' => Ahead(next[alarm], a))
      <4>1. CASE a = alarm
        <5>1. ~Expired(a)
          BY <1>12, <4>1
        <5> QED
          BY <1>4, <1>9, <3>4, <4>1, <5>1
      <4>2. CASE a # alarm
        BY <1>10, <3>4, <4>2
      <4> QED
        BY <4>1, <4>2
    <3>5. ASSUME ~cut, NEW a \in armed
          PROVE  Ahead(next[alarm], a) => Ahead(alarm, a)'
      BY <1>1, <1>3, <2>1 DEF Ahead, Closed
    <3> QED
      BY <1>1, <3>1, <3>2, <3>3, <3>4, <3>5 DEF InWalk
  <2>3. code'.isr = <<Wlk, EA, Dsp>> /\ saved'.isr = <<FALSE>>
    BY <1>1, <1>2, <2>1
  <2>4. (Head(code.isr).op = "walk")' /\ code'.isr # <<>>
    BY <2>3, Fields
  <2>5. IsrWalks'
    BY <2>2, <2>3 DEF IsrWalks
  <2>6. IsrCode'
    BY <2>4, <2>5, IsrRows, PTL
  <2>7. MainCode' /\ Contexts' /\ Tables'
    <3>1. /\ ~pie' /\ saved' = [main |-> saved.main, isr |-> saved'.isr]
          /\ code' = [main |-> code.main, isr |-> code'.isr]
      BY <1>1, <2>1 DEF Contexts
    <3> QED
      BY <1>1, <1>3, <2>4, <2>6, <3>1, IsrDone
  <2>8. TypeOK'
    BY <1>1, <1>7, <1>8, <2>1 DEF TypeOK
  <2> QED
    BY <1>3, <2>7, <2>8
<1> QED
  BY <1>11, <1>12

LEMMA CallbackIsr ==
  ASSUME IInv, mode = "isr", NEW calls \in CallbackCalls, NEW p \in Periods, Callback(calls, p)
  PROVE  IInv'
<1> USE DEF IInv
<1> DEFINE r == Returned(p)
<1>1. /\ IsrCalls
      /\ Then(calls \o <<r>> \o Rest)
      /\ UNCHANGED <<mode, pie, saved, ienable, alt_irq, line>> /\ UNCHANGED tickVars
  BY ExecutesIsr DEF Callback, IsrIn, cpuRest, Returned
<1>2. r \in After /\ r \in After'
  BY DEF After
<1> HIDE DEF r
<1>3. /\ saved.isr = <<FALSE>> /\ code.isr = <<Do("callback"), Wlk, EA, Dsp>> /\ InCallback
      /\ cut => alarm = nextAlarm
  BY <1>1 DEF IsrCalls
<1>4. Rest = <<Wlk, EA, Dsp>>
  <2>1. \A x : Tail(<<x, Wlk, EA, Dsp>>) = <<Wlk, EA, Dsp>>
    OBVIOUS
  <2> QED
    BY <1>3, <2>1, Zenon DEF Rest
<1>5. /\ code' = [main |-> code.main, isr |-> calls \o <<r>> \o <<Wlk, EA, Dsp>>]
      /\ code'.main = code.main
      /\ code'.isr = calls \o <<r>> \o <<Wlk, EA, Dsp>>
  BY <1>1, <1>4, ThenIsr
<1>6. /\ Linked' /\ Fresh' = Fresh /\ OnceLinked' = OnceLinked
      /\ InCallback' <=> InCallback
  BY <1>1, TickFrame
<1>7. Startable' = Startable
  BY <1>1, <1>5, <1>6 DEF Startable, Starting, tickVars
<1>8. saved'.isr = <<FALSE>>
  BY <1>1, <1>3
<1>9. ASSUME calls = <<>>
      PROVE  IsrCode' /\ code'.isr # <<>>
  <2>1. code'.isr = <<r, Wlk, EA, Dsp>>
    <3>1. <<>> \o <<r>> = <<r>> /\ <<r>> \o <<Wlk, EA, Dsp>> = <<r, Wlk, EA, Dsp>>
      BY Join0x1, Join1x3, Zenon
    <3> QED
      BY <1>5, <1>9, <3>1, Zenon
  <2>2. (Head(code.isr).op = "returned")' /\ code'.isr # <<>>
    BY <1>2, <2>1, Fields
  <2>3. IsrReturns'
    BY <1>2, <1>3, <1>6, <1>8, <2>1 DEF IsrReturns
  <2>4. IsrCode'
    BY <2>2, <2>3, IsrRows, PTL
  <2> QED
    BY <2>2, <2>4
<1>10. ASSUME NEW b \in { c \in Alarms \ (armed \union {alarm}) : ~Starting(c) },
              NEW n \in Delays, calls = Start(b, n)
       PROVE  IsrCode' /\ code'.isr # <<>>
  <2>1. code'.isr = <<DA, Time(b, n), LinkIn(b), EA, r, Wlk, EA, Dsp>>
    <3>1. calls = <<DA, Time(b, n), LinkIn(b), EA>>
      BY <1>10, CallsWritten, Zenon
    <3> DEFINE T == Time(b, n)  L == LinkIn(b)
    <3>2. <<DA, T, L, EA>> \o <<r>> = <<DA, T, L, EA, r>>
      BY Join4x1, Zenon
    <3>3. <<DA, T, L, EA, r>> \o <<Wlk, EA, Dsp>> = <<DA, T, L, EA, r, Wlk, EA, Dsp>>
      <4>1. \A x, y, z : <<DA, T, L, EA, r>> \o <<x, y, z>> = <<DA, T, L, EA, r, x, y, z>>
        BY Join5x3, ZenonT(60)
      <4> QED
        BY <4>1, Zenon
    <3> QED
      BY <1>5, <3>1, <3>2, <3>3, Zenon
  <2>2. (Head(code.isr).op = "disable_all")' /\ code'.isr # <<>>
    BY <2>1, Fields
  <2>3. b \in Startable'
    <3>1. cut => b # nextAlarm
      BY <1>3
    <3>2. b \in Startable
      BY <3>1 DEF Startable, Fresh
    <3> QED
      BY <1>7, <3>2
  <2>4. IsrEnters'
    BY <1>2, <1>3, <1>6, <1>8, <2>1, <2>3, Zenon DEF IsrEnters
  <2>5. IsrCode'
    BY <2>2, <2>4, IsrRows, PTL
  <2> QED
    BY <2>2, <2>5
<1>11. ASSUME NEW b \in { c \in Alarms : next[c] # NULL }, calls = Stop(b)
       PROVE  IsrCode' /\ code'.isr # <<>>
  <2>1. code'.isr = <<DA, TakeOut(b), EA, r, Wlk, EA, Dsp>>
    <3>1. calls = <<DA, TakeOut(b), EA>>
      BY <1>11, CallsWritten, Zenon
    <3> DEFINE T == TakeOut(b)
    <3>2. <<DA, T, EA>> \o <<r>> = <<DA, T, EA, r>>
      BY Join3x1, Zenon
    <3>3. <<DA, T, EA, r>> \o <<Wlk, EA, Dsp>> = <<DA, T, EA, r, Wlk, EA, Dsp>>
      <4>1. \A x, y, z : <<DA, T, EA, r>> \o <<x, y, z>> = <<DA, T, EA, r, x, y, z>>
        BY Join4x3, Zenon
      <4> QED
        BY <4>1, Zenon
    <3> QED
      BY <1>5, <3>1, <3>2, <3>3, Zenon
  <2>2. (Head(code.isr).op = "disable_all")' /\ code'.isr # <<>>
    BY <2>1, Fields
  <2>3. b \in OnceLinked'
    BY <1>6 DEF OnceLinked
  <2>4. IsrEnters'
    BY <1>2, <1>3, <1>6, <1>8, <2>1, <2>3, Zenon DEF IsrEnters
  <2>5. IsrCode'
    BY <2>2, <2>4, IsrRows, PTL
  <2> QED
    BY <2>2, <2>5
<1>12. IsrCode' /\ code'.isr # <<>>
  BY <1>9, <1>10, <1>11 DEF CallbackCalls
<1>13. MainCode' /\ Contexts' /\ Tables'
  <2>1. /\ ~pie' /\ saved' = [main |-> saved.main, isr |-> saved'.isr]
        /\ code' = [main |-> code.main, isr |-> code'.isr]
    BY <1>1, <1>5 DEF Contexts
  <2> QED
    BY <1>1, <1>6, <1>12, <2>1, IsrDone
<1> QED
  BY <1>1, <1>6, <1>13, TypeFrame

LEMMA CallbackReturnedIsr ==
  ASSUME IInv, mode = "isr", CallbackReturned
  PROVE  IInv'
<1> USE DEF IInv
<1>1. /\ IsrReturns
      /\ UNCHANGED <<mode, pie, saved, ienable, alt_irq, line>>
      /\ UNCHANGED <<_alt_nticks, next, previous, nextAlarm, armed, cut>>
  BY ExecutesIsr DEF CallbackReturned, IsrIn, cpuRest
<1>2. PICK p \in Periods : code.isr = <<Returned(p), Wlk, EA, Dsp>>
  BY <1>1 DEF IsrReturns, After
<1>3. saved.isr = <<FALSE>> /\ InCallback /\ alarm \in Alarms
  BY <1>1 DEF IsrReturns, InCallback
<1>4. Head(code.isr).period = p /\ Rest = <<Wlk, EA, Dsp>>
  <2>1. \A x : Tail(<<x, Wlk, EA, Dsp>>) = <<Wlk, EA, Dsp>> /\ Head(<<x, Wlk, EA, Dsp>>) = x
    OBVIOUS
  <2>2. Rest = <<Wlk, EA, Dsp>> /\ Head(code.isr) = Returned(p)
    BY <1>2, <2>1, Zenon DEF Rest
  <2> QED
    BY <2>2 DEF Returned
<1>5. /\ Linked' /\ List' = List /\ Stopped' = Stopped
      /\ Fresh' = Fresh /\ OnceLinked' = OnceLinked
  BY <1>1, LinkedFrame
<1>6. ~pie' /\ saved' = [main |-> saved.main, isr |-> saved'.isr] /\ saved'.isr = <<FALSE>>
  BY <1>1, <1>3 DEF Contexts
<1>7. CASE p = 0
  <2>1. /\ Then(Stop(alarm) \o <<Adv>> \o Rest)
        /\ UNCHANGED <<time, rollover, alarm, due>>
    BY <1>4, <1>7, Zenon DEF CallbackReturned, Adv
  <2>2. /\ code' = [main |-> code.main, isr |-> Stop(alarm) \o <<Adv>> \o Rest]
        /\ code'.isr = Stop(alarm) \o <<Adv>> \o Rest
    BY <2>1, ThenIsr
  <2>3. code'.isr = <<DA, TakeOut(alarm), EA, Adv, Wlk, EA, Dsp>>
    <3> DEFINE T == TakeOut(alarm)
    <3>1. Stop(alarm) = <<DA, T, EA>>
      BY CallsWritten, Zenon
    <3>2. <<DA, T, EA>> \o <<Adv>> = <<DA, T, EA, Adv>>
      BY Join3x1, Zenon
    <3>3. <<DA, T, EA, Adv>> \o <<Wlk, EA, Dsp>> = <<DA, T, EA, Adv, Wlk, EA, Dsp>>
      <4>1. \A x, y, z : <<DA, T, EA, Adv>> \o <<x, y, z>> = <<DA, T, EA, Adv, x, y, z>>
        BY Join4x3, Zenon
      <4> QED
        BY <4>1, Zenon
    <3> QED
      BY <1>4, <2>2, <3>1, <3>2, <3>3, Zenon
  <2>4. UNCHANGED tickVars
    BY <1>1, <2>1 DEF tickVars
  <2>5. InCallback'
    BY <1>3, <2>4, TickFrame
  <2>6. (Head(code.isr).op = "disable_all")' /\ code'.isr # <<>>
    BY <2>3, Fields
  <2>7. IsrEnters'
    <3>1. code'.isr = <<DA, TakeOut(alarm'), EA, Adv, Wlk, EA, Dsp>>
      BY <2>1, <2>3
    <3> QED
      BY <1>6, <2>5, <3>1, Zenon DEF IsrEnters
  <2>8. IsrCode'
    BY <2>6, <2>7, IsrRows, PTL
  <2>9. MainCode' /\ Contexts' /\ Tables'
    BY <1>1, <1>5, <1>6, <2>2, <2>6, <2>8, IsrDone
  <2> QED
    BY <1>1, <1>5, <2>4, <2>9, TypeFrame
<1>8. CASE p # 0
  <2>1. /\ time' = [time EXCEPT ![alarm] = (time[alarm] + p) % Word]
        /\ rollover' = [rollover EXCEPT ![alarm] = @ \/ (time[alarm] + p) % Word < _alt_nticks]
        /\ due' = [due EXCEPT ![alarm] = p]
        /\ alarm' = nextAlarm
        /\ Then(Rest)
    BY <1>4, <1>8, Zenon DEF CallbackReturned
  <2>2. /\ code' = [main |-> code.main, isr |-> <<Wlk, EA, Dsp>>]
        /\ code'.isr = <<Wlk, EA, Dsp>>
    BY <1>4, <2>1, ThenIsr
  <2>3. ASSUME NEW a \in Alarms, a = alarm
        PROVE  /\ time' \in [Alarms -> 0 .. Word - 1] /\ rollover' \in [Alarms -> BOOLEAN]
               /\ due' \in [Alarms -> 0 .. Word - 1]
               /\ Clocked(a) /\ due[a] = 0 /\ ~rollover[a] => Counting(a)'
               /\ \A b \in Alarms \ {a} : /\ Clocked(b)' <=> Clocked(b)
                                          /\ Late(b)' <=> Late(b)
    <3>1. /\ time' = [time EXCEPT ![a] = (time[a] + p) % Word]
          /\ rollover' = [rollover EXCEPT ![a] = @ \/ (time[a] + p) % Word < _alt_nticks]
          /\ due' = [due EXCEPT ![a] = p]
      BY <2>1, <2>3, Zenon
    <3> QED
      BY <1>1, <1>8, <3>1, PeriodClock
  <2>4. InWalk'
    <3>1. next'[alarm'] # NULL
      BY <1>1, <1>3, <2>1 DEF InCallback
    <3>2. cut' => Trapped' /\ alarm' = nextAlarm'
      BY <1>1, <1>3, <1>5, <2>1 DEF InCallback, Trapped
    <3>3. ASSUME ~cut, NEW c \in armed
          PROVE  Clocked(c)' /\ (Late(c)' => Ahead(nextAlarm, c))
      <4>1. c \in Alarms /\ Clocked(c)
        BY <1>3, <3>3 DEF InCallback, TypeOK
      <4>2. CASE c = alarm
        <5>1. due[c] = 0 /\ ~rollover[c]
          BY <1>3, <3>3, <4>2 DEF InCallback
        <5>2. Counting(c)'
          BY <2>3, <4>1, <4>2, <5>1
        <5> QED
          BY <5>2 DEF Counting
      <4>3. CASE c # alarm
        <5>1. Late(c) => Ahead(nextAlarm, c)
          BY <1>3, <3>3, <4>3 DEF InCallback
        <5>2. (Clocked(c)' <=> Clocked(c)) /\ (Late(c)' <=> Late(c))
          BY <1>3, <2>3, <4>1, <4>3
        <5> QED
          BY <4>1, <5>1, <5>2
      <4> QED
        BY <4>2, <4>3
    <3>4. ASSUME ~cut, NEW c \in armed
          PROVE  Ahead(nextAlarm, c) => Ahead(alarm, c)'
      BY <1>1, <1>5, <2>1 DEF Ahead, Closed
    <3>5. ~cut => alarm' \in List'
      BY <1>3, <1>5, <2>1 DEF InCallback
    <3> QED
      BY <1>1, <3>1, <3>2, <3>3, <3>4, <3>5 DEF InWalk
  <2>5. (Head(code.isr).op = "walk")' /\ code'.isr # <<>>
    BY <2>2, Fields
  <2>6. IsrWalks'
    BY <1>6, <2>2, <2>4 DEF IsrWalks
  <2>7. IsrCode'
    BY <2>5, <2>6, IsrRows, PTL
  <2>8. MainCode' /\ Contexts' /\ Tables'
    BY <1>1, <1>5, <1>6, <2>2, <2>5, <2>7, IsrDone
  <2>9. TypeOK'
    <3>1. /\ time' \in [Alarms -> 0 .. Word - 1] /\ rollover' \in [Alarms -> BOOLEAN]
          /\ due' \in [Alarms -> 0 .. Word - 1]
      BY <1>3, <2>3
    <3> QED
      BY <1>1, <2>1, <3>1 DEF TypeOK
  <2> QED
    BY <1>5, <2>8, <2>9
<1> QED
  BY <1>7, <1>8

LEMMA AdvanceIsr ==
  ASSUME IInv, mode = "isr", Advance
  PROVE  IInv'
<1> USE DEF IInv
<1>1. /\ IsrAdvances /\ alarm' = nextAlarm
      /\ code' = [main |-> code.main, isr |-> Tail(code.isr)]
      /\ code'.main = code.main /\ code'.isr = Tail(code.isr)
      /\ UNCHANGED <<mode, pie, saved, ienable, alt_irq, line>>
      /\ UNCHANGED <<_alt_nticks, next, previous, time, rollover, nextAlarm, armed, due, cut>>
  BY IsrSteps DEF Advance, IsrIn, cpuRest
<1>2. /\ saved.isr = <<FALSE>> /\ code.isr = <<Adv, Wlk, EA, Dsp>>
      /\ InCallback /\ alarm \notin armed
  BY <1>1 DEF IsrAdvances
<1>3. /\ Linked' /\ List' = List /\ Stopped' = Stopped
      /\ Fresh' = Fresh /\ OnceLinked' = OnceLinked
  BY <1>1, LinkedFrame
<1>4. InWalk'
  <2>1. next'[alarm'] # NULL /\ (cut' => Trapped' /\ alarm' = nextAlarm')
    BY <1>1, <1>2, <1>3 DEF InCallback, Trapped
  <2>2. ASSUME ~cut, NEW c \in armed
        PROVE  Clocked(c)' /\ (Late(c)' => Ahead(nextAlarm, c))
    BY <1>1, <1>2, <2>2, ClockFrame DEF InCallback
  <2>3. ASSUME ~cut, NEW c \in armed
        PROVE  Ahead(nextAlarm, c) => Ahead(alarm, c)'
    BY <1>1, <1>3 DEF Ahead, Closed
  <2>4. ~cut => alarm' \in List'
    BY <1>1, <1>2, <1>3 DEF InCallback
  <2> QED
    BY <1>1, <2>1, <2>2, <2>3, <2>4 DEF InWalk
<1>5. code'.isr = <<Wlk, EA, Dsp>> /\ saved'.isr = <<FALSE>>
  BY <1>1, <1>2
<1>6. (Head(code.isr).op = "walk")' /\ code'.isr # <<>>
  BY <1>5, Fields
<1>7. IsrWalks'
  BY <1>4, <1>5 DEF IsrWalks
<1>8. IsrCode'
  BY <1>6, <1>7, IsrRows, PTL
<1>9. MainCode' /\ Contexts' /\ Tables'
  <2>1. ~pie' /\ saved' = [main |-> saved.main, isr |-> saved'.isr]
    BY <1>1 DEF Contexts
  <2> QED
    BY <1>1, <1>3, <1>6, <1>8, <2>1, IsrDone
<1>10. TypeOK'
  BY <1>1 DEF TypeOK
<1> QED
  BY <1>3, <1>9, <1>10

(***************************************************************************)
(* The invariant, and what it comes to.                                    *)
(***************************************************************************)
(* Which instructions each context has.                                    *)
LEMMA WhoExecutes ==
  ASSUME IInv, NEW op, Executes(op)
  PROVE  \/ mode = "main" /\ op \in MainOps
         \/ mode = "isr" /\ op \in IsrOps
<1>1. CASE mode = "main"
  BY <1>1, ExecutesMain DEF IInv
<1>2. CASE mode = "isr"
  BY <1>2, ExecutesIsr DEF IInv
<1> QED
  BY <1>1, <1>2 DEF IInv, TypeOK

LEMMA ProcessorHolds ==
  ASSUME IInv, Processor
  PROVE  IInv'
<1>1. CASE (DisableAll \/ EnableAll) /\ UNCHANGED tickVars
  BY <1>1, SectionsHold
<1>2. CASE (WriteHandler \/ WriteContext \/ WriteMask) /\ UNCHANGED tickVars
  <2>1. mode = "main"
    BY <1>2, WhoExecutes DEF WriteHandler, WriteContext, WriteMask, IsrOps
  <2> QED
    BY <1>2, <2>1, WriteHandlerHolds, WriteContextHolds, WriteMaskHolds
<1>3. CASE (Clear \/ Return \/ Dispatch(TimerCode)) /\ UNCHANGED tickVars
  <2>1. mode = "isr"
    BY <1>3, WhoExecutes DEF Clear, Return, Dispatch, MainOps
  <2> QED
    BY <1>3, <2>1, ClearIsr, ReturnIsr, DispatchIsr
<1>4. CASE SetTime \/ Link \/ Unlink
  <2>1. mode \in {"main", "isr"}
    BY DEF IInv, TypeOK
  <2> QED
    BY <1>4, <2>1, SetTimeMain, SetTimeIsr, LinkMain, LinkIsr, UnlinkMain, UnlinkIsr
<1>5. CASE Tick \/ Visit \/ WalkEnds \/ CallbackReturned \/ Advance
  <2>1. mode = "isr"
    BY <1>5, WhoExecutes DEF Tick, Visit, WalkEnds, CallbackReturned, Advance, MainOps
  <2> QED
    BY <1>5, <2>1, TickIsr, VisitIsr, WalkEndsIsr, CallbackReturnedIsr, AdvanceIsr
<1>6. ASSUME NEW calls \in CallbackCalls, NEW p \in Periods, Callback(calls, p)
      PROVE  IInv'
  <2>1. mode = "isr"
    BY <1>6, WhoExecutes DEF Callback, MainOps
  <2> QED
    BY <1>6, <2>1, CallbackIsr
<1> QED
  BY <1>1, <1>2, <1>3, <1>4, <1>5, <1>6 DEF Processor, IrqStep

LEMMA StutterHolds ==
  ASSUME IInv, UNCHANGED vars
  PROVE  IInv'
<1>1. UNCHANGED <<mode, code, pie, saved, ienable, alt_irq, line>> /\ UNCHANGED tickVars
  BY DEF vars, irqVars
<1> QED
  BY <1>1, SameCode, TypeFrame DEF IInv

(* In every state the instructions that are left, in both contexts, are    *)
(* the rest of calls the code makes, with the sections they opened still   *)
(* to be closed; the list and the clock are consistent wherever somebody   *)
(* may look at them.                                                       *)
THEOREM Invariance == Spec => []IInv
<1>1. Init => IInv
  BY InitHolds
<1>2. IInv /\ [Next]_vars => IInv'
  <2> SUFFICES ASSUME IInv, [Next]_vars
               PROVE  IInv'
    OBVIOUS
  <2>1. CASE Next
    <3>1. CASE Interrupt /\ UNCHANGED tickVars
      BY <3>1, InterruptHolds
    <3> QED
      BY <2>1, <3>1, ProgramHolds, ProcessorHolds, RaiseHolds DEF Next
  <2>2. CASE UNCHANGED vars
    BY <2>2, StutterHolds
  <2> QED
    BY <2>1, <2>2
<1> QED
  BY <1>1, <1>2, PTL DEF Spec

(* Every variable of the processor and of alt_tick keeps its type, the     *)
(* counter and the times their width.                                      *)
THEOREM TypeCorrect == Spec => []TypeOK
<1>1. IInv => TypeOK
  BY DEF IInv
<1> QED
  BY <1>1, Invariance, PTL

(* alt_irq_disable_all and alt_irq_enable_all nest: interrupts stay off    *)
(* while any critical section is open and in the whole interrupt routine,  *)
(* and come back when the program is out of the last one.                  *)
THEOREM SectionsAreHeld == Spec => []CriticalSectionsHold
<1>1. IInv => CriticalSectionsHold
  BY DEF IInv, TypeOK, Contexts, MainCode, Idle, CriticalSectionsHold
<1> QED
  BY <1>1, Invariance, PTL

(* alt_ic_isr_register writes handler and context of an interrupt in two   *)
(* steps; the dispatcher alt_irq_handler never sees one without the other. *)
THEOREM HandlersAreWhole == Spec => []HandlerIsWhole
<1>1. IInv => HandlerIsWhole
  <2> SUFFICES ASSUME IInv, Executes("dispatch"), NEW i \in Pending
               PROVE  alt_irq[i].handler # NULL /\ alt_irq[i].context = alt_irq[i].handler
    BY DEF HandlerIsWhole
  <2>1. mode = "isr" /\ saved.main = <<>> /\ MainCode
    BY WhoExecutes DEF MainOps, IInv, Contexts
  <2>2. ~(code.main # <<>> /\ Head(code.main).op = "context")
    BY <2>1 DEF MainCode, MainIn, MainSetsContext
  <2>3. i \in Served
    BY <2>1, ServedOutside DEF IInv, Pending
  <2> QED
    BY <2>2, <2>3 DEF IInv, Tables, Served
<1> QED
  BY <1>1, Invariance, PTL

(* alt_llist: the links lead through exactly the alarms that are started,  *)
(* in both directions, and an alarm that was stopped is linked to itself.  *)
THEOREM ListIsRight == Spec => []ListIsArmed
<1>1. IInv => ListIsArmed
  BY DEF IInv, Linked, List, ListIsArmed
<1> QED
  BY <1>1, Invariance, PTL

(* alt_tick calls an alarm on the tick its time ends, whether or not the   *)
(* counter wrapped in between, and leaves none that is due behind.         *)
THEOREM CallbacksAreOnTime == Spec => []CallbackOnTime
<1>1. IInv => CallbackOnTime
  <2> SUFFICES ASSUME IInv
               PROVE  CallbackOnTime
    OBVIOUS
  <2>1. ASSUME Executes("callback"), ~cut
        PROVE  alarm \in armed /\ due[alarm] = 0
    <3>1. mode = "isr"
      BY <2>1, WhoExecutes DEF MainOps
    <3>2. IsrCalls
      BY <2>1, <3>1, ExecutesIsr DEF IInv, IsrIn
    <3> QED
      BY <2>1, <3>2 DEF IsrCalls, InCallback
  <2>2. ASSUME mode = "main", NEW a \in armed
        PROVE  due[a] > 0
    <3>1. due[a] \in 0 .. Word - 1 /\ due[a] # 0
      BY <2>2 DEF IInv, TypeOK, Contexts, Quiet, Counting, Late
    <3> QED
      BY <3>1, AlarmAssumption
  <2> QED
    BY <2>1, <2>2 DEF CallbackOnTime
<1> QED
  BY <1>1, Invariance, PTL

(***************************************************************************)
(* The clock as its users see it.  Timers sees of a state the alarms that  *)
(* are started and the ticks each has to go.                               *)
(***************************************************************************)
Left == [a \in armed |-> due[a]]

LEMMA LeftStays ==
  ASSUME armed' = armed, \A a \in armed : due'[a] = due[a]
  PROVE  Left' = Left
BY DEF Left

(* An alarm is set when nobody has it on the list yet.                     *)
LEMMA SetTimeStays ==
  ASSUME IInv, SetTime
  PROVE  Left' = Left
<1>1. mode \in {"main", "isr"} /\ due \in [Alarms -> 0 .. Word - 1] /\ armed \subseteq Alarms
  BY DEF IInv, TypeOK
<1>2. PICK b \in Fresh, n \in Delays : Head(code[mode]) = Time(b, n)
  <2>1. CASE mode = "main"
    <3>1. MainTimes
      BY <2>1, ExecutesMain DEF SetTime, MainIn, IInv
    <3> QED
      BY <2>1, <3>1 DEF MainTimes
  <2>2. CASE mode = "isr"
    <3>1. IsrTimes
      BY <2>2, ExecutesIsr DEF SetTime, IsrIn, IInv
    <3> QED
      BY <2>2, <3>1 DEF IsrTimes, Startable
  <2> QED
    BY <1>1, <2>1, <2>2
<1>3. Head(code[mode]).alarm = b
  BY <1>2, Fields
<1>4. due' = [due EXCEPT ![b] = Head(code[mode]).ticks + 1] /\ armed' = armed
  BY <1>3, Zenon DEF SetTime
<1>5. \A a \in armed : due'[a] = due[a]
  BY <1>1, <1>4 DEF Fresh
<1> QED
  BY <1>4, <1>5, LeftStays

(* What is linked in was set for at least one tick, and no tick has passed *)
(* it since.                                                               *)
LEMMA LinkStarts ==
  ASSUME IInv, Link
  PROVE  Service!Start
<1>1. /\ mode \in {"main", "isr"} /\ due \in [Alarms -> 0 .. Word - 1]
      /\ armed \subseteq Alarms /\ Word \in Nat \ {0}
  BY AlarmAssumption DEF IInv, TypeOK
<1>2. PICK b \in Fresh : Head(code[mode]) = LinkIn(b) /\ due[b] # 0
  <2>1. CASE mode = "main"
    <3>1. MainLinks
      BY <2>1, ExecutesMain DEF Link, MainIn, IInv
    <3> QED
      BY <2>1, <3>1 DEF MainLinks, Counting, Late
  <2>2. CASE mode = "isr"
    <3>1. IsrLinks
      BY <2>2, ExecutesIsr DEF Link, IsrIn, IInv
    <3> QED
      BY <2>2, <3>1 DEF IsrLinks, Startable
  <2> QED
    BY <1>1, <2>1, <2>2
<1>3. Head(code[mode]).alarm = b
  BY <1>2, Fields
<1>4. armed' = armed \union {b} /\ due' = due
  BY <1>3, Zenon DEF Link
<1>5. DOMAIN Left = armed /\ b \in Alarms \ armed /\ due[b] \in 1 .. Word - 1
  BY <1>1, <1>2 DEF Left, Fresh
<1>6. Left' = [x \in armed \union {b} |-> IF x = b THEN due[b] ELSE Left[x]]
  BY <1>4, <1>5 DEF Left
<1> QED
  BY <1>5, <1>6 DEF Service!Start, Service!Running, Service!Ticks, Left

(* Stopping an alarm that does not run changes nothing.                    *)
LEMMA UnlinkStops ==
  ASSUME IInv, Unlink
  PROVE  Service!Stop \/ Left' = Left
<1> DEFINE a == Head(code[mode]).alarm
<1>1. armed' = armed \ {a} /\ due' = [due EXCEPT ![a] = 0]
  BY Zenon DEF Unlink
<1> HIDE DEF a
<1>2. due \in [Alarms -> 0 .. Word - 1] /\ armed \subseteq Alarms
  BY DEF IInv, TypeOK
<1>3. \A x \in armed \ {a} : due'[x] = due[x]
  BY <1>1, <1>2
<1>4. CASE a \in armed
  <2>1. Left' = [x \in armed \ {a} |-> Left[x]] /\ DOMAIN Left = armed
    BY <1>1, <1>3 DEF Left
  <2> QED
    BY <1>4, <2>1 DEF Service!Stop, Service!Running, Left
<1>5. CASE a \notin armed
  BY <1>1, <1>3, <1>5, LeftStays
<1> QED
  BY <1>4, <1>5

(* The counter moves only after every call that was owed has been made.    *)
LEMMA TickTicks ==
  ASSUME IInv, Tick
  PROVE  Service!Tick
<1>1. mode = "isr"
  BY WhoExecutes DEF Tick, MainOps
<1>2. Quiet
  BY <1>1, ExecutesIsr DEF Tick, IInv, IsrIn, IsrTicks
<1>3. /\ due' = [a \in Alarms |-> IF a \in armed /\ due[a] > 0 THEN due[a] - 1 ELSE due[a]]
      /\ armed' = armed
  BY DEF Tick
<1>4. /\ due \in [Alarms -> 0 .. Word - 1] /\ armed \subseteq Alarms
      /\ Word \in Nat \ {0}
  BY AlarmAssumption DEF IInv, TypeOK
<1>5. \A a \in armed : due[a] # 0 /\ due'[a] = due[a] - 1
  BY <1>2, <1>3, <1>4 DEF Quiet, Counting, Late
<1>6. Left' = [a \in armed |-> Left[a] - 1] /\ DOMAIN Left = armed /\ \A a \in armed : Left[a] # 0
  BY <1>3, <1>5 DEF Left
<1> QED
  BY <1>6 DEF Service!Tick, Service!Owed, Service!Running, Left

(* A callback that asks to be called again was owed this call, unless it   *)
(* stopped its own alarm.                                                  *)
LEMMA ReturnCalled ==
  ASSUME IInv, CallbackReturned
  PROVE  Service!Called \/ Left' = Left
<1>1. mode = "isr"
  BY WhoExecutes DEF CallbackReturned, MainOps
<1>2. IsrReturns
  BY <1>1, ExecutesIsr DEF CallbackReturned, IInv, IsrIn
<1>3. alarm \in Alarms /\ (alarm \in armed => due[alarm] = 0)
  BY <1>2 DEF IsrReturns, InCallback
<1>4. /\ due \in [Alarms -> 0 .. Word - 1] /\ armed \subseteq Alarms
      /\ Word \in Nat \ {0} /\ Periods \subseteq 0 .. Word - 1
  BY AlarmAssumption DEF IInv, TypeOK
<1>5. PICK p \in Periods : Head(code.isr) = Returned(p)
  BY <1>2 DEF IsrReturns, After
<1>6. Head(code[mode]).period = p
  BY <1>1, <1>5 DEF Returned
<1>7. CASE p = 0
  <2>1. UNCHANGED <<due, armed>>
    BY <1>6, <1>7, Zenon DEF CallbackReturned
  <2> QED
    BY <2>1, LeftStays
<1>8. CASE p # 0
  <2>1. due' = [due EXCEPT ![alarm] = p] /\ armed' = armed
    BY <1>6, <1>8, Zenon DEF CallbackReturned
  <2>2. CASE alarm \in armed
    <3>1. DOMAIN Left = armed /\ Left[alarm] = 0
      BY <1>3, <2>2 DEF Left
    <3>2. p \in 1 .. Word - 1
      BY <1>4, <1>8
    <3>3. \A x \in armed : due'[x] = IF x = alarm THEN p ELSE Left[x]
      BY <1>4, <2>1 DEF Left
    <3>4. Left' = [x \in armed |-> due'[x]]
      BY <2>1 DEF Left
    <3>5. Left' = [Left EXCEPT ![alarm] = p]
      BY <3>1, <3>3, <3>4
    <3> QED
      BY <2>2, <3>1, <3>2, <3>5 DEF Service!Called, Service!Owed, Service!Running, Service!Ticks, Left
  <2>3. CASE alarm \notin armed
    <3>1. \A a \in armed : due'[a] = due[a]
      BY <1>4, <2>1, <2>3
    <3> QED
      BY <2>1, <3>1, LeftStays
  <2> QED
    BY <2>2, <2>3
<1> QED
  BY <1>7, <1>8

(* Every other step of the processor, the program and the devices leaves   *)
(* the promise alone.                                                      *)
LEMMA TimerStep ==
  ASSUME IInv, [Next]_vars
  PROVE  [Service!Next]_Left
<1> USE DEF Service!Next
<1>1. UNCHANGED <<due, armed>> => Left' = Left
  BY LeftStays
<1>2. CASE SetTime \/ Link \/ Unlink \/ Tick \/ CallbackReturned
  BY <1>2, SetTimeStays, LinkStarts, UnlinkStops, TickTicks, ReturnCalled
<1>3. CASE Visit \/ WalkEnds \/ Advance
  BY <1>1, <1>3 DEF Visit, WalkEnds, Advance
<1>4. ASSUME NEW calls \in CallbackCalls, NEW p \in Periods, Callback(calls, p)
      PROVE  Left' = Left
  BY <1>1, <1>4 DEF Callback, tickVars
<1>5. CASE Program
  BY <1>1, <1>5 DEF Program, CallStart, CallStop, tickVars
<1>6. CASE UNCHANGED tickVars
  BY <1>1, <1>6 DEF tickVars
<1>7. UNCHANGED vars => UNCHANGED tickVars
  BY DEF vars
<1> QED
  BY <1>2, <1>3, <1>4, <1>5, <1>6, <1>7 DEF Next, Processor, Devices

(* alt_alarm_start, alt_alarm_stop and alt_tick together implement Timers: *)
(* an alarm is called after as many ticks as it was started with or its    *)
(* last callback returned, no tick overtakes a call that is owed, and an   *)
(* alarm starts again only by a call of its own or of alt_alarm_start.     *)
THEOREM AlarmsKeepTime == Spec => KeepsTime
<1>1. Init => Service!Init
  BY DEF Init, Service!Init
<1>2. IInv /\ [Next]_vars => [Service!Next]_Left
  BY TimerStep
<1>3. KeepsTime <=> Service!Init /\ [][Service!Next]_Left
  BY DEF KeepsTime, Service!Spec, Left
<1> QED
  BY <1>1, <1>2, <1>3, Invariance, PTL DEF Spec

(***************************************************************************)
(* The time of day on the same tick counter.  How far the promise of       *)
(* alt_settod.c holds, for any tick rate and any width of the counter: the *)
(* two conversions of ticks to microseconds decide it, and they agree      *)
(* until the product first leaves alt_u32.                                 *)
(***************************************************************************)
CONSTANTS ALT_US, TickRate, Times
VARIABLES alt_resettime, set

Clock == INSTANCE HalClock

(* What HalClock says of its constants.                                    *)
Configured ==
  /\ Word \in Nat \ {0} /\ TickRate \in Nat \ {0} /\ ALT_US \in Nat \ {0}
  /\ TickRate <= ALT_US
  /\ Times \subseteq [tv_sec : Nat, tv_usec : 0 .. ALT_US - 1]

StoredIsDifference ==
  \A t \in set :
    alt_resettime = [tv_sec |-> t.tv_sec - Clock!Seconds(_alt_nticks),
                     tv_usec |-> t.tv_usec - Clock!Micros32(_alt_nticks)]

ClockInv == _alt_nticks \in Nat /\ set \subseteq Times /\ StoredIsDifference

LEMMA Conversions ==
  ASSUME Configured, NEW n \in Nat
  PROVE  /\ Clock!Seconds(n) \in Nat
         /\ Clock!Micros(n) \in 0 .. ALT_US - 1 /\ Clock!Micros32(n) \in 0 .. ALT_US - 1
         /\ n * (ALT_US \div TickRate) < Word => Clock!Micros32(n) = Clock!Micros(n)
<1> DEFINE step == ALT_US \div TickRate  p == n * step
<1>1. step \in Nat
  BY DEF Configured
<1>2. Clock!Seconds(n) \in Nat
  BY DEF Configured, Clock!Seconds
<1> HIDE DEF step
<1>3. p \in Nat
  BY <1>1
<1>4. Clock!Micros(n) = p % ALT_US /\ Clock!Micros32(n) = (p % Word) % ALT_US
  BY DEF Clock!Micros, Clock!Micros32, step
<1> HIDE DEF p
<1>5. p % Word \in Nat /\ (p < Word => p % Word = p)
  BY <1>3 DEF Configured
<1>6. \A x \in Nat : x % ALT_US \in 0 .. ALT_US - 1
  BY DEF Configured
<1>7. n * (ALT_US \div TickRate) = p
  BY DEF p, step
<1> QED
  BY <1>2, <1>3, <1>4, <1>5, <1>6, <1>7

LEMMA ClockInduction ==
  ASSUME Configured
  PROVE  Clock!Spec => []ClockInv
<1>1. Clock!Init => ClockInv
  BY DEF Clock!Init, ClockInv, StoredIsDifference
<1>2. ClockInv /\ [Clock!Next]_(Clock!vars) => ClockInv'
  BY DEF ClockInv, StoredIsDifference, Clock!Next, Clock!Tick, Clock!ALT_SETTIMEOFDAY, Clock!vars
<1> QED
  BY <1>1, <1>2, PTL DEF Clock!Spec

(* gettimeofday after settimeofday, without a tick in between.             *)
LEMMA ReadBack ==
  ASSUME Configured, ClockInv, NEW t \in set
  PROVE  /\ Clock!Micros32(_alt_nticks) = Clock!Micros(_alt_nticks) => Clock!ALT_GETTIMEOFDAY = t
         /\ Clock!ALT_GETTIMEOFDAY = t => \/ Clock!Micros32(_alt_nticks) = Clock!Micros(_alt_nticks)
                                    \/ t = [tv_sec |-> 0, tv_usec |-> 0]
<1> DEFINE m == Clock!Micros(_alt_nticks)  m32 == Clock!Micros32(_alt_nticks)  s == Clock!Seconds(_alt_nticks)
           raw == [tv_sec |-> t.tv_sec, tv_usec |-> t.tv_usec + m - m32]
<1>1. /\ m \in 0 .. ALT_US - 1 /\ m32 \in 0 .. ALT_US - 1 /\ s \in Nat
      /\ ALT_US \in Nat \ {0} /\ t \in [tv_sec : Nat, tv_usec : 0 .. ALT_US - 1]
  BY Conversions DEF ClockInv, Configured
<1>2. /\ alt_resettime.tv_sec = t.tv_sec - s
      /\ alt_resettime.tv_usec = t.tv_usec - m32
  BY DEF ClockInv, StoredIsDifference
<1>3. Clock!ALT_GETTIMEOFDAY = Clock!Carry(Clock!Borrow([tv_sec |-> alt_resettime.tv_sec + s,
                                       tv_usec |-> alt_resettime.tv_usec + m]))
  BY DEF Clock!ALT_GETTIMEOFDAY
<1> HIDE DEF m, m32, s
<1>4. /\ alt_resettime.tv_sec + s = t.tv_sec
      /\ alt_resettime.tv_usec + m = t.tv_usec + m - m32
  BY <1>1, <1>2
<1>5. Clock!ALT_GETTIMEOFDAY = Clock!Carry(Clock!Borrow(raw))
  BY <1>3, <1>4
<1>6. t = [tv_sec |-> t.tv_sec, tv_usec |-> t.tv_usec]
  BY <1>1
<1>7. ASSUME m32 = m
      PROVE  Clock!Carry(Clock!Borrow(raw)) = t
  BY <1>1, <1>6, <1>7 DEF Clock!Carry, Clock!Borrow
<1>8. ASSUME m32 # m, Clock!Carry(Clock!Borrow(raw)) = t
      PROVE  t = [tv_sec |-> 0, tv_usec |-> 0]
  <2>1. CASE raw.tv_usec >= 0
    <3>1. Clock!Borrow(raw) = raw
      BY <2>1 DEF Clock!Borrow
    <3>2. Clock!Carry(raw).tv_sec = t.tv_sec /\ Clock!Carry(raw).tv_usec = t.tv_usec
      BY <1>8, <3>1
    <3> QED
      BY <1>1, <1>8, <3>2 DEF Clock!Carry
  <2>2. CASE raw.tv_usec < 0 /\ t.tv_sec > 0
    <3>1. Clock!Carry(Clock!Borrow(raw)).tv_sec = t.tv_sec - 1
      BY <1>1, <2>2 DEF Clock!Carry, Clock!Borrow
    <3> QED
      BY <1>1, <1>8, <3>1
  <2>3. CASE raw.tv_usec < 0 /\ t.tv_sec = 0
    BY <1>1, <1>8, <2>3 DEF Clock!Carry, Clock!Borrow
  <2> QED
    BY <1>1, <2>1, <2>2, <2>3
<1> QED
  BY <1>5, <1>7, <1>8 DEF m, m32

(* alt_settod.c promises that gettimeofday at once returns what            *)
(* settimeofday was given.  It does as long as the ticks counted so far,   *)
(* in microseconds, fit alt_u32.                                           *)
THEOREM SetIsReadBeforeWrap ==
  ASSUME Configured
  PROVE  Clock!Spec => [](_alt_nticks * (ALT_US \div TickRate) < Word => Clock!SetIsRead)
<1>1. ClockInv => (_alt_nticks * (ALT_US \div TickRate) < Word => Clock!SetIsRead)
  BY Conversions, ReadBack DEF ClockInv, Clock!SetIsRead
<1> QED
  BY <1>1, ClockInduction, PTL

(* Past that the promise is kept exactly when the 32-bit product of        *)
(* ALT_SETTIMEOFDAY and the 64-bit one of ALT_GETTIMEOFDAY leave the same  *)
(* microseconds; only time zero, which Borrow stops at, is read anyway.    *)
THEOREM ProductDecides ==
  ASSUME Configured
  PROVE  Clock!Spec => [](\A t \in set :
                      \/ t = [tv_sec |-> 0, tv_usec |-> 0]
                      \/ Clock!ALT_GETTIMEOFDAY = t
                           <=> Clock!Micros32(_alt_nticks) = Clock!Micros(_alt_nticks))
<1>1. ClockInv => \A t \in set :
                \/ t = [tv_sec |-> 0, tv_usec |-> 0]
                \/ Clock!ALT_GETTIMEOFDAY = t <=> Clock!Micros32(_alt_nticks) = Clock!Micros(_alt_nticks)
  BY ReadBack
<1> QED
  BY <1>1, ClockInduction, PTL
=============================================================================
