---------------------------- MODULE AvrHwProofs ----------------------------
(***************************************************************************)
(* The hardware events of the AVR core for every width of its counters and *)
(* every set of times, comparator values and masks: no interrupt is left   *)
(* unnoticed and no deadline is passed, however the register writes of the *)
(* program fall among the cycles. The proof follows the code: what a cycle *)
(* does, then what a register write does, then the instructions made of    *)
(* them.                                                                   *)
(***************************************************************************)
EXTENDS AvrSchedule, ModularArith

\* Between the calls of an instruction an interrupt may wait to be entered.
Core ==
  [i : BOOLEAN, it : BOOLEAN, enter : BOOLEAN, next : Cycles,
   flags : SUBSET Source, mask : SUBSET (TimerSource \union {"SPI"}),
   timer : {"off", "normal", "ctc"}, t : 0 .. TimerMod - 1,
   a : 0 .. TimerMod - 1, b : 0 .. TimerMod - 1,
   wde : BOOLEAN, wdie : BOOLEAN, wdl : Cycles, wdto : WdTime \union {WdTime0},
   spe : BOOLEAN, tran : BOOLEAN, spil : Cycles,
   wrte : BOOLEAN, empe : BOOLEAN, eepe : BOOLEAN, eepl : Cycles,
   prge : BOOLEAN, spmen : BOOLEAN, mode : SpmMode \union {"load"}, spml : Cycles]
-----------------------------------------------------------------------------
(* Numbers.                                                                *)

\* The constants and the ranges, as numbers.
LEMMA Numbers ==
  /\ TimerMod \in Nat /\ TimerMod >= 2 /\ ClockMod \in Nat /\ TimerMod < ClockMod
  /\ 0 \in Cycles /\ 1 \in Cycles /\ Never \in Cycles /\ TimerMod \in Cycles
  /\ Window \in Cycles /\ Window >= 1 /\ SpmTime \in Cycles /\ SpmTime >= 1
  /\ WdTime \subseteq Cycles \ {0} /\ WdTime0 \in Cycles \ {0}
  /\ SpiTime \subseteq Cycles \ {0} /\ EepTime \subseteq Cycles \ {0}
  /\ 0 \in 0 .. TimerMod - 1
  /\ CompareA \subseteq 0 .. TimerMod - 1 /\ Compare \subseteq 0 .. TimerMod - 1
  /\ Masks \subseteq SUBSET TimerSource
BY AvrHwAssumption DEF AvrHwAssumption, Cycles, Never, TimerSource

\* The interrupt sources.
LEMMA SourceIs == Source = {"SPI", "WDT", "T1A", "T1B", "T1OVF", "USART"}
<1>1. Len(Priority) = 6
  BY DEF Priority
<1>2. /\ Priority[1] = "SPI" /\ Priority[2] = "WDT" /\ Priority[3] = "T1A"
      /\ Priority[4] = "T1B" /\ Priority[5] = "T1OVF" /\ Priority[6] = "USART"
  BY DEF Priority
<1>3. 1 .. 6 = {1, 2, 3, 4, 5, 6}
  OBVIOUS
<1> HIDE DEF Priority
<1> QED BY <1>1, <1>2, <1>3 DEF Source

\* One cycle less, modulo the wrap.
LEMMA DownIs ==
  ASSUME NEW x \in Cycles
  PROVE  (x - 1) % ClockMod \in Cycles /\ (x # 0 => (x - 1) % ClockMod = x - 1)
<1>1. x - 1 \in Int /\ ClockMod \in Nat \ {0}
  BY Numbers DEF Cycles
<1>2. (x - 1) % ClockMod \in 0 .. ClockMod - 1
  BY <1>1, DivMod
<1>3. x # 0 => x - 1 \in 0 .. ClockMod - 1
  BY <1>1 DEF Cycles
<1> QED BY <1>1, <1>2, <1>3, ModSmall DEF Cycles

\* One count more, modulo the wrap.
LEMMA UpIs ==
  ASSUME NEW x \in 0 .. TimerMod - 1
  PROVE  /\ (x + 1) % TimerMod \in 0 .. TimerMod - 1
         /\ (x + 1) % TimerMod = IF x = TimerMod - 1 THEN 0 ELSE x + 1
<1>1. x + 1 \in Int /\ TimerMod \in Nat \ {0} /\ x \in Int
  BY Numbers
<1>2. (x + 1) % TimerMod \in 0 .. TimerMod - 1
  BY <1>1, DivMod
<1>3. x % TimerMod = x
  BY <1>1, ModSmall
<1> QED BY <1>1, <1>2, <1>3, SuccMod
-----------------------------------------------------------------------------
(* Types.                                                                  *)

\* Types: raising a flag.
LEMMA RaiseType ==
  ASSUME NEW c \in Core, NEW s \in SUBSET Source
  PROVE  Raise(c, s) \in Core
  BY DEF Raise, Core

\* Types: a flag written.
LEMMA FlagType ==
  ASSUME NEW c \in Core, NEW s \in Source, NEW on \in BOOLEAN
  PROVE  Flag(c, s, on) \in Core
  BY DEF Flag, Core

\* Types: a value kept in the range.
LEMMA ClampType ==
  ASSUME NEW c \in Core, NEW left \in Cycles
  PROVE  Clamp(c, left) \in Core
  BY DEF Clamp, Core

\* Types: asking for the next event.
LEMMA RequestType ==
  ASSUME NEW c \in Core
  PROVE  Request(c) \in Core
  BY Numbers DEF Request, Core

\* Types: the timer.
LEMMA TimerExecType ==
  ASSUME NEW c \in Core
  PROVE  TimerExec(c) \in Core
<1>1. c.timer \in {"off", "normal", "ctc"}
  BY DEF Core
<1>2. CASE c.timer = "off"
  BY <1>2 DEF TimerExec
<1>3. CASE c.timer = "normal"
  BY <1>3, SourceIs, RaiseType DEF TimerExec
<1>4. CASE c.timer = "ctc"
  <2> DEFINE s == (IF c.t = 0 THEN {"T1OVF"} ELSE {})
                  \union (IF c.t = MatchA(c) THEN {"T1A"} ELSE {})
                  \union (IF c.t = MatchB(c) THEN {"T1B"} ELSE {})
             d == Raise(c, s)
  <2>1. s \in SUBSET Source
    BY SourceIs
  <2> HIDE DEF s
  <2>2. d \in Core
    BY <2>1, RaiseType
  <2>3. TimerExec(c) = [d EXCEPT !.t = IF c.t = MatchA(c) THEN 0 ELSE @]
    BY <1>4 DEF TimerExec, s
  <2> HIDE DEF d
  <2> QED BY <2>2, <2>3, Numbers DEF Core
<1> QED BY <1>1, <1>2, <1>3, <1>4

\* Types: a watchdog reset.
LEMMA ResetWdType ==
  ASSUME NEW c \in Core
  PROVE  ResetWd(c) \in Core
<1> DEFINE d1 == [c EXCEPT !.i = FALSE, !.it = TRUE, !.flags = {}, !.mask = {}]
           d2 == [d1 EXCEPT !.timer = "off", !.t = 0, !.a = 0, !.b = 0]
           d3 == [d2 EXCEPT !.wde = FALSE, !.wdie = FALSE, !.wdto = WdTime0, !.wdl = WdTime0]
           d4 == [d3 EXCEPT !.spe = FALSE, !.tran = FALSE, !.wrte = FALSE, !.empe = FALSE]
           d5 == [d4 EXCEPT !.eepe = FALSE, !.prge = FALSE, !.spmen = FALSE]
<1>1. ResetWd(c) = Request(d5)
  BY DEF ResetWd
<1>2. d1 \in Core
  BY DEF Core
<1> HIDE DEF d1
<1>3. d2 \in Core
  BY <1>2, Numbers DEF Core
<1> HIDE DEF d2
<1>4. d3 \in Core
  BY ZenonT(60), <1>3, Numbers DEF Core
<1> HIDE DEF d3
<1>5. d4 \in Core
  BY ZenonT(60), <1>4 DEF Core
<1> HIDE DEF d4
<1>6. d5 \in Core
  BY ZenonT(60), <1>5 DEF Core
<1> QED BY <1>1, <1>6, RequestType

\* Types: the watchdog.
LEMMA WdExecType ==
  ASSUME NEW c \in Core
  PROVE  WdExec(c) \in Core
<1> DEFINE d == [Raise(c, {"WDT"}) EXCEPT !.wdl = c.wdto]
<1>1. Raise(c, {"WDT"}) \in Core
  BY SourceIs, RaiseType
<1>2. c.wdto \in Cycles
  BY Numbers DEF Core
<1>3. d \in Core
  BY <1>1, <1>2 DEF Core
<1> HIDE DEF d
<1>4. ResetWd(d) \in Core
  BY <1>3, ResetWdType
<1> QED BY <1>3, <1>4 DEF WdExec, d

\* Types: SPI, EEPROM and flash.
LEMMA DeviceExecType ==
  ASSUME NEW c \in Core
  PROVE  SpiExec(c) \in Core /\ EepExec(c) \in Core /\ SpmExec(c) \in Core
<1>1. Raise(c, {"SPI"}) \in Core
  BY SourceIs, RaiseType
<1>2. SpiExec(c) \in Core
  <2> DEFINE d == Raise(c, {"SPI"})
  <2> HIDE DEF d
  <2>1. [d EXCEPT !.tran = FALSE] \in Core
    BY <1>1 DEF Core, d
  <2> QED BY <2>1 DEF SpiExec, d
<1>3. c.eepl \in Cycles /\ c.wrte \in BOOLEAN /\ c.spml \in Cycles /\ c.prge \in BOOLEAN
  BY DEF Core
<1>4. EepExec(c) \in Core
  BY ZenonT(60), <1>3 DEF EepExec, Core
<1>5. SpmExec(c) \in Core
  BY <1>3 DEF SpmExec, Core
<1> QED BY <1>2, <1>4, <1>5

\* A comparison is never now, and for a value ahead it is the difference.
LEMMA AheadIs ==
  ASSUME NEW m \in 0 .. TimerMod - 1, NEW x \in 0 .. TimerMod - 1
  PROVE  Ahead(m, x) \in Cycles /\ Ahead(m, x) # 0 /\ (m > x => Ahead(m, x) = m - x)
  BY Numbers DEF Ahead, Never, Cycles

\* Below the maximum of comparator A the next timer event is ahead, and none is
\* passed over.
LEMMA TimerNextIs ==
  ASSUME NEW c \in Core
  PROVE  /\ TimerNext(c) \in Cycles
         /\ (c.timer = "ctc" /\ MatchA(c) = c.t) \/ TimerNext(c) # 0
         /\ c.timer # "off" => TimerNext(c) <= TimerMod - c.t
         /\ c.timer = "ctc" /\ c.t < MatchA(c) => TimerNext(c) <= MatchA(c) - c.t
         /\ c.timer = "ctc" /\ c.t < MatchB(c) => TimerNext(c) <= MatchB(c) - c.t
<1>1. /\ c.t \in 0 .. TimerMod - 1 /\ MatchA(c) \in 0 .. TimerMod - 1
      /\ MatchB(c) \in 0 .. TimerMod - 1 /\ c.timer \in {"off", "normal", "ctc"}
  <2>1. c.t \in 0 .. TimerMod - 1 /\ c.a \in 0 .. TimerMod - 1 /\ c.b \in 0 .. TimerMod - 1
        /\ c.timer \in {"off", "normal", "ctc"}
    BY DEF Core
  <2> QED BY <2>1, UpIs DEF MatchA, MatchB
<1>2. TimerMod - c.t \in Cycles /\ TimerMod - c.t # 0
  BY <1>1, Numbers DEF Cycles
<1>3. CASE c.timer = "off"
  BY <1>3, Numbers DEF TimerNext, Never, Cycles
<1>4. CASE c.timer = "normal"
  BY <1>1, <1>2, <1>4, Numbers DEF TimerNext, Cycles
<1>5. CASE c.timer = "ctc"
  <2> DEFINE x == IF MatchA(c) = c.t THEN 0 ELSE Ahead(MatchA(c), c.t)
             y == Ahead(MatchB(c), c.t)
             z == TimerMod - c.t
             S == {x, y, z}
  <2>1. TimerNext(c) = Min(S)
    BY <1>5 DEF TimerNext
  <2>2. /\ x \in Cycles /\ (MatchA(c) # c.t => x # 0)
        /\ (MatchA(c) > c.t => x = MatchA(c) - c.t)
    BY <1>1, AheadIs, Numbers
  <2>3. y \in Cycles /\ y # 0 /\ (MatchB(c) > c.t => y = MatchB(c) - c.t)
    BY <1>1, AheadIs
  <2> HIDE DEF x, y
  <2>4. S \subseteq Nat /\ S # {}
    BY <1>2, <2>2, <2>3 DEF Cycles
  <2>5. Min(S) \in S /\ \A v \in S : Min(S) <= v
    BY <2>4, MinIs
  <2>6. Min(S) \in Cycles /\ Min(S) <= x /\ Min(S) <= y /\ Min(S) <= z
        /\ (MatchA(c) # c.t => Min(S) # 0)
    BY <1>2, <2>2, <2>3, <2>5
  <2> QED BY <1>1, <1>5, <2>1, <2>2, <2>3, <2>6 DEF Cycles
<1> QED BY <1>1, <1>3, <1>4, <1>5

\* The peripherals processed before the next event is looked for, and what it is
\* looked for among.
Processed(c) == SpmExec(EepExec(SpiExec(WdExec(TimerExec(c)))))
When(cond, left) == IF cond /\ left # 0 THEN left ELSE Never
Events(c) ==
  LET d == TimerExec(c)
      f == Processed(c)
  IN {Never, TimerNext(d), When(WdRuns(d), WdExec(d).wdl), When(f.tran, f.spil),
      When(f.wrte \/ f.empe, f.eepl), When(f.prge \/ f.spmen, f.spml)}

\* Processing is that of the peripherals, then the least of their distances.
LEMMA HwExecIs ==
  ASSUME NEW c
  PROVE  HwExec(c) = [Processed(c) EXCEPT !.next = IF Eager THEN 0 ELSE Min(Events(c))]
  BY DEF HwExec, Processed, Events, When

\* All peripherals keep types.
LEMMA ProcessedType ==
  ASSUME NEW c \in Core
  PROVE  Processed(c) \in Core
<1>1. TimerExec(c) \in Core
  BY TimerExecType
<1>2. WdExec(TimerExec(c)) \in Core
  BY <1>1, WdExecType
<1>3. SpiExec(WdExec(TimerExec(c))) \in Core
  BY <1>2, DeviceExecType
<1>4. EepExec(SpiExec(WdExec(TimerExec(c)))) \in Core
  BY <1>3, DeviceExecType
<1> QED BY <1>4, DeviceExecType DEF Processed

\* The next event is no later than any deadline that is running.
LEMMA NextIs ==
  ASSUME NEW c \in Core
  PROVE  LET d == TimerExec(c)
             f == Processed(c)
             n == Min(Events(c))
         IN /\ n \in Cycles /\ (TimerNext(d) # 0 => n # 0) /\ n <= TimerNext(d)
            /\ n <= When(WdRuns(d), WdExec(d).wdl)
            /\ n <= When(f.tran, f.spil) /\ n <= When(f.wrte \/ f.empe, f.eepl)
            /\ n <= When(f.prge \/ f.spmen, f.spml)
<1> DEFINE d == TimerExec(c)
           e == WdExec(d)
           f == Processed(c)
           n == Min(Events(c))
<1>1. d \in Core /\ f \in Core /\ e \in Core
  BY TimerExecType, ProcessedType, WdExecType
<1>2. TimerNext(d) \in Cycles
  BY <1>1, TimerNextIs
<1>3. \A x \in Cycles, y \in BOOLEAN : When(y, x) \in Cycles \ {0}
  BY Numbers DEF When, Never, Cycles
<1> HIDE DEF d, e, f
<1>4. /\ WdRuns(d) \in BOOLEAN /\ e.wdl \in Cycles /\ f.tran \in BOOLEAN /\ f.spil \in Cycles
      /\ (f.wrte \/ f.empe) \in BOOLEAN /\ f.eepl \in Cycles
      /\ (f.prge \/ f.spmen) \in BOOLEAN /\ f.spml \in Cycles
  BY <1>1 DEF Core, WdRuns
<1> DEFINE v == When(WdRuns(d), e.wdl)
           w == When(f.tran, f.spil)
           x == When(f.wrte \/ f.empe, f.eepl)
           y == When(f.prge \/ f.spmen, f.spml)
           S == {Never, TimerNext(d), v, w, x, y}
<1>5. v \in Cycles \ {0} /\ w \in Cycles \ {0} /\ x \in Cycles \ {0} /\ y \in Cycles \ {0}
  BY <1>3, <1>4
<1>6. Never \in Cycles \ {0}
  BY Numbers DEF Never, Cycles
<1>7. Events(c) = S
  BY DEF Events, d, e, f
<1> HIDE DEF v, w, x, y
<1>8. S \subseteq Cycles /\ S # {} /\ Cycles \subseteq Nat
  BY <1>2, <1>5, <1>6 DEF Cycles
<1>9. Min(S) \in S /\ \A u \in S : Min(S) <= u
  BY <1>8, MinIs
<1>10. Min(S) \in Cycles /\ (TimerNext(d) # 0 => Min(S) # 0)
  BY <1>5, <1>6, <1>8, <1>9
<1>11. /\ Min(S) <= TimerNext(d) /\ Min(S) <= v /\ Min(S) <= w /\ Min(S) <= x /\ Min(S) <= y
  BY <1>9
<1> QED BY <1>7, <1>10, <1>11 DEF d, e, f, v, w, x, y

\* With the next event.
LEMMA HwExecType ==
  ASSUME NEW c \in Core
  PROVE  HwExec(c) \in Core
<1> DEFINE f == Processed(c)
           n == IF Eager THEN 0 ELSE Min(Events(c))
<1>1. f \in Core
  BY ProcessedType
<1>2. n \in Cycles
  BY NextIs, Numbers
<1>3. HwExec(c) = [f EXCEPT !.next = n]
  BY HwExecIs
<1> HIDE DEF f, n
<1> QED BY <1>1, <1>2, <1>3 DEF Core

\* The counters of a cycle.
Counted(c) ==
  [c EXCEPT !.next = IF Eager THEN 0 ELSE (c.next - 1) % ClockMod,
            !.t = (c.t + 1) % TimerMod, !.wdl = (c.wdl - 1) % ClockMod,
            !.spil = (c.spil - 1) % ClockMod, !.eepl = (c.eepl - 1) % ClockMod,
            !.spml = (c.spml - 1) % ClockMod]

\* A cycle counts down, and processes when the count is over.
LEMMA TickIs ==
  ASSUME NEW c \in Core
  PROVE  /\ Counted(c) \in Core
         /\ Tick(c) = IF Counted(c).next = 0 THEN HwExec(Counted(c)) ELSE Counted(c)
<1>1. /\ c.next \in Cycles /\ c.t \in 0 .. TimerMod - 1 /\ c.wdl \in Cycles
      /\ c.spil \in Cycles /\ c.eepl \in Cycles /\ c.spml \in Cycles
  BY DEF Core
<1> DEFINE n == IF Eager THEN 0 ELSE (c.next - 1) % ClockMod
           t == (c.t + 1) % TimerMod
           u == (c.wdl - 1) % ClockMod
           v == (c.spil - 1) % ClockMod
           x == (c.eepl - 1) % ClockMod
           y == (c.spml - 1) % ClockMod
<1>2. /\ n \in Cycles /\ t \in 0 .. TimerMod - 1 /\ u \in Cycles /\ v \in Cycles
      /\ x \in Cycles /\ y \in Cycles
  BY <1>1, DownIs, UpIs, Numbers
<1>3. Counted(c) = [c EXCEPT !.next = n, !.t = t, !.wdl = u, !.spil = v, !.eepl = x, !.spml = y]
  BY DEF Counted
<1>4. Tick(c) = IF Counted(c).next = 0 THEN HwExec(Counted(c)) ELSE Counted(c)
  BY ZenonT(60) DEF Tick, Counted
<1> HIDE DEF n, t, u, v, x, y
<1> DEFINE d == [c EXCEPT !.next = n, !.t = t, !.wdl = u]
<1>5. d \in Core
  BY <1>2 DEF Core
<1>6. Counted(c) = [d EXCEPT !.spil = v, !.eepl = x, !.spml = y]
  BY <1>3
<1> HIDE DEF d
<1>7. Counted(c) \in Core
  BY ZenonT(60), <1>2, <1>5, <1>6 DEF Core
<1> QED BY <1>4, <1>7

\* A cycle keeps types.
LEMMA TickType ==
  ASSUME NEW c \in Core
  PROVE  Tick(c) \in Core
  BY TickIs, HwExecType

\* Some cycles, too.
LEMMA TicksType ==
  ASSUME NEW c \in Core, NEW n \in 0 .. 4
  PROVE  Ticks(n, c) \in Core
<1>1. n \in {0, 1, 2, 3, 4}
  OBVIOUS
<1>2. Tick(c) \in Core
  BY TickType
<1>3. Tick(Tick(c)) \in Core
  BY <1>2, TickType
<1>4. Tick(Tick(Tick(c))) \in Core
  BY <1>3, TickType
<1>5. Tick(Tick(Tick(Tick(c)))) \in Core
  BY <1>4, TickType
<1> QED BY <1>1, <1>2, <1>3, <1>4, <1>5 DEF Ticks

\* The interrupt entered is one of those pending.
LEMMA FirstIs ==
  ASSUME NEW s \in SUBSET Source, s # {}
  PROVE  First(s) \in s
<1> DEFINE S == {n \in 1 .. Len(Priority) : Priority[n] \in s}
<1>1. S \subseteq Nat /\ S # {}
  BY DEF Source
<1>2. Min(S) \in S
  BY <1>1, MinIs
<1> QED BY <1>2 DEF First

\* The check for interrupts keeps types.
LEMMA ItCheckType ==
  ASSUME NEW c \in Core
  PROVE  ItCheck(c) \in Core
<1>1. CASE ~c.i \/ Pending(c) = {}
  BY <1>1 DEF ItCheck, Core
<1>2. CASE ~(~c.i \/ Pending(c) = {})
  <2> DEFINE s == First(Pending(c))
             w == c.wdie /\ ~(s = "WDT" /\ c.wde)
             d == [c EXCEPT !.enter = TRUE, !.flags = @ \ {s}]
  <2>1. ItCheck(c) = [d EXCEPT !.wdie = w]
    BY <1>2 DEF ItCheck
  <2>2. w \in BOOLEAN
    OBVIOUS
  <2> HIDE DEF s, w
  <2>3. d \in Core
    BY DEF Core
  <2> HIDE DEF d
  <2> QED BY <2>1, <2>2, <2>3 DEF Core
<1> QED BY <1>1, <1>2

\* The last cycle of an instruction keeps types.
LEMMA LastTickType ==
  ASSUME NEW c \in Core
  PROVE  LastTick(c) \in Core
<1>1. ItCheck(c) \in Core
  BY ItCheckType
<1> QED BY <1>1, TickType DEF LastTick

\* The interrupt entry keeps types.
LEMMA InterruptType ==
  ASSUME NEW c \in Core
  PROVE  Interrupt(c) \in Core
<1>1. [c EXCEPT !.enter = FALSE, !.i = FALSE] \in Core
  BY DEF Core
<1> QED BY <1>1, TicksType DEF Interrupt

\* The end of an instruction keeps types, and enters what was to be entered.
LEMMA EndType ==
  ASSUME NEW c \in Core
  PROVE  EndInstruction(c) \in Core
  BY InterruptType DEF EndInstruction

\* The write of the status register.
LEMMA WriteSregType ==
  ASSUME NEW c \in Core, NEW i \in BOOLEAN
  PROVE  WriteSreg(c, i) \in Core
<1>1. (c.it \/ (i /\ ~c.i)) \in BOOLEAN
  BY DEF Core
<1> DEFINE it == c.it \/ (i /\ ~c.i)
<1>2. WriteSreg(c, i) = [c EXCEPT !.i = i, !.it = it]
  BY DEF WriteSreg
<1> HIDE DEF it
<1> QED BY ZenonT(60), <1>1, <1>2 DEF Core, it

\* Types: writes to the registers of the timer.
LEMMA TimerWritesType ==
  ASSUME NEW c \in Core
  PROVE  TimerWrites(c) \subseteq Core
<1>1. ASSUME NEW m \in {"off", "normal", "ctc"}
      PROVE  WriteTccr1b(c, m) \in Core
  <2>1. [c EXCEPT !.timer = m] \in Core
    BY DEF Core
  <2> QED BY <2>1, RequestType DEF WriteTccr1b
<1>2. ASSUME NEW x \in CompareA \union Compare
      PROVE  WriteOcr1a(c, x) \in Core /\ WriteOcr1b(c, x) \in Core /\ WriteTcnt1(c, x) \in Core
  <2>1. x \in 0 .. TimerMod - 1
    BY Numbers
  <2>2. [c EXCEPT !.a = x] \in Core /\ [c EXCEPT !.b = x] \in Core /\ [c EXCEPT !.t = x] \in Core
    BY <2>1 DEF Core
  <2> QED BY <2>2, RequestType DEF WriteOcr1a, WriteOcr1b, WriteTcnt1
<1>3. ASSUME NEW s \in Masks
      PROVE  WriteTifr1(c, s) \in Core /\ WriteTimsk1(c, s) \in Core
  <2>1. s \subseteq TimerSource
    BY Numbers
  <2> QED BY <2>1 DEF WriteTifr1, WriteTimsk1, Core
<1> QED BY <1>1, <1>2, <1>3 DEF TimerWrites

\* Types: writes to the registers of SPI.
LEMMA SpiWritesType ==
  ASSUME NEW c \in Core
  PROVE  SpiWrites(c) \subseteq Core
<1>1. "SPI" \in Source
  BY SourceIs
<1>2. ASSUME NEW on \in BOOLEAN
      PROVE  WriteSpsr(c, on) \in Core
  BY <1>1, FlagType DEF WriteSpsr
<1>3. ASSUME NEW x \in BOOLEAN, NEW y \in BOOLEAN
      PROVE  WriteSpcr(c, x, y) \in Core
  BY ZenonT(60) DEF WriteSpcr, Core
<1>4. ASSUME NEW time \in SpiTime
      PROVE  WriteSpdr(c, time) \in Core
  <2> DEFINE d == Flag(c, "SPI", FALSE)
  <2>1. d \in Core
    BY <1>1, FlagType
  <2> HIDE DEF d
  <2>2. time \in Cycles
    BY Numbers
  <2>3. [d EXCEPT !.tran = TRUE, !.spil = time] \in Core
    BY <2>1, <2>2 DEF Core
  <2>4. Clamp([d EXCEPT !.tran = TRUE, !.spil = time], time) \in Core
    BY <2>2, <2>3, ClampType
  <2> QED BY <2>1, <2>4 DEF WriteSpdr, d
<1> QED BY <1>2, <1>3, <1>4 DEF SpiWrites

\* Types: the write of WDTCSR.
LEMMA WriteWdtcsrType ==
  ASSUME NEW c \in Core, NEW wde \in BOOLEAN, NEW wdie \in BOOLEAN, NEW wdif \in BOOLEAN,
         NEW t \in WdTime
  PROVE  WriteWdtcsr(c, wde, wdie, wdif, t) \in Core
<1> DEFINE b == Flag(c, "WDT", wdif)
           d == [b EXCEPT !.wde = wde, !.wdie = wdie, !.wdto = t]
<1>1. b \in Core
  BY SourceIs, FlagType
<1> HIDE DEF b
<1>2. d \in Core
  BY <1>1 DEF Core
<1>3. c.wdto \in Cycles
  BY Numbers DEF Core
<1> HIDE DEF d
<1>4. [d EXCEPT !.wdl = c.wdto] \in Core
  BY <1>2, <1>3 DEF Core
<1>5. Clamp([d EXCEPT !.wdl = c.wdto], c.wdto) \in Core
  BY <1>3, <1>4, ClampType
<1> QED BY <1>2, <1>5 DEF WriteWdtcsr, d, b

\* Types: the write of EECR.
LEMMA WriteEecrType ==
  ASSUME NEW c \in Core, NEW empe \in BOOLEAN, NEW eepe \in BOOLEAN, NEW eere \in BOOLEAN,
         NEW time \in EepTime
  PROVE  WriteEecr(c, empe, eepe, eere, time) \in Core
<1> DEFINE start == c.empe /\ eepe /\ ~c.eepe
           d == IF c.empe THEN Clamp([c EXCEPT !.eepl = Window], Window) ELSE c
           e == IF start
                THEN Ticks(2, Clamp([d EXCEPT !.wrte = TRUE, !.eepl = time], time))
                ELSE d
           f == IF eere /\ ~e.wrte THEN Ticks(4, e) ELSE e
           x == c.empe /\ eepe
           y == empe /\ ~start
<1>1. WriteEecr(c, empe, eepe, eere, time) = [f EXCEPT !.eepe = x, !.empe = y]
  BY DEF WriteEecr
<1>2. x \in BOOLEAN /\ y \in BOOLEAN
  OBVIOUS
<1>3. [c EXCEPT !.eepl = Window] \in Core
  BY Numbers DEF Core
<1>4. d \in Core
  BY <1>3, ClampType, Numbers
<1> HIDE DEF d, x, y
<1>5. time \in Cycles
  BY Numbers
<1>6. [d EXCEPT !.wrte = TRUE, !.eepl = time] \in Core
  BY <1>4, <1>5 DEF Core
<1>7. Clamp([d EXCEPT !.wrte = TRUE, !.eepl = time], time) \in Core
  BY <1>5, <1>6, ClampType
<1>8. e \in Core
  BY <1>4, <1>7, TicksType
<1> HIDE DEF e
<1>9. f \in Core
  BY <1>8, TicksType
<1> HIDE DEF f
<1> QED BY ZenonT(60), <1>1, <1>2, <1>9 DEF Core

\* Types: the write of SPMCSR.
LEMMA WriteSpmcsrType ==
  ASSUME NEW c \in Core, NEW spmen \in BOOLEAN, NEW m \in SpmMode
  PROVE  WriteSpmcsr(c, spmen, m) \in Core
<1> DEFINE d == [c EXCEPT !.spmen = spmen]
           e == [d EXCEPT !.mode = m, !.spml = Window]
<1>1. d \in Core
  BY DEF Core
<1> HIDE DEF d
<1>2. e \in Core
  BY <1>1, Numbers DEF Core
<1>3. Clamp(e, Window) \in Core
  BY <1>2, Numbers, ClampType
<1> QED BY <1>1, <1>3 DEF WriteSpmcsr, d

\* Types: the start of flash programming.
LEMMA SpmStartType ==
  ASSUME NEW c \in Core
  PROVE  SpmStart(c) \in Core
<1>1. [c EXCEPT !.prge = TRUE, !.spml = SpmTime] \in Core
  BY Numbers DEF Core
<1>2. Clamp([c EXCEPT !.prge = TRUE, !.spml = SpmTime], SpmTime) \in Core
  BY <1>1, Numbers, ClampType
<1>3. [c EXCEPT !.spmen = FALSE] \in Core
  BY DEF Core
<1>4. c.spmen \in BOOLEAN /\ c.prge \in BOOLEAN
  BY DEF Core
<1> QED BY <1>2, <1>3, <1>4 DEF SpmStart
-----------------------------------------------------------------------------
(***************************************************************************)
(* Interrupts. Cycles are calm: they disable interrupts or leave them      *)
(* alone, and nothing becomes pending without a request to check. So does  *)
(* a write to a register keep the request, but for its flags and masks.    *)
(***************************************************************************)
Keeps(c, d) == d.enter = c.enter /\ (d.i => c.i) /\ (c.it => d.it)
Calm(c, d)  == Keeps(c, d) /\ (d.it \/ Pending(d) \subseteq Pending(c))

\* Both relations are transitive and reflexive.
LEMMA CalmTrans ==
  ASSUME NEW c, NEW d, NEW e
  PROVE  /\ Keeps(c, d) /\ Keeps(d, e) => Keeps(c, e)
         /\ Calm(c, d) /\ Calm(d, e) => Calm(c, e)
         /\ Keeps(c, c) /\ Calm(c, c)
<1>1. Keeps(c, d) /\ Keeps(d, e) => Keeps(c, e) /\ (e.it \/ ~d.it)
  BY DEF Keeps
<1>2. Keeps(c, c)
  BY DEF Keeps
<1> QED BY <1>1, <1>2 DEF Calm

\* What the interrupts depend on.
Same(c, d) ==
  /\ d.enter = c.enter /\ d.i = c.i /\ d.it = c.it
  /\ d.flags = c.flags /\ d.mask = c.mask /\ d.wdie = c.wdie

\* What leaves flags, masks and requests alone is calm.
LEMMA SameCalm ==
  ASSUME NEW c, NEW d, Same(c, d)
  PROVE  Calm(c, d)
  BY DEF Same, Calm, Keeps, Pending, Enabled

\* Raising a flag asks for a check where it is enabled.
LEMMA RaiseCalm ==
  ASSUME NEW c \in Core, NEW s \in SUBSET Source
  PROVE  Calm(c, Raise(c, s))
<1> DEFINE d == Raise(c, s)
<1>1. /\ d.enter = c.enter /\ d.i = c.i /\ d.it = (c.it \/ s # {})
      /\ d.flags = c.flags \union s /\ d.mask = c.mask /\ d.wdie = c.wdie
  BY DEF Raise, Core
<1>2. c.it \in BOOLEAN
  BY DEF Core
<1> HIDE DEF d
<1>3. Keeps(c, d)
  BY <1>1, <1>2 DEF Keeps
<1>4. CASE s = {}
  <2>1. Same(c, d)
    BY <1>1, <1>2, <1>4 DEF Same
  <2> QED BY <2>1, SameCalm DEF d
<1>5. CASE s # {}
  BY <1>1, <1>2, <1>3, <1>5 DEF Calm, d
<1> QED BY <1>4, <1>5

\* Calm: the timer.
LEMMA TimerExecCalm ==
  ASSUME NEW c \in Core
  PROVE  Calm(c, TimerExec(c))
<1>1. c.timer \in {"off", "normal", "ctc"}
  BY DEF Core
<1>2. CASE c.timer = "off"
  BY <1>2, CalmTrans DEF TimerExec
<1>3. CASE c.timer = "normal"
  BY <1>3, SourceIs, RaiseCalm DEF TimerExec
<1>4. CASE c.timer = "ctc"
  <2> DEFINE s == (IF c.t = 0 THEN {"T1OVF"} ELSE {})
                  \union (IF c.t = MatchA(c) THEN {"T1A"} ELSE {})
                  \union (IF c.t = MatchB(c) THEN {"T1B"} ELSE {})
             d == Raise(c, s)
             e == [d EXCEPT !.t = IF c.t = MatchA(c) THEN 0 ELSE @]
  <2>1. s \in SUBSET Source
    BY SourceIs
  <2>2. TimerExec(c) = e
    BY <1>4 DEF TimerExec
  <2> HIDE DEF s
  <2>3. d \in Core /\ Calm(c, d)
    BY <2>1, RaiseType, RaiseCalm
  <2> HIDE DEF d
  <2>4. Same(d, e)
    BY <2>3 DEF Same, Core
  <2> QED BY <2>2, <2>3, <2>4, SameCalm, CalmTrans
<1> QED BY <1>1, <1>2, <1>3, <1>4

\* Calm: the watchdog.
LEMMA WdExecCalm ==
  ASSUME NEW c \in Core
  PROVE  Calm(c, WdExec(c))
<1> DEFINE b == Raise(c, {"WDT"})
           d == [b EXCEPT !.wdl = c.wdto]
           r == ResetWd(d)
<1>1. b \in Core /\ Calm(c, b)
  BY SourceIs, RaiseType, RaiseCalm
<1> HIDE DEF b
<1>2. Same(b, d)
  BY <1>1 DEF Same, Core
<1>3. c.wdto \in Cycles
  BY Numbers DEF Core
<1>4. d \in Core
  BY <1>1, <1>3 DEF Core
<1>5. Calm(c, d)
  BY <1>1, <1>2, SameCalm, CalmTrans
<1> HIDE DEF d
<1>6. r.i = FALSE /\ r.it = TRUE /\ r.enter = d.enter
  BY <1>4 DEF ResetWd, Request, Core
<1> HIDE DEF r
<1>7. Calm(d, r)
  BY <1>6 DEF Calm, Keeps
<1>8. Calm(c, r)
  BY <1>5, <1>7, CalmTrans
<1> QED BY <1>5, <1>8, CalmTrans DEF WdExec, b, d, r

\* Calm: SPI, EEPROM and flash.
LEMMA DeviceExecCalm ==
  ASSUME NEW c \in Core
  PROVE  Calm(c, SpiExec(c)) /\ Calm(c, EepExec(c)) /\ Calm(c, SpmExec(c))
<1> DEFINE b == Raise(c, {"SPI"})
           d == [b EXCEPT !.tran = FALSE]
<1>1. b \in Core /\ Calm(c, b)
  BY SourceIs, RaiseType, RaiseCalm
<1> HIDE DEF b
<1>2. Same(b, d)
  BY <1>1 DEF Same, Core
<1>3. Calm(c, d)
  BY <1>1, <1>2, SameCalm, CalmTrans
<1>4. Calm(c, SpiExec(c))
  BY <1>3, CalmTrans DEF SpiExec, b, d
<1>5. c.eepl \in Cycles /\ c.wrte \in BOOLEAN /\ c.spml \in Cycles /\ c.prge \in BOOLEAN
  BY DEF Core
<1>6. Same(c, EepExec(c)) /\ Same(c, SpmExec(c))
  BY <1>5 DEF EepExec, SpmExec, Same, Core
<1> QED BY <1>4, <1>6, SameCalm

\* A cycle is calm,
LEMMA TickCalm ==
  ASSUME NEW c \in Core
  PROVE  Calm(c, Tick(c))
<1> DEFINE d0 == Counted(c)
           d1 == TimerExec(d0)
           d2 == WdExec(d1)
           d3 == SpiExec(d2)
           d4 == EepExec(d3)
           d5 == SpmExec(d4)
           d6 == HwExec(d0)
<1>1. d0 \in Core
  BY TickIs
<1>2. Same(c, d0)
  BY DEF Counted, Same, Core
<1>3. d1 \in Core /\ d2 \in Core /\ d3 \in Core /\ d4 \in Core /\ d5 \in Core
  BY <1>1, TimerExecType, WdExecType, DeviceExecType
<1>4. Calm(d0, d1) /\ Calm(d1, d2) /\ Calm(d2, d3) /\ Calm(d3, d4) /\ Calm(d4, d5)
  BY <1>1, <1>3, TimerExecCalm, WdExecCalm, DeviceExecCalm
<1>5. \E n : d6 = [d5 EXCEPT !.next = n]
  BY HwExecIs DEF Processed
<1>6. Tick(c) = IF d0.next = 0 THEN d6 ELSE d0
  BY TickIs
<1> HIDE DEF d0, d1, d2, d3, d4, d5, d6
<1>7. Same(d5, d6)
  BY <1>3, <1>5 DEF Same, Core
<1>8. Calm(c, d0) /\ Calm(d5, d6)
  BY <1>2, <1>7, SameCalm
<1>9. Calm(d0, d5)
  BY <1>4, CalmTrans
<1>10. Calm(c, d6)
  BY <1>8, <1>9, CalmTrans
<1> QED BY <1>6, <1>8, <1>10

\* and so are some.
LEMMA TicksCalm ==
  ASSUME NEW c \in Core, NEW n \in 0 .. 4
  PROVE  Calm(c, Ticks(n, c))
<1>1. n \in {0, 1, 2, 3, 4}
  OBVIOUS
<1> DEFINE d1 == Tick(c)
           d2 == Tick(d1)
           d3 == Tick(d2)
           d4 == Tick(d3)
<1>2. d1 \in Core /\ d2 \in Core /\ d3 \in Core
  BY TickType
<1>3. Calm(c, d1) /\ Calm(d1, d2) /\ Calm(d2, d3) /\ Calm(d3, d4)
  BY <1>2, TickCalm
<1>4. Ticks(n, c) \in {c, d1, d2, d3, d4}
  BY <1>1 DEF Ticks
<1> HIDE DEF d1, d2, d3, d4
<1>5. Calm(c, d2) /\ Calm(c, d3) /\ Calm(c, d4) /\ Calm(c, c)
  BY <1>3, CalmTrans
<1> QED BY <1>3, <1>4, <1>5
-----------------------------------------------------------------------------
(* Everything pending is about to be looked at, or known to be late. *)
Noticed(c) == c.i /\ ~c.it => Pending(c) \subseteq late

\* After a calm step everything is still noticed.
LEMMA CalmNoticed ==
  ASSUME NEW c, NEW d, Noticed(c), Calm(c, d)
  PROVE  Noticed(d)
  BY DEF Noticed, Calm, Keeps

\* The check clears the request when nothing is pending or interrupts are
\* disabled, and keeps it when one is entered.
LEMMA ItCheckNoticed ==
  ASSUME NEW c \in Core, c.it
  PROVE  Noticed(ItCheck(c))
<1> DEFINE d == ItCheck(c)
<1>1. CASE ~c.i \/ Pending(c) = {}
  <2>1. d = [c EXCEPT !.it = FALSE]
    BY <1>1 DEF ItCheck
  <2>2. d.i = c.i /\ d.flags = c.flags /\ d.mask = c.mask /\ d.wdie = c.wdie
    BY <2>1 DEF Core
  <2> HIDE DEF d
  <2>3. Pending(d) = Pending(c)
    BY <2>2 DEF Pending, Enabled
  <2> QED BY <1>1, <2>2, <2>3 DEF Noticed, d
<1>2. CASE ~(~c.i \/ Pending(c) = {})
  <2>1. d.it
    BY <1>2 DEF ItCheck, Core
  <2> QED BY <2>1 DEF Noticed
<1> QED BY <1>1, <1>2

\* After the last cycle of an instruction, too.
LEMMA LastTickNoticed ==
  ASSUME NEW c \in Core, Noticed(c)
  PROVE  Noticed(LastTick(c))
<1> DEFINE d == ItCheck(c)
<1>1. d \in Core
  BY ItCheckType
<1>2. CASE ~c.it
  BY <1>2, TickCalm, CalmNoticed DEF LastTick
<1>3. CASE c.it
  <2>1. Noticed(d)
    BY <1>3, ItCheckNoticed
  <2> HIDE DEF d
  <2>2. Noticed(Tick(d))
    BY <1>1, <2>1, TickCalm, CalmNoticed
  <2> QED BY <1>3, <2>2 DEF LastTick, d
<1> QED BY <1>2, <1>3

\* Only what is enabled or flagged by the write itself may be late.
LEMMA WriteSregNoticed ==
  ASSUME NEW c \in Core, NEW i \in BOOLEAN, Noticed(c)
  PROVE  Noticed(WriteSreg(c, i))
<1> DEFINE d == WriteSreg(c, i)
<1>1. /\ d.i = i /\ d.it = (c.it \/ (i /\ ~c.i))
      /\ d.flags = c.flags /\ d.mask = c.mask /\ d.wdie = c.wdie
  BY DEF WriteSreg, Core
<1> HIDE DEF d
<1>2. Pending(d) = Pending(c)
  BY <1>1 DEF Pending, Enabled
<1>3. c.i \in BOOLEAN /\ c.it \in BOOLEAN
  BY DEF Core
<1> QED BY <1>1, <1>2, <1>3 DEF Noticed, d

\* Asking for the next event to be found again keeps interrupts as they are.
LEMMA RequestKeeps ==
  ASSUME NEW c \in Core
  PROVE  Keeps(c, Request(c))
  BY DEF Request, Keeps, Core

\* Interrupts are kept by a value kept in the range.
LEMMA ClampKeeps ==
  ASSUME NEW c \in Core, NEW left
  PROVE  Keeps(c, Clamp(c, left))
  BY DEF Clamp, Keeps, Core

\* Interrupts are kept by a flag written.
LEMMA FlagKeeps ==
  ASSUME NEW c \in Core, NEW s, NEW on
  PROVE  Keeps(c, Flag(c, s, on))
  BY DEF Flag, Keeps, Core

\* Interrupts are kept by writes to the registers of the timer.
LEMMA TimerWritesKeep ==
  ASSUME NEW c \in Core, NEW d \in TimerWrites(c)
  PROVE  Keeps(c, d)
<1>1. ASSUME NEW m
      PROVE  Keeps(c, WriteTccr1b(c, m))
  BY DEF WriteTccr1b, Request, Keeps, Core
<1>2. ASSUME NEW x
      PROVE  Keeps(c, WriteOcr1a(c, x)) /\ Keeps(c, WriteOcr1b(c, x))
             /\ Keeps(c, WriteTcnt1(c, x))
  BY DEF WriteOcr1a, WriteOcr1b, WriteTcnt1, Request, Keeps, Core
<1>3. ASSUME NEW s
      PROVE  Keeps(c, WriteTifr1(c, s)) /\ Keeps(c, WriteTimsk1(c, s))
  BY DEF WriteTifr1, WriteTimsk1, Keeps, Core
<1> QED BY <1>1, <1>2, <1>3 DEF TimerWrites

\* Interrupts are kept by writes to the registers of SPI.
LEMMA SpiWritesKeep ==
  ASSUME NEW c \in Core, NEW d \in SpiWrites(c)
  PROVE  Keeps(c, d)
<1>1. ASSUME NEW on
      PROVE  Keeps(c, WriteSpsr(c, on))
  BY FlagKeeps DEF WriteSpsr
<1>2. ASSUME NEW x, NEW y
      PROVE  Keeps(c, WriteSpcr(c, x, y))
  BY DEF WriteSpcr, Keeps, Core
<1>3. ASSUME NEW time \in SpiTime
      PROVE  Keeps(c, WriteSpdr(c, time))
  <2> DEFINE b == Flag(c, "SPI", FALSE)
             e == [b EXCEPT !.tran = TRUE, !.spil = time]
  <2>1. b \in Core /\ Keeps(c, b) /\ time \in Cycles
    BY SourceIs, FlagType, FlagKeeps, Numbers
  <2> HIDE DEF b
  <2>2. e \in Core /\ Keeps(b, e)
    BY ZenonT(60), <2>1 DEF Core, Keeps
  <2> HIDE DEF e
  <2>3. Keeps(e, Clamp(e, time))
    BY <2>2, ClampKeeps
  <2>4. Keeps(c, Clamp(e, time))
    BY <2>1, <2>2, <2>3, CalmTrans
  <2> QED BY <2>1, <2>4 DEF WriteSpdr, b, e
<1> QED BY <1>1, <1>2, <1>3 DEF SpiWrites

\* Interrupts are kept by the write of WDTCSR.
LEMMA WriteWdtcsrKeeps ==
  ASSUME NEW c \in Core, NEW wde \in BOOLEAN, NEW wdie \in BOOLEAN, NEW wdif \in BOOLEAN,
         NEW t \in WdTime
  PROVE  Keeps(c, WriteWdtcsr(c, wde, wdie, wdif, t))
<1> DEFINE b == Flag(c, "WDT", wdif)
           d == [b EXCEPT !.wde = wde, !.wdie = wdie, !.wdto = t]
           e == [d EXCEPT !.wdl = c.wdto]
<1>1. b \in Core /\ Keeps(c, b)
  BY SourceIs, FlagType, FlagKeeps
<1> HIDE DEF b
<1>2. d \in Core /\ Keeps(b, d)
  BY ZenonT(60), <1>1 DEF Core, Keeps
<1> HIDE DEF d
<1>3. e \in Core /\ Keeps(d, e)
  <2>1. c.wdto \in Cycles
    BY Numbers DEF Core
  <2> QED BY <1>2, <2>1 DEF Core, Keeps
<1> HIDE DEF e
<1>4. Keeps(e, Clamp(e, c.wdto))
  BY <1>3, ClampKeeps
<1>5. Keeps(c, d) /\ Keeps(c, Clamp(e, c.wdto))
  BY <1>1, <1>2, <1>3, <1>4, CalmTrans
<1> QED BY <1>5 DEF WriteWdtcsr, b, d, e

\* Interrupts are kept by the write of EECR.
LEMMA WriteEecrKeeps ==
  ASSUME NEW c \in Core, NEW empe \in BOOLEAN, NEW eepe \in BOOLEAN, NEW eere \in BOOLEAN,
         NEW time \in EepTime
  PROVE  Keeps(c, WriteEecr(c, empe, eepe, eere, time))
<1> DEFINE start == c.empe /\ eepe /\ ~c.eepe
           b == [c EXCEPT !.eepl = Window]
           d == IF c.empe THEN Clamp(b, Window) ELSE c
           x == [d EXCEPT !.wrte = TRUE, !.eepl = time]
           y == Clamp(x, time)
           e == IF start THEN Ticks(2, y) ELSE d
           f == IF eere /\ ~e.wrte THEN Ticks(4, e) ELSE e
           g == [f EXCEPT !.eepe = c.empe /\ eepe, !.empe = empe /\ ~start]
<1>1. WriteEecr(c, empe, eepe, eere, time) = g
  BY DEF WriteEecr
<1>2. b \in Core /\ Keeps(c, b) /\ time \in Cycles
  BY Numbers DEF Core, Keeps
<1> HIDE DEF b
<1>3. Clamp(b, Window) \in Core /\ Keeps(b, Clamp(b, Window))
  BY <1>2, ClampType, ClampKeeps, Numbers
<1>4. d \in Core /\ Keeps(c, d)
  BY <1>2, <1>3, CalmTrans
<1> HIDE DEF d
<1>5. x \in Core /\ Keeps(d, x)
  BY ZenonT(60), <1>2, <1>4 DEF Core, Keeps
<1> HIDE DEF x
<1>6. y \in Core /\ Keeps(x, y)
  BY <1>2, <1>5, ClampType, ClampKeeps
<1> HIDE DEF y
<1>7. Ticks(2, y) \in Core /\ Keeps(y, Ticks(2, y))
  BY <1>6, TicksType, TicksCalm DEF Calm
<1>8. Keeps(d, Ticks(2, y))
  BY <1>5, <1>6, <1>7, CalmTrans
<1>9. e \in Core /\ Keeps(d, e)
  BY <1>4, <1>7, <1>8, CalmTrans
<1> HIDE DEF e
<1>10. Ticks(4, e) \in Core /\ Keeps(e, Ticks(4, e))
  BY <1>9, TicksType, TicksCalm DEF Calm
<1>11. f \in Core /\ Keeps(e, f)
  BY <1>9, <1>10, CalmTrans
<1> HIDE DEF f
<1>12. Keeps(f, g)
  BY <1>11 DEF Keeps, Core
<1> HIDE DEF g
<1> QED BY <1>1, <1>4, <1>9, <1>11, <1>12, CalmTrans

\* The write of SPMCSR keeps them, too.
LEMMA SpmKeeps ==
  ASSUME NEW c \in Core, NEW spmen \in BOOLEAN, NEW m \in SpmMode
  PROVE  Keeps(c, WriteSpmcsr(c, spmen, m))
<1> DEFINE d == [c EXCEPT !.spmen = spmen]
           e == [d EXCEPT !.mode = m, !.spml = Window]
<1>1. d \in Core /\ Keeps(c, d)
  BY DEF Core, Keeps
<1> HIDE DEF d
<1>2. e \in Core /\ Keeps(d, e)
  BY <1>1, Numbers DEF Core, Keeps
<1> HIDE DEF e
<1>3. Keeps(c, Clamp(e, Window))
  BY <1>1, <1>2, ClampKeeps, CalmTrans
<1> QED BY <1>1, <1>3 DEF WriteSpmcsr, d, e

\* The start of flash programming is calm.
LEMMA SpmStartCalm ==
  ASSUME NEW c \in Core
  PROVE  Calm(c, SpmStart(c))
<1> DEFINE d == [c EXCEPT !.prge = TRUE, !.spml = SpmTime]
           e == [c EXCEPT !.spmen = FALSE]
<1>1. d \in Core
  BY Numbers DEF Core
<1>2. Same(c, d) /\ Same(c, e)
  BY DEF Core, Same
<1> HIDE DEF d
<1>3. Same(d, Clamp(d, SpmTime))
  BY <1>1 DEF Clamp, Core, Same
<1>4. Calm(c, Clamp(d, SpmTime)) /\ Calm(c, e) /\ Calm(c, c)
  BY <1>2, <1>3, SameCalm, CalmTrans
<1>5. c.spmen \in BOOLEAN /\ c.prge \in BOOLEAN
  BY DEF Core
<1> QED BY <1>4, <1>5 DEF SpmStart, d, e
-----------------------------------------------------------------------------
(***************************************************************************)
(* Instructions. Each ends in a state c it reached from the last cycle's   *)
(* state a, where everything pending in both is known.                     *)
(***************************************************************************)
Fits(a, c) == c.i /\ ~c.it => Pending(c) \intersect Pending(a) \subseteq late

\* What is noticed fits any earlier state, and a write that keeps interrupts
\* fits the one before it.
LEMMA NoticedFits ==
  ASSUME NEW a, NEW c
  PROVE  /\ Noticed(c) => Fits(a, c)
         /\ Noticed(a) /\ Keeps(a, c) => Fits(a, c)
  BY DEF Noticed, Fits, Keeps

\* Between instructions no entry is left over.
LEMMA HardwareIsCore == hw \in Hardware <=> hw \in Core /\ hw.enter = FALSE
  BY DEF Hardware, Core

\* The cycles before the effect of an instruction.
LEMMA LastIs ==
  ASSUME hw \in Core, NEW n \in Stall
  PROVE  Last(n) \in Core /\ (Noticed(hw) => Noticed(Last(n)))
<1>1. n \in 0 .. 4
  BY AvrHwAssumption DEF AvrHwAssumption
<1>2. Ticks(n, hw) \in Core /\ Calm(hw, Ticks(n, hw))
  BY <1>1, TicksType, TicksCalm
<1>3. Noticed(hw) => Noticed(Ticks(n, hw))
  BY <1>2, CalmNoticed
<1> QED BY <1>2, <1>3, LastTickType, LastTickNoticed DEF Last

\* Every instruction ends so.
LEMMA NextEnds ==
  ASSUME hw \in Core, Noticed(hw), Next
  PROVE  \E a, c \in Core : Ends(a, c) /\ Fits(a, c)
<1>1. ASSUME NEW c \in Core, Noticed(c), Runs(c)
      PROVE  \E a, d \in Core : Ends(a, d) /\ Fits(a, d)
  BY <1>1, NoticedFits DEF Runs
<1>2. ASSUME NEW n \in Stall, NEW d \in Core, Keeps(Last(n), d), Ends(Last(n), d)
      PROVE  \E a, c \in Core : Ends(a, c) /\ Fits(a, c)
  BY <1>2, LastIs, NoticedFits
<1>3. ASSUME Plain
      PROVE  \E a, c \in Core : Ends(a, c) /\ Fits(a, c)
  <2>1. PICK n \in Stall : Runs(Last(n))
    BY <1>3 DEF Plain
  <2> QED BY <1>1, <2>1, LastIs
<1>4. ASSUME SetI \/ ClearI
      PROVE  \E a, c \in Core : Ends(a, c) /\ Fits(a, c)
  <2>1. PICK i \in BOOLEAN : Runs(LastTick(WriteSreg(hw, i)))
    BY <1>4 DEF SetI, ClearI
  <2>2. WriteSreg(hw, i) \in Core /\ Noticed(WriteSreg(hw, i))
    BY WriteSregType, WriteSregNoticed
  <2>3. LastTick(WriteSreg(hw, i)) \in Core /\ Noticed(LastTick(WriteSreg(hw, i)))
    BY <2>2, LastTickType, LastTickNoticed
  <2> QED BY <1>1, <2>1, <2>3
<1>5. ASSUME Reti
      PROVE  \E a, c \in Core : Ends(a, c) /\ Fits(a, c)
  <2> DEFINE d == [hw EXCEPT !.i = TRUE, !.it = TRUE]
             e == Ticks(3, d)
  <2>1. d \in Core /\ Noticed(d)
    BY DEF Core, Noticed
  <2> HIDE DEF d
  <2>2. e \in Core /\ Calm(d, e)
    BY <2>1, TicksType, TicksCalm
  <2>3. Noticed(e)
    BY <2>1, <2>2, CalmNoticed
  <2> HIDE DEF e
  <2>4. LastTick(e) \in Core /\ Noticed(LastTick(e))
    BY <2>2, <2>3, LastTickType, LastTickNoticed
  <2>5. Runs(LastTick(e))
    BY <1>5 DEF Reti, d, e
  <2> QED BY <1>1, <2>4, <2>5
<1>6. ASSUME OutSreg
      PROVE  \E a, c \in Core : Ends(a, c) /\ Fits(a, c)
  <2>1. PICK n \in Stall, i \in BOOLEAN : Ends(Last(n), WriteSreg(Last(n), i))
    BY <1>6 DEF OutSreg
  <2>2. Last(n) \in Core /\ Noticed(Last(n))
    BY LastIs
  <2>3. WriteSreg(Last(n), i) \in Core /\ Noticed(WriteSreg(Last(n), i))
    BY <2>2, WriteSregType, WriteSregNoticed
  <2> QED BY <2>1, <2>2, <2>3, NoticedFits
<1>7. ASSUME OutTimer
      PROVE  \E a, c \in Core : Ends(a, c) /\ Fits(a, c)
  <2>1. PICK n \in Stall : \E d \in TimerWrites(Last(n)) : Ends(Last(n), d)
    BY <1>7 DEF OutTimer, Out
  <2>2. PICK d \in TimerWrites(Last(n)) : Ends(Last(n), d)
    BY <2>1
  <2> QED BY <1>2, <2>2, LastIs, TimerWritesType, TimerWritesKeep
<1>8. ASSUME OutSpi
      PROVE  \E a, c \in Core : Ends(a, c) /\ Fits(a, c)
  <2>1. PICK n \in Stall : \E d \in SpiWrites(Last(n)) : Ends(Last(n), d)
    BY <1>8 DEF OutSpi, Out
  <2>2. PICK d \in SpiWrites(Last(n)) : Ends(Last(n), d)
    BY <2>1
  <2> QED BY <1>2, <2>2, LastIs, SpiWritesType, SpiWritesKeep
<1>9. ASSUME OutUcsr0a
      PROVE  \E a, c \in Core : Ends(a, c) /\ Fits(a, c)
  <2>1. PICK n \in Stall, on \in BOOLEAN : Ends(Last(n), WriteUcsr0a(Last(n), on))
    BY <1>9 DEF OutUcsr0a, Out
  <2>2. Last(n) \in Core
    BY LastIs
  <2>3. WriteUcsr0a(Last(n), on) \in Core /\ Keeps(Last(n), WriteUcsr0a(Last(n), on))
    BY <2>2, SourceIs, FlagType, FlagKeeps DEF WriteUcsr0a
  <2> QED BY <1>2, <2>1, <2>3
<1>10. ASSUME OutWdtcsr
       PROVE  \E a, c \in Core : Ends(a, c) /\ Fits(a, c)
  <2>1. PICK n \in Stall, wde \in BOOLEAN, wdie \in BOOLEAN, wdif \in BOOLEAN, t \in WdTime :
          Ends(Last(n), WriteWdtcsr(Last(n), wde, wdie, wdif, t))
    BY <1>10 DEF OutWdtcsr, Out
  <2> QED BY <1>2, <2>1, LastIs, WriteWdtcsrType, WriteWdtcsrKeeps
<1>11. ASSUME OutEecr
       PROVE  \E a, c \in Core : Ends(a, c) /\ Fits(a, c)
  <2>1. PICK n \in Stall, empe \in BOOLEAN, eepe \in BOOLEAN, eere \in BOOLEAN, t \in EepTime :
          Ends(Last(n), WriteEecr(Last(n), empe, eepe, eere, t))
    BY <1>11 DEF OutEecr, Out
  <2> QED BY <1>2, <2>1, LastIs, WriteEecrType, WriteEecrKeeps
<1>12. ASSUME OutSpmcsr
       PROVE  \E a, c \in Core : Ends(a, c) /\ Fits(a, c)
  <2>1. PICK n \in Stall, spmen \in BOOLEAN, m \in SpmMode :
          Ends(Last(n), WriteSpmcsr(Last(n), spmen, m))
    BY <1>12 DEF OutSpmcsr, Out
  <2> QED BY <1>2, <2>1, LastIs, WriteSpmcsrType, SpmKeeps
<1>13. ASSUME Wdr
       PROVE  \E a, c \in Core : Ends(a, c) /\ Fits(a, c)
  <2> DEFINE d == [hw EXCEPT !.wdl = hw.wdto]
             e == Clamp(d, hw.wdto)
  <2>1. hw.wdto \in Cycles
    BY Numbers DEF Core
  <2>2. d \in Core /\ Same(hw, d)
    BY <2>1 DEF Core, Same
  <2> HIDE DEF d
  <2>3. e \in Core /\ Same(d, e)
    BY <2>1, <2>2, ClampType DEF Clamp, Same, Core
  <2> HIDE DEF e
  <2>4. Noticed(e)
    BY <2>2, <2>3, SameCalm, CalmNoticed
  <2>5. LastTick(e) \in Core /\ Noticed(LastTick(e))
    BY <2>3, <2>4, LastTickType, LastTickNoticed
  <2>6. Runs(LastTick(e))
    BY <1>13 DEF Wdr, e, d
  <2> QED BY <1>1, <2>5, <2>6
<1>14. ASSUME Spm
       PROVE  \E a, c \in Core : Ends(a, c) /\ Fits(a, c)
  <2> DEFINE d == SpmStart(hw)
             e == Ticks(3, d)
  <2>1. d \in Core /\ Noticed(d)
    BY SpmStartType, SpmStartCalm, CalmNoticed
  <2> HIDE DEF d
  <2>2. e \in Core /\ Noticed(e)
    BY <2>1, TicksType, TicksCalm, CalmNoticed
  <2> HIDE DEF e
  <2>3. LastTick(e) \in Core /\ Noticed(LastTick(e))
    BY <2>2, LastTickType, LastTickNoticed
  <2>4. Runs(LastTick(e))
    BY <1>14 DEF Spm, e, d
  <2> QED BY <1>1, <2>3, <2>4
<1> QED BY <1>3, <1>4, <1>5, <1>6, <1>7, <1>8, <1>9, <1>10, <1>11, <1>12, <1>13, <1>14
        DEF Next

\* The end of an instruction leaves no entry over, and what it leaves pending is
\* noticed or late.
LEMMA EndsInv ==
  ASSUME late \subseteq Source, NEW a \in Core, NEW c \in Core, Ends(a, c), Fits(a, c)
  PROVE  TypeOK' /\ PendingNoticed'
<1>1. hw' = EndInstruction(c)
  BY DEF Ends
<1>2. hw' \in Core
  BY <1>1, EndType
<1>3. c.enter \in BOOLEAN
  BY DEF Core
<1>4. /\ hw'.enter = FALSE
      /\ ~c.enter => hw' = c
      /\ c.enter => ~hw'.i
  <2> DEFINE b == [c EXCEPT !.enter = FALSE, !.i = FALSE]
             d == Ticks(3, b)
  <2>1. b \in Core /\ b.enter = FALSE /\ b.i = FALSE
    BY DEF Core
  <2> HIDE DEF b
  <2>2. d.enter = FALSE /\ (d.i => b.i)
    BY <2>1, TicksCalm DEF Calm, Keeps
  <2>3. c.enter => hw' = d
    BY <1>1 DEF EndInstruction, Interrupt, b
  <2>4. ~c.enter => hw' = c
    BY <1>1 DEF EndInstruction
  <2> HIDE DEF d
  <2> QED BY <1>3, <2>1, <2>2, <2>3, <2>4
<1>5. hw' \in Hardware
  BY <1>2, <1>4 DEF Hardware, Core
<1>6. late' = IF hw'.it THEN {}
              ELSE (late \union (Pending(c) \ Pending(a))) \intersect Pending(hw')
  BY DEF Ends
<1>7. Pending(c) \subseteq Source
  BY DEF Pending, Core
<1>8. TypeOK'
  BY <1>5, <1>6, <1>7 DEF TypeOK, Hardware
<1>9. PendingNoticed'
  <2> SUFFICES ASSUME hw'.i, ~hw'.it PROVE Pending(hw') \subseteq late'
    BY DEF PendingNoticed, Pending, Enabled
  <2>1. hw' = c
    BY <1>3, <1>4
  <2>2. Pending(c) \intersect Pending(a) \subseteq late
    BY <2>1 DEF Fits
  <2>3. late' = (late \union (Pending(c) \ Pending(a))) \intersect Pending(c)
    BY <1>6, <2>1
  <2> QED BY <2>1, <2>2, <2>3
<1> QED BY <1>8, <1>9

\* The start.
LEMMA InitInv == Init => TypeOK /\ PendingNoticed
<1> SUFFICES ASSUME Init PROVE TypeOK /\ PendingNoticed
  OBVIOUS
<1>1. hw \in Hardware
  BY Numbers DEF Init, Hardware
<1>2. ~hw.i
  BY DEF Init
<1> QED BY <1>1, <1>2 DEF Init, TypeOK, PendingNoticed

\* Types, and what is pending is noticed, are an invariant together.
LEMMA Invariance == Spec => [](TypeOK /\ PendingNoticed)
<1>1. Init => TypeOK /\ PendingNoticed
  BY InitInv
<1>2. TypeOK /\ PendingNoticed /\ [Next]_vars => (TypeOK /\ PendingNoticed)'
  <2> SUFFICES ASSUME TypeOK, PendingNoticed, [Next]_vars
               PROVE  TypeOK' /\ PendingNoticed'
    OBVIOUS
  <2>1. hw \in Core /\ Noticed(hw) /\ late \subseteq Source
    BY HardwareIsCore DEF TypeOK, PendingNoticed, Noticed
  <2>2. CASE Next
    <3>1. PICK a \in Core, c \in Core : Ends(a, c) /\ Fits(a, c)
      BY <2>1, <2>2, NextEnds
    <3> QED BY <2>1, <3>1, EndsInv
  <2>3. CASE UNCHANGED vars
    BY <2>3 DEF vars, TypeOK, PendingNoticed, Pending, Enabled
  <2> QED BY <2>2, <2>3
<1> QED BY <1>1, <1>2, PTL DEF Spec

\* Type correctness, and no interrupt entry is left over between instructions.
THEOREM TypeCorrect == Spec => []TypeOK
BY Invariance, PTL

\* With interrupts enabled, what is pending is about to be looked at or was made
\* so by the program's own write to a flag or an enable bit.
THEOREM NothingUnnoticed == Spec => []PendingNoticed
BY Invariance, PTL
-----------------------------------------------------------------------------
(***************************************************************************)
(* Deadlines, with the peripherals processed at the next event only. What  *)
(* each peripheral waits for is covered by the next event; OCR1A's maximum *)
(* is left out, which makes the next event "now".                          *)
(***************************************************************************)
Timer(c) == <<c.timer, c.t, c.a, c.b>>
Wd(c)    == <<c.wde, c.wdie, c.wdl, c.wdto>>
Spi(c)   == <<c.tran, c.spil>>
Eep(c)   == <<c.wrte, c.empe, c.eepl>>
Flash(c) == <<c.prge, c.spmen, c.spml>>

TimerCovered(c) ==
  /\ c.a # TimerMod - 1
  /\ c.timer # "off" => c.next <= TimerMod - c.t
  /\ c.timer = "ctc" /\ c.t < MatchA(c) => c.next <= MatchA(c) - c.t
  /\ c.timer = "ctc" /\ c.t < MatchB(c) => c.next <= MatchB(c) - c.t
WdCovered(c)  == WdRuns(c) => c.next <= c.wdl
SpiCovered(c) == c.tran => c.next <= c.spil
EepIdle(c)    == "eep" \in Unit \/ ~c.empe  \* EEMPE is never set
EepCovered(c) == (c.wrte => c.next <= c.eepl) /\ EepIdle(c)
InWindow(c)   == c.spmen /\ ~c.prge /\ "reserved" \notin SpmMode => c.spml <= Window
SpmCovered(c) ==
  /\ c.prge => c.next <= c.spml
  /\ c.spmen /\ ~c.prge /\ "reserved" \notin SpmMode => c.next <= c.spml
  /\ InWindow(c)

Covered(c) ==
  /\ 0 < c.next
  /\ TimerCovered(c) /\ WdCovered(c) /\ SpiCovered(c) /\ EepCovered(c) /\ SpmCovered(c)

\* An earlier next event covers what a later one does.
LEMMA Sooner ==
  ASSUME NEW c \in Core, NEW d \in Core, d.next <= c.next
  PROVE  /\ Timer(d) = Timer(c) /\ TimerCovered(c) => TimerCovered(d)
         /\ Wd(d) = Wd(c) /\ WdCovered(c) => WdCovered(d)
         /\ Spi(d) = Spi(c) /\ SpiCovered(c) => SpiCovered(d)
         /\ Eep(d) = Eep(c) /\ EepCovered(c) => EepCovered(d)
         /\ Flash(d) = Flash(c) /\ SpmCovered(c) => SpmCovered(d)
<1>1. /\ c.next \in Nat /\ d.next \in Nat /\ c.t \in Nat /\ c.wdl \in Nat /\ c.spil \in Nat
      /\ c.eepl \in Nat /\ c.spml \in Nat /\ c.a \in 0 .. TimerMod - 1
      /\ c.b \in 0 .. TimerMod - 1
  BY DEF Core, Cycles
<1>2. MatchA(c) \in Int /\ MatchB(c) \in Int /\ TimerMod \in Int
  BY <1>1, UpIs, Numbers DEF MatchA, MatchB
<1>3. Timer(d) = Timer(c) => MatchA(d) = MatchA(c) /\ MatchB(d) = MatchB(c)
  BY DEF Timer, MatchA, MatchB
<1>4. Timer(d) = Timer(c) /\ TimerCovered(c) => TimerCovered(d)
  <2> SUFFICES ASSUME Timer(d) = Timer(c), TimerCovered(c) PROVE TimerCovered(d)
    OBVIOUS
  <2>1. d.timer = c.timer /\ d.t = c.t /\ d.a = c.a
    BY DEF Timer
  <2> HIDE DEF MatchA, MatchB
  <2> QED BY <1>1, <1>2, <1>3, <2>1 DEF TimerCovered
<1>5. Wd(d) = Wd(c) /\ WdCovered(c) => WdCovered(d)
  BY <1>1 DEF Wd, WdCovered, WdRuns
<1>6. Spi(d) = Spi(c) /\ SpiCovered(c) => SpiCovered(d)
  BY <1>1 DEF Spi, SpiCovered
<1>7. Eep(d) = Eep(c) /\ EepCovered(c) => EepCovered(d)
  BY <1>1 DEF Eep, EepCovered, EepIdle
<1>8. Flash(d) = Flash(c) /\ SpmCovered(c) => SpmCovered(d)
  BY <1>1 DEF Flash, SpmCovered, InWindow
<1> QED BY <1>4, <1>5, <1>6, <1>7, <1>8

\* The timer only takes its counter further when comparator A matches.
LEMMA TimerExecIs ==
  ASSUME NEW c \in Core
  PROVE  LET d == TimerExec(c)
         IN /\ d.timer = c.timer /\ d.a = c.a /\ d.b = c.b
            /\ d.t = IF c.timer = "ctc" /\ c.t = MatchA(c) THEN 0 ELSE c.t
            /\ Wd(d) = Wd(c) /\ Spi(d) = Spi(c) /\ Eep(d) = Eep(c) /\ Flash(d) = Flash(c)
<1>1. c.timer \in {"off", "normal", "ctc"}
  BY DEF Core
<1>2. CASE c.timer = "off"
  BY <1>2 DEF TimerExec
<1>3. CASE c.timer = "normal"
  BY <1>3 DEF TimerExec, Raise, Core, Wd, Spi, Eep, Flash
<1>4. CASE c.timer = "ctc"
  <2> DEFINE s == (IF c.t = 0 THEN {"T1OVF"} ELSE {})
                  \union (IF c.t = MatchA(c) THEN {"T1A"} ELSE {})
                  \union (IF c.t = MatchB(c) THEN {"T1B"} ELSE {})
             d == Raise(c, s)
             x == IF c.t = MatchA(c) THEN 0 ELSE d.t
             e == [d EXCEPT !.t = x]
  <2>1. TimerExec(c) = e
    BY <1>4 DEF TimerExec
  <2> HIDE DEF s
  <2>2. /\ d.timer = c.timer /\ d.a = c.a /\ d.b = c.b /\ d.t = c.t
        /\ Wd(d) = Wd(c) /\ Spi(d) = Spi(c) /\ Eep(d) = Eep(c) /\ Flash(d) = Flash(c)
    BY DEF Raise, Core, Wd, Spi, Eep, Flash
  <2>3. d \in Core
    BY SourceIs, RaiseType DEF s
  <2> HIDE DEF d
  <2>4. /\ e.timer = d.timer /\ e.a = d.a /\ e.b = d.b /\ e.t = x
        /\ Wd(e) = Wd(d) /\ Spi(e) = Spi(d) /\ Eep(e) = Eep(d) /\ Flash(e) = Flash(d)
    BY <2>3 DEF Core, Wd, Spi, Eep, Flash
  <2> QED BY <1>4, <2>1, <2>2, <2>4
<1> QED BY <1>1, <1>2, <1>3, <1>4

\* A watchdog reset stops every peripheral.
LEMMA ResetWdIs ==
  ASSUME NEW c \in Core
  PROVE  LET d == ResetWd(c)
         IN ~WdRuns(d) /\ d.timer = "off" /\ d.a = 0 /\ d.t = 0 /\ ~d.tran /\ ~d.wrte /\ ~d.empe
            /\ ~d.prge /\ ~d.spmen
  BY DEF ResetWd, Request, Core, WdRuns

\* The watchdog stops everything or starts its next period.
LEMMA WdExecIs ==
  ASSUME NEW c \in Core
  PROVE  LET d == WdExec(c)
         IN /\ WdRuns(d) => WdRuns(c) /\ d.wdl # 0
            /\ \/ /\ Timer(d) = Timer(c) /\ Spi(d) = Spi(c)
                  /\ Eep(d) = Eep(c) /\ Flash(d) = Flash(c)
               \/ /\ ~WdRuns(d) /\ d.timer = "off" /\ d.a = 0 /\ ~d.tran /\ ~d.wrte /\ ~d.empe
                  /\ ~d.prge /\ ~d.spmen
<1> DEFINE b == Raise(c, {"WDT"})
           d == [b EXCEPT !.wdl = c.wdto]
<1>1. /\ b \in Core /\ Timer(b) = Timer(c) /\ Spi(b) = Spi(c) /\ Eep(b) = Eep(c)
      /\ Flash(b) = Flash(c) /\ WdRuns(b) = WdRuns(c)
  <2>1. b \in Core
    BY SourceIs, RaiseType
  <2> QED BY <2>1 DEF Raise, Core, Timer, Spi, Eep, Flash, WdRuns
<1> HIDE DEF b
<1>2. c.wdto \in Cycles /\ c.wdto # 0
  BY Numbers DEF Core
<1>3. /\ d \in Core /\ Timer(d) = Timer(b) /\ Spi(d) = Spi(b) /\ Eep(d) = Eep(b)
      /\ Flash(d) = Flash(b) /\ WdRuns(d) = WdRuns(b) /\ d.wdl = c.wdto
  BY <1>1, <1>2 DEF Core, Timer, Spi, Eep, Flash, WdRuns
<1> HIDE DEF d
<1>4. WdExec(c) = IF ~(WdRuns(c) /\ c.wdl = 0) THEN c ELSE IF c.wdie THEN d ELSE ResetWd(d)
  BY DEF WdExec, d, b
<1>5. CASE ~(WdRuns(c) /\ c.wdl = 0)
  BY <1>4, <1>5
<1>6. CASE WdRuns(c) /\ c.wdl = 0 /\ c.wdie
  BY <1>1, <1>2, <1>3, <1>4, <1>6
<1>7. CASE WdRuns(c) /\ c.wdl = 0 /\ ~c.wdie
  BY <1>3, <1>4, <1>7, ResetWdIs
<1> QED BY <1>5, <1>6, <1>7

\* SPI goes on until its deadline, and leaves the others alone.
LEMMA SpiExecIs ==
  ASSUME NEW c \in Core
  PROVE  LET d == SpiExec(c)
         IN /\ d.tran => c.tran /\ d.spil # 0
            /\ Timer(d) = Timer(c) /\ Wd(d) = Wd(c) /\ Eep(d) = Eep(c) /\ Flash(d) = Flash(c)
            /\ c.tran /\ c.spil # 0 => d = c
<1> DEFINE b == Raise(c, {"SPI"})
           d == [b EXCEPT !.tran = FALSE]
<1>1. b \in Core
  BY SourceIs, RaiseType
<1>2. /\ Timer(b) = Timer(c) /\ Wd(b) = Wd(c) /\ Eep(b) = Eep(c) /\ Flash(b) = Flash(c)
  BY DEF Raise, Core, Timer, Wd, Eep, Flash
<1> HIDE DEF b
<1>3. /\ Timer(d) = Timer(b) /\ Wd(d) = Wd(b) /\ Eep(d) = Eep(b) /\ Flash(d) = Flash(b)
      /\ d.tran = FALSE
  BY <1>1 DEF Core, Timer, Wd, Eep, Flash
<1> HIDE DEF d
<1>4. SpiExec(c) = IF c.tran /\ c.spil = 0 THEN d ELSE c
  BY DEF SpiExec, d, b
<1> QED BY <1>2, <1>3, <1>4

\* So does the EEPROM,
LEMMA EepExecIs ==
  ASSUME NEW c \in Core
  PROVE  LET d == EepExec(c)
         IN /\ d.wrte => c.wrte /\ d.eepl # 0
            /\ EepIdle(c) => EepIdle(d)
            /\ Timer(d) = Timer(c) /\ Wd(d) = Wd(c) /\ Spi(d) = Spi(c) /\ Flash(d) = Flash(c)
<1>1. c.eepl \in Cycles /\ c.wrte \in BOOLEAN
  BY DEF Core
<1> QED BY <1>1 DEF EepExec, EepIdle, Core, Timer, Wd, Spi, Flash

\* and the flash.
LEMMA SpmExecIs ==
  ASSUME NEW c \in Core
  PROVE  LET d == SpmExec(c)
         IN /\ d.prge \/ d.spmen => d.spml # 0
            /\ InWindow(c) => InWindow(d)
            /\ Timer(d) = Timer(c) /\ Wd(d) = Wd(c) /\ Spi(d) = Spi(c) /\ Eep(d) = Eep(c)
<1>1. c.spml \in Cycles /\ c.prge \in BOOLEAN /\ c.spmen \in BOOLEAN
  BY DEF Core
<1> QED BY <1>1 DEF SpmExec, Core, InWindow, Timer, Wd, Spi, Eep

\* A processed event leaves a next one that covers everything.
LEMMA HwExecCovered ==
  ASSUME Eager = FALSE, NEW c \in Core, c.a # TimerMod - 1, InWindow(c), EepIdle(c)
  PROVE  Covered(HwExec(c))
<1> DEFINE d == TimerExec(c)
           e == WdExec(d)
           g == SpiExec(e)
           h == EepExec(g)
           f == SpmExec(h)
           n == Min(Events(c))
           r == HwExec(c)
<1>1. d \in Core /\ e \in Core /\ g \in Core /\ h \in Core /\ f \in Core
  BY TimerExecType, WdExecType, DeviceExecType
<1>2. f = Processed(c)
  BY DEF Processed
<1>3. r = [f EXCEPT !.next = n]
  BY <1>2, HwExecIs
<1>4. /\ d.timer = c.timer /\ d.a = c.a /\ d.b = c.b
      /\ d.t = IF c.timer = "ctc" /\ c.t = MatchA(c) THEN 0 ELSE c.t
      /\ Flash(d) = Flash(c) /\ Eep(d) = Eep(c)
  BY TimerExecIs
<1>5. /\ n \in Cycles /\ (TimerNext(d) # 0 => n # 0) /\ n <= TimerNext(d)
      /\ n <= When(WdRuns(d), e.wdl)
      /\ n <= When(f.tran, f.spil) /\ n <= When(f.wrte \/ f.empe, f.eepl)
      /\ n <= When(f.prge \/ f.spmen, f.spml)
  BY <1>2, NextIs
<1>6. /\ WdRuns(e) => WdRuns(d) /\ e.wdl # 0
      /\ \/ /\ Timer(e) = Timer(d) /\ Spi(e) = Spi(d) /\ Eep(e) = Eep(d) /\ Flash(e) = Flash(d)
         \/ /\ ~WdRuns(e) /\ e.timer = "off" /\ e.a = 0 /\ ~e.tran /\ ~e.wrte /\ ~e.empe
            /\ ~e.prge /\ ~e.spmen
  BY <1>1, WdExecIs
<1>7. (g.tran => g.spil # 0) /\ Timer(g) = Timer(e) /\ Wd(g) = Wd(e) /\ Flash(g) = Flash(e)
      /\ Eep(g) = Eep(e)
  BY <1>1, SpiExecIs
<1>8. /\ h.wrte => h.eepl # 0
      /\ EepIdle(g) => EepIdle(h)
      /\ Timer(h) = Timer(g) /\ Wd(h) = Wd(g) /\ Spi(h) = Spi(g) /\ Flash(h) = Flash(g)
  BY <1>1, EepExecIs
<1>9. /\ f.prge \/ f.spmen => f.spml # 0
      /\ InWindow(h) => InWindow(f)
      /\ Timer(f) = Timer(h) /\ Wd(f) = Wd(h) /\ Spi(f) = Spi(h) /\ Eep(f) = Eep(h)
  BY <1>1, SpmExecIs
<1> HIDE DEF d, e, g, h, f, n, r
<1>10. /\ r.next = n /\ Timer(r) = Timer(f) /\ Wd(r) = Wd(f) /\ Spi(r) = Spi(f)
       /\ Eep(r) = Eep(f) /\ Flash(r) = Flash(f)
  BY <1>1, <1>3 DEF Core, Timer, Wd, Spi, Eep, Flash
<1>11. 0 < r.next
  <2>1. c.a \in 0 .. TimerMod - 1
    BY DEF Core
  <2>2. MatchA(c) # 0 /\ MatchA(d) = MatchA(c)
    BY <1>4, <2>1, UpIs DEF MatchA
  <2>3. ~(d.timer = "ctc" /\ MatchA(d) = d.t)
    BY <1>4, <2>2
  <2>4. TimerNext(d) # 0
    BY <1>1, <2>3, TimerNextIs
  <2> QED BY <1>5, <1>10, <2>4 DEF Cycles
<1>12. TimerCovered(r)
  <2>1. Timer(r) = Timer(e)
    BY <1>7, <1>8, <1>9, <1>10
  <2>2. CASE Timer(e) = Timer(d)
    <3>1. r.timer = d.timer /\ r.t = d.t /\ r.a = d.a /\ r.b = d.b
      BY <2>1, <2>2 DEF Timer
    <3>2. MatchA(r) = MatchA(d) /\ MatchB(r) = MatchB(d)
      BY <3>1 DEF MatchA, MatchB
    <3>3. /\ d.timer # "off" => TimerNext(d) <= TimerMod - d.t
          /\ d.timer = "ctc" /\ d.t < MatchA(d) => TimerNext(d) <= MatchA(d) - d.t
          /\ d.timer = "ctc" /\ d.t < MatchB(d) => TimerNext(d) <= MatchB(d) - d.t
          /\ TimerNext(d) \in Cycles
      BY <1>1, TimerNextIs
    <3>4. /\ d.t \in 0 .. TimerMod - 1 /\ d.a \in 0 .. TimerMod - 1 /\ d.b \in 0 .. TimerMod - 1
      BY <1>1 DEF Core
    <3>5. MatchA(d) \in Int /\ MatchB(d) \in Int
      BY <3>4, UpIs DEF MatchA, MatchB
    <3> DEFINE x == TimerNext(d)
               y == MatchA(d)
               z == MatchB(d)
    <3>6. n \in Nat /\ x \in Nat /\ n <= x
      BY <1>5, <3>3 DEF Cycles
    <3> HIDE DEF x, y, z
    <3>7. /\ d.timer # "off" => n <= TimerMod - d.t
          /\ d.timer = "ctc" /\ d.t < y => n <= y - d.t
          /\ d.timer = "ctc" /\ d.t < z => n <= z - d.t
      BY <3>3, <3>4, <3>5, <3>6, Numbers DEF x, y, z
    <3> QED BY <1>4, <1>10, <3>1, <3>2, <3>7 DEF TimerCovered, y, z
  <2>3. CASE e.timer = "off" /\ e.a = 0
    <3>1. r.timer = "off" /\ r.a = 0
      BY <2>1, <2>3 DEF Timer
    <3> QED BY <3>1, Numbers DEF TimerCovered
  <2> QED BY <1>6, <2>2, <2>3
<1>13. WdCovered(r)
  <2>1. Wd(r) = Wd(e)
    BY <1>7, <1>8, <1>9, <1>10
  <2>2. WdRuns(r) = WdRuns(e) /\ r.wdl = e.wdl
    BY <2>1 DEF Wd, WdRuns
  <2>3. WdRuns(e) => n <= e.wdl
    BY <1>5, <1>6 DEF When
  <2> QED BY <1>10, <2>2, <2>3 DEF WdCovered
<1>14. SpiCovered(r)
  <2>1. f.tran = g.tran /\ f.spil = g.spil /\ r.tran = f.tran /\ r.spil = f.spil
    BY <1>8, <1>9, <1>10 DEF Spi
  <2> QED BY <1>5, <1>7, <1>10, <2>1 DEF SpiCovered, When
<1>15. EepCovered(r)
  <2>1. /\ f.wrte = h.wrte /\ f.eepl = h.eepl /\ r.wrte = f.wrte /\ r.eepl = f.eepl
        /\ r.empe = h.empe
    BY <1>9, <1>10 DEF Eep
  <2>2. EepIdle(g)
    BY <1>4, <1>6, <1>7 DEF Eep, EepIdle
  <2> QED BY <1>5, <1>8, <1>10, <2>1, <2>2 DEF EepCovered, EepIdle, When
<1>16. SpmCovered(r)
  <2>1. r.prge = f.prge /\ r.spmen = f.spmen /\ r.spml = f.spml
    BY <1>10 DEF Flash
  <2>2. (f.prge \/ f.spmen) => n <= f.spml
    BY <1>5, <1>9 DEF When
  <2>3. Flash(h) = Flash(e)
    BY <1>7, <1>8
  <2>4. h.spmen = e.spmen /\ h.prge = e.prge /\ h.spml = e.spml
    BY <2>3 DEF Flash
  <2>5. CASE Flash(e) = Flash(d)
    <3>1. e.spmen = c.spmen /\ e.prge = c.prge /\ e.spml = c.spml
      BY <1>4, <2>5 DEF Flash
    <3>2. InWindow(f)
      BY <1>9, <2>4, <3>1 DEF InWindow
    <3> QED BY <1>10, <2>1, <2>2, <3>2 DEF SpmCovered, InWindow
  <2>6. CASE ~e.prge /\ ~e.spmen
    <3>1. InWindow(f)
      BY <1>9, <2>4, <2>6 DEF InWindow
    <3> QED BY <1>10, <2>1, <2>2, <3>1 DEF SpmCovered, InWindow
  <2> QED BY <1>6, <2>5, <2>6
<1>17. Covered(r)
  BY <1>11, <1>12, <1>13, <1>14, <1>15, <1>16 DEF Covered
<1> QED BY <1>17 DEF r

\* A cycle keeps the deadlines covered.
LEMMA TickCovered ==
  ASSUME Eager = FALSE, NEW c \in Core, Covered(c)
  PROVE  Covered(Tick(c))
<1> DEFINE d == Counted(c)
<1>1. d \in Core /\ Tick(c) = IF d.next = 0 THEN HwExec(d) ELSE d
  BY TickIs
<1>2. /\ c.next \in Cycles /\ c.t \in 0 .. TimerMod - 1 /\ c.wdl \in Cycles
      /\ c.spil \in Cycles /\ c.eepl \in Cycles /\ c.spml \in Cycles
      /\ c.a \in 0 .. TimerMod - 1 /\ c.b \in 0 .. TimerMod - 1 /\ 0 < c.next
  BY DEF Core, Covered
<1>3. /\ d.next = c.next - 1
      /\ d.t = IF c.t = TimerMod - 1 THEN 0 ELSE c.t + 1
      /\ c.wdl # 0 => d.wdl = c.wdl - 1
      /\ c.spil # 0 => d.spil = c.spil - 1
      /\ c.eepl # 0 => d.eepl = c.eepl - 1
      /\ c.spml # 0 => d.spml = c.spml - 1
  <2>1. /\ d.next = (c.next - 1) % ClockMod /\ d.t = (c.t + 1) % TimerMod
        /\ d.wdl = (c.wdl - 1) % ClockMod /\ d.spil = (c.spil - 1) % ClockMod
        /\ d.eepl = (c.eepl - 1) % ClockMod /\ d.spml = (c.spml - 1) % ClockMod
    BY DEF Counted, Core
  <2> HIDE DEF d
  <2>2. (c.next - 1) % ClockMod = c.next - 1
    BY <1>2, DownIs
  <2>3. (c.t + 1) % TimerMod = IF c.t = TimerMod - 1 THEN 0 ELSE c.t + 1
    BY <1>2, UpIs
  <2>4. /\ c.wdl # 0 => (c.wdl - 1) % ClockMod = c.wdl - 1
        /\ c.spil # 0 => (c.spil - 1) % ClockMod = c.spil - 1
        /\ c.eepl # 0 => (c.eepl - 1) % ClockMod = c.eepl - 1
        /\ c.spml # 0 => (c.spml - 1) % ClockMod = c.spml - 1
    BY <1>2, DownIs
  <2> QED BY <2>1, <2>2, <2>3, <2>4
<1>4. /\ d.timer = c.timer /\ d.a = c.a /\ d.b = c.b /\ d.wde = c.wde /\ d.wdie = c.wdie
      /\ d.tran = c.tran /\ d.wrte = c.wrte /\ d.prge = c.prge /\ d.spmen = c.spmen
      /\ d.empe = c.empe
  BY DEF Counted, Core
<1> HIDE DEF d
<1>5. MatchA(d) = MatchA(c) /\ MatchB(d) = MatchB(c) /\ MatchA(c) \in Int /\ MatchB(c) \in Int
  BY <1>2, <1>4, UpIs DEF MatchA, MatchB
<1>6. InWindow(d)
  <2> SUFFICES ASSUME d.spmen, ~d.prge, "reserved" \notin SpmMode PROVE d.spml <= Window
    BY DEF InWindow
  <2>1. c.next <= c.spml /\ c.spml <= Window
    BY <1>4 DEF Covered, SpmCovered, InWindow
  <2> QED BY <1>2, <1>3, <2>1, Numbers DEF Cycles
<1>7. CASE d.next = 0
  <2>1. d.a # TimerMod - 1 /\ EepIdle(d)
    BY <1>4 DEF Covered, TimerCovered, EepCovered, EepIdle
  <2> QED BY <1>1, <1>6, <1>7, <2>1, HwExecCovered
<1>8. CASE d.next # 0
  <2>1. 0 < d.next /\ 1 < c.next
    BY <1>2, <1>3, <1>8 DEF Cycles
  <2>2. WdCovered(d) /\ SpiCovered(d) /\ EepCovered(d)
    BY <1>2, <1>3, <1>4 DEF Covered, WdCovered, SpiCovered, EepCovered, EepIdle, WdRuns,
       Cycles
  <2>3. SpmCovered(d)
    BY <1>2, <1>3, <1>4, <1>6 DEF Covered, SpmCovered, Cycles
  <2>4. TimerCovered(d)
    <3>1. c.timer # "off" => c.next <= TimerMod - c.t
      BY DEF Covered, TimerCovered
    <3>2. c.timer # "off" => d.t = c.t + 1
      BY <1>2, <1>3, <2>1, <3>1, Numbers DEF Cycles
    <3> DEFINE y == MatchA(c)
               z == MatchB(c)
    <3>3. /\ c.timer = "ctc" /\ c.t < y => c.next <= y - c.t
          /\ c.timer = "ctc" /\ c.t < z => c.next <= z - c.t
          /\ c.a # TimerMod - 1
      BY DEF Covered, TimerCovered
    <3> HIDE DEF y, z
    <3>4. y \in Int /\ z \in Int /\ MatchA(d) = y /\ MatchB(d) = z
      BY <1>5 DEF y, z
    <3>5. /\ c.timer # "off" => d.next <= TimerMod - d.t
          /\ c.timer = "ctc" /\ d.t < y => d.next <= y - d.t
          /\ c.timer = "ctc" /\ d.t < z => d.next <= z - d.t
      BY <1>2, <1>3, <3>1, <3>2, <3>3, <3>4, Numbers DEF Cycles
    <3> QED BY <1>4, <3>3, <3>4, <3>5 DEF TimerCovered
  <2>5. Covered(d)
    BY <2>1, <2>2, <2>3, <2>4 DEF Covered
  <2> QED BY <1>1, <1>8, <2>5
<1> QED BY <1>7, <1>8

\* Deadlines stay covered: some cycles.
LEMMA TicksCovered ==
  ASSUME Eager = FALSE, NEW c \in Core, NEW n \in 0 .. 4, Covered(c)
  PROVE  Covered(Ticks(n, c))
<1>1. n \in {0, 1, 2, 3, 4}
  OBVIOUS
<1> DEFINE d1 == Tick(c)
           d2 == Tick(d1)
           d3 == Tick(d2)
           d4 == Tick(d3)
<1>2. Ticks(n, c) \in {c, d1, d2, d3, d4}
  BY <1>1 DEF Ticks
<1>3. d1 \in Core /\ Covered(d1)
  BY TickType, TickCovered
<1> HIDE DEF d1
<1>4. d2 \in Core /\ Covered(d2)
  BY <1>3, TickType, TickCovered
<1> HIDE DEF d2
<1>5. d3 \in Core /\ Covered(d3)
  BY <1>4, TickType, TickCovered
<1> HIDE DEF d3
<1>6. Covered(d4)
  BY <1>5, TickCovered
<1> HIDE DEF d4
<1> QED BY <1>2, <1>3, <1>4, <1>5, <1>6

\* Updates of what no deadline depends on.
LEMMA OtherCovered ==
  ASSUME NEW c \in Core, NEW d \in Core, Covered(c), d.next = c.next,
         Timer(d) = Timer(c), Spi(d) = Spi(c), Eep(d) = Eep(c), Flash(d) = Flash(c),
         WdRuns(d) => WdRuns(c) /\ d.wdl = c.wdl
  PROVE  Covered(d)
<1>1. d.next <= c.next
  BY DEF Core, Cycles
<1>2. TimerCovered(d) /\ SpiCovered(d) /\ EepCovered(d) /\ SpmCovered(d)
  BY <1>1, Sooner DEF Covered
<1>3. WdCovered(d)
  BY DEF Covered, WdCovered
<1> QED BY <1>2, <1>3 DEF Covered

\* Deadlines stay covered: the check for interrupts.
LEMMA ItCheckCovered ==
  ASSUME NEW c \in Core, Covered(c)
  PROVE  Covered(ItCheck(c))
<1> DEFINE d == ItCheck(c)
<1>1. CASE ~c.i \/ Pending(c) = {}
  <2>1. d = [c EXCEPT !.it = FALSE]
    BY <1>1 DEF ItCheck
  <2>2. /\ d.next = c.next /\ Timer(d) = Timer(c) /\ Spi(d) = Spi(c) /\ Eep(d) = Eep(c)
        /\ Flash(d) = Flash(c) /\ WdRuns(d) = WdRuns(c) /\ d.wdl = c.wdl
    BY <2>1 DEF Core, Timer, Spi, Eep, Flash, WdRuns
  <2>3. d \in Core
    BY ItCheckType
  <2> HIDE DEF d
  <2>4. Covered(d)
    BY <2>2, <2>3, OtherCovered
  <2> QED BY <2>4 DEF d
<1>2. CASE ~(~c.i \/ Pending(c) = {})
  <2> DEFINE s == First(Pending(c))
             w == c.wdie /\ ~(s = "WDT" /\ c.wde)
             f == c.flags \ {s}
  <2>1. d = [c EXCEPT !.enter = TRUE, !.flags = f, !.wdie = w]
    BY <1>2 DEF ItCheck
  <2>2. w => c.wdie
    OBVIOUS
  <2> HIDE DEF f, w
  <2>3. /\ d.next = c.next /\ Timer(d) = Timer(c) /\ Spi(d) = Spi(c) /\ Eep(d) = Eep(c)
        /\ Flash(d) = Flash(c) /\ d.wde = c.wde /\ d.wdie = w /\ d.wdl = c.wdl
    BY <2>1 DEF Core, Timer, Spi, Eep, Flash
  <2>4. d \in Core
    BY ItCheckType
  <2> HIDE DEF d
  <2>5. WdRuns(d) => WdRuns(c)
    BY <2>2, <2>3 DEF WdRuns
  <2>6. Covered(d)
    BY <2>3, <2>4, <2>5, OtherCovered
  <2> QED BY <2>6 DEF d
<1> QED BY <1>1, <1>2

\* Deadlines stay covered: the last cycle of an instruction.
LEMMA LastTickCovered ==
  ASSUME Eager = FALSE, NEW c \in Core, Covered(c)
  PROVE  Covered(LastTick(c))
<1> DEFINE d == ItCheck(c)
<1>1. d \in Core /\ Covered(d)
  BY ItCheckType, ItCheckCovered
<1> HIDE DEF d
<1>2. Covered(Tick(d)) /\ Covered(Tick(c))
  BY <1>1, TickCovered
<1> QED BY <1>2 DEF LastTick, d

\* Asked to be processed in so many cycles, or at once.
LEMMA ClampIs ==
  ASSUME NEW c \in Core, NEW left \in Cycles
  PROVE  LET d == Clamp(c, left)
         IN /\ d \in Core /\ d.next <= c.next /\ d.next <= left
            /\ 0 < c.next /\ 0 < left => 0 < d.next
            /\ Timer(d) = Timer(c) /\ Wd(d) = Wd(c) /\ Spi(d) = Spi(c)
            /\ Eep(d) = Eep(c) /\ Flash(d) = Flash(c)
<1> DEFINE d == Clamp(c, left)
<1>1. d \in Core
  BY ClampType
<1>2. /\ d.next = IF c.next > left THEN left ELSE c.next
      /\ Timer(d) = Timer(c) /\ Wd(d) = Wd(c) /\ Spi(d) = Spi(c)
      /\ Eep(d) = Eep(c) /\ Flash(d) = Flash(c)
  BY DEF Clamp, Core, Timer, Wd, Spi, Eep, Flash
<1>3. c.next \in Nat /\ left \in Nat
  BY DEF Core, Cycles
<1> HIDE DEF d
<1>4. d.next <= c.next /\ d.next <= left /\ (0 < c.next /\ 0 < left => 0 < d.next)
  BY <1>2, <1>3
<1> QED BY <1>1, <1>2, <1>4 DEF d

\* Deadlines stay covered: asking for the next event.
LEMMA RequestCovered ==
  ASSUME Eager = FALSE, NEW c \in Core, NEW b \in Core, Covered(b), c.next = b.next,
         c.a # TimerMod - 1,
         Wd(c) = Wd(b), Spi(c) = Spi(b), Eep(c) = Eep(b), Flash(c) = Flash(b)
  PROVE  Covered(Request(c))
<1> DEFINE d == Request(c)
<1>1. /\ d.next = 1 /\ Timer(d) = Timer(c) /\ Wd(d) = Wd(c) /\ Spi(d) = Spi(c)
      /\ Eep(d) = Eep(c) /\ Flash(d) = Flash(c)
  BY DEF Request, Core, Timer, Wd, Spi, Eep, Flash
<1>2. d \in Core
  BY RequestType
<1> HIDE DEF d
<1>3. b.next \in Cycles /\ 0 < b.next
  BY DEF Core, Covered
<1>4. d.next <= b.next
  BY <1>1, <1>3 DEF Cycles
<1>5. WdCovered(d) /\ SpiCovered(d) /\ EepCovered(d) /\ SpmCovered(d)
  BY <1>1, <1>2, <1>4, Sooner DEF Covered
<1>6. TimerCovered(d)
  <2>1. /\ d.t \in 0 .. TimerMod - 1 /\ d.a \in 0 .. TimerMod - 1 /\ d.b \in 0 .. TimerMod - 1
    BY <1>2 DEF Core
  <2> DEFINE y == MatchA(d)
             z == MatchB(d)
  <2>2. y \in Int /\ z \in Int
    BY <2>1, UpIs DEF MatchA, MatchB
  <2>3. d.a = c.a
    BY <1>1 DEF Timer
  <2> HIDE DEF y, z
  <2>4. d.next <= TimerMod - d.t /\ (d.t < y => d.next <= y - d.t)
        /\ (d.t < z => d.next <= z - d.t)
    BY <1>1, <2>1, <2>2, Numbers
  <2> QED BY <2>3, <2>4 DEF TimerCovered, y, z
<1>7. Covered(d)
  BY <1>1, <1>5, <1>6 DEF Covered
<1> QED BY <1>7 DEF d

\* Deadlines stay covered: a flag written.
LEMMA FlagCovered ==
  ASSUME NEW c \in Core, NEW s \in Source, NEW on \in BOOLEAN, Covered(c)
  PROVE  LET d == Flag(c, s, on)
         IN Covered(d) /\ d \in Core /\ Wd(d) = Wd(c) /\ d.tran = c.tran
<1> DEFINE d == Flag(c, s, on)
<1>1. d \in Core
  BY FlagType
<1>2. /\ d.next = c.next /\ Timer(d) = Timer(c) /\ Spi(d) = Spi(c) /\ Eep(d) = Eep(c)
      /\ Flash(d) = Flash(c) /\ Wd(d) = Wd(c)
  BY DEF Flag, Core, Timer, Spi, Eep, Flash, Wd
<1> HIDE DEF d
<1>3. WdRuns(d) = WdRuns(c) /\ d.wdl = c.wdl /\ d.tran = c.tran
  BY <1>2 DEF Wd, WdRuns, Spi
<1>4. Covered(d)
  BY <1>1, <1>2, <1>3, OtherCovered
<1> QED BY <1>1, <1>2, <1>3, <1>4 DEF d
-----------------------------------------------------------------------------
(* Register writes that keep the deadlines covered.                        *)

\* Deadlines stay covered: writes to the registers of the timer.
LEMMA TimerWritesCovered ==
  ASSUME Eager = FALSE, TimerMod - 1 \notin CompareA,
         NEW c \in Core, NEW d \in TimerWrites(c), Covered(c)
  PROVE  Covered(d)
<1>0. c.a # TimerMod - 1
  BY DEF Covered, TimerCovered
<1>1. ASSUME NEW m \in {"off", "normal", "ctc"}
      PROVE  Covered(WriteTccr1b(c, m))
  <2> DEFINE e == [c EXCEPT !.timer = m]
  <2>1. /\ e \in Core /\ e.next = c.next /\ e.a = c.a /\ Wd(e) = Wd(c) /\ Spi(e) = Spi(c)
        /\ Eep(e) = Eep(c) /\ Flash(e) = Flash(c)
    BY DEF Core, Wd, Spi, Eep, Flash
  <2> HIDE DEF e
  <2> QED BY <1>0, <2>1, RequestCovered DEF WriteTccr1b, e
<1>2. ASSUME NEW x \in CompareA
      PROVE  Covered(WriteOcr1a(c, x))
  <2> DEFINE e == [c EXCEPT !.a = x]
  <2>1. x \in 0 .. TimerMod - 1 /\ x # TimerMod - 1
    BY Numbers
  <2>2. /\ e \in Core /\ e.next = c.next /\ e.a = x /\ Wd(e) = Wd(c) /\ Spi(e) = Spi(c)
        /\ Eep(e) = Eep(c) /\ Flash(e) = Flash(c)
    BY <2>1 DEF Core, Wd, Spi, Eep, Flash
  <2> HIDE DEF e
  <2> QED BY <2>1, <2>2, RequestCovered DEF WriteOcr1a, e
<1>3. ASSUME NEW x \in Compare
      PROVE  Covered(WriteOcr1b(c, x))
  <2> DEFINE e == [c EXCEPT !.b = x]
  <2>1. x \in 0 .. TimerMod - 1
    BY Numbers
  <2>2. /\ e \in Core /\ e.next = c.next /\ e.a = c.a /\ Wd(e) = Wd(c) /\ Spi(e) = Spi(c)
        /\ Eep(e) = Eep(c) /\ Flash(e) = Flash(c)
    BY <2>1 DEF Core, Wd, Spi, Eep, Flash
  <2> HIDE DEF e
  <2> QED BY <1>0, <2>2, RequestCovered DEF WriteOcr1b, e
<1>4. ASSUME NEW x \in Compare
      PROVE  Covered(WriteTcnt1(c, x))
  <2> DEFINE e == [c EXCEPT !.t = x]
  <2>1. x \in 0 .. TimerMod - 1
    BY Numbers
  <2>2. /\ e \in Core /\ e.next = c.next /\ e.a = c.a /\ Wd(e) = Wd(c) /\ Spi(e) = Spi(c)
        /\ Eep(e) = Eep(c) /\ Flash(e) = Flash(c)
    BY <2>1 DEF Core, Wd, Spi, Eep, Flash
  <2> HIDE DEF e
  <2> QED BY <1>0, <2>2, RequestCovered DEF WriteTcnt1, e
<1>5. ASSUME NEW s \in Masks
      PROVE  Covered(WriteTifr1(c, s)) /\ Covered(WriteTimsk1(c, s))
  <2> DEFINE e == WriteTifr1(c, s)
             f == WriteTimsk1(c, s)
  <2>1. e \in TimerWrites(c) /\ f \in TimerWrites(c)
    BY DEF TimerWrites
  <2>2. e \in Core /\ f \in Core
    BY <2>1, TimerWritesType
  <2>3. /\ e.next = c.next /\ Timer(e) = Timer(c) /\ Spi(e) = Spi(c) /\ Eep(e) = Eep(c)
        /\ Flash(e) = Flash(c) /\ WdRuns(e) = WdRuns(c) /\ e.wdl = c.wdl
    BY DEF WriteTifr1, Core, Timer, Spi, Eep, Flash, WdRuns
  <2>4. /\ f.next = c.next /\ Timer(f) = Timer(c) /\ Spi(f) = Spi(c) /\ Eep(f) = Eep(c)
        /\ Flash(f) = Flash(c) /\ WdRuns(f) = WdRuns(c) /\ f.wdl = c.wdl
    BY DEF WriteTimsk1, Core, Timer, Spi, Eep, Flash, WdRuns
  <2> HIDE DEF e, f
  <2> QED BY <2>2, <2>3, <2>4, OtherCovered DEF e, f
<1> QED BY <1>1, <1>2, <1>3, <1>4, <1>5 DEF TimerWrites

\* Deadlines stay covered: writes to the registers of SPI.
LEMMA SpiWritesCovered ==
  ASSUME NEW c \in Core, NEW d \in SpiWrites(c), Covered(c)
  PROVE  Covered(d)
<1>1. ASSUME NEW on \in BOOLEAN
      PROVE  Covered(WriteSpsr(c, on))
  BY SourceIs, FlagCovered DEF WriteSpsr
<1>2. ASSUME NEW x \in BOOLEAN, NEW y \in BOOLEAN
      PROVE  Covered(WriteSpcr(c, x, y))
  <2> DEFINE e == WriteSpcr(c, x, y)
  <2>1. e \in Core
    BY ZenonT(60) DEF WriteSpcr, Core
  <2>2. /\ e.next = c.next /\ Timer(e) = Timer(c) /\ Spi(e) = Spi(c) /\ Eep(e) = Eep(c)
        /\ Flash(e) = Flash(c) /\ WdRuns(e) = WdRuns(c) /\ e.wdl = c.wdl
    BY DEF WriteSpcr, Core, Timer, Spi, Eep, Flash, WdRuns
  <2> HIDE DEF e
  <2> QED BY <2>1, <2>2, OtherCovered DEF e
<1>3. ASSUME NEW time \in SpiTime
      PROVE  Covered(WriteSpdr(c, time))
  <2> DEFINE b == Flag(c, "SPI", FALSE)
             e == [b EXCEPT !.tran = TRUE, !.spil = time]
             f == Clamp(e, time)
  <2>1. b \in Core /\ Covered(b)
    BY SourceIs, FlagCovered
  <2>2. time \in Cycles /\ 0 < time
    BY Numbers DEF Cycles
  <2> HIDE DEF b
  <2>3. /\ e \in Core /\ e.next = b.next /\ Timer(e) = Timer(b) /\ Wd(e) = Wd(b)
        /\ Eep(e) = Eep(b) /\ Flash(e) = Flash(b) /\ e.spil = time
    BY <2>1, <2>2 DEF Core, Timer, Wd, Eep, Flash
  <2> HIDE DEF e
  <2>4. /\ f \in Core /\ f.next <= e.next /\ f.next <= time
        /\ (0 < e.next /\ 0 < time => 0 < f.next)
        /\ Timer(f) = Timer(e) /\ Wd(f) = Wd(e) /\ Spi(f) = Spi(e)
        /\ Eep(f) = Eep(e) /\ Flash(f) = Flash(e)
    BY <2>2, <2>3, ClampIs
  <2> HIDE DEF f
  <2>5. TimerCovered(f) /\ WdCovered(f) /\ EepCovered(f) /\ SpmCovered(f)
    BY <2>1, <2>3, <2>4, Sooner DEF Covered
  <2>6. SpiCovered(f)
    BY <2>3, <2>4 DEF Spi, SpiCovered
  <2>7. Covered(f)
    BY <2>1, <2>2, <2>3, <2>4, <2>5, <2>6 DEF Covered
  <2> QED BY <2>1, <2>7 DEF WriteSpdr, b, e, f
<1> QED BY <1>1, <1>2, <1>3 DEF SpiWrites

\* Deadlines stay covered: the write of WDTCSR.
LEMMA WriteWdtcsrCovered ==
  ASSUME NEW c \in Core, NEW wde \in BOOLEAN, NEW wdie \in BOOLEAN, NEW wdif \in BOOLEAN,
         NEW t \in WdTime, Covered(c)
  PROVE  Covered(WriteWdtcsr(c, wde, wdie, wdif, t))
<1> DEFINE b == Flag(c, "WDT", wdif)
           d == [b EXCEPT !.wde = wde, !.wdie = wdie, !.wdto = t]
           e == [d EXCEPT !.wdl = c.wdto]
           f == Clamp(e, c.wdto)
<1>1. b \in Core /\ Covered(b) /\ Wd(b) = Wd(c)
  BY SourceIs, FlagCovered
<1> HIDE DEF b
<1>2. /\ d \in Core /\ d.next = b.next /\ Timer(d) = Timer(b) /\ Spi(d) = Spi(b)
      /\ Eep(d) = Eep(b) /\ Flash(d) = Flash(b) /\ d.wdl = b.wdl
      /\ WdRuns(d) <=> wde \/ wdie
  BY <1>1 DEF Core, Timer, Spi, Eep, Flash, WdRuns
<1> HIDE DEF d
<1>3. c.wdto \in Cycles /\ c.wdto # 0
  BY Numbers DEF Core
<1>4. 0 < c.wdto
  BY <1>3 DEF Cycles
<1>5. /\ e \in Core /\ e.next = d.next /\ Timer(e) = Timer(d) /\ Spi(e) = Spi(d)
      /\ Eep(e) = Eep(d) /\ Flash(e) = Flash(d) /\ e.wdl = c.wdto
  BY <1>2, <1>3 DEF Core, Timer, Spi, Eep, Flash
<1> HIDE DEF e
<1>6. /\ f \in Core /\ f.next <= e.next /\ f.next <= c.wdto
      /\ (0 < e.next /\ 0 < c.wdto => 0 < f.next)
      /\ Timer(f) = Timer(e) /\ Wd(f) = Wd(e) /\ Spi(f) = Spi(e)
      /\ Eep(f) = Eep(e) /\ Flash(f) = Flash(e)
  BY <1>3, <1>5, ClampIs
<1> HIDE DEF f
<1>7. WriteWdtcsr(c, wde, wdie, wdif, t) = IF ~WdRuns(c) /\ (wde \/ wdie) THEN f ELSE d
  BY DEF WriteWdtcsr, b, d, e, f
<1>8. Covered(f)
  <2>1. TimerCovered(f) /\ SpiCovered(f) /\ EepCovered(f) /\ SpmCovered(f)
    BY <1>1, <1>2, <1>5, <1>6, Sooner DEF Covered
  <2>2. WdCovered(f)
    BY <1>5, <1>6 DEF Wd, WdCovered
  <2> QED BY <1>1, <1>2, <1>4, <1>5, <1>6, <2>1, <2>2 DEF Covered
<1>9. ASSUME ~(~WdRuns(c) /\ (wde \/ wdie)) PROVE Covered(d)
  <2>1. WdRuns(d) => WdRuns(b)
    BY <1>1, <1>2, <1>9 DEF Wd, WdRuns
  <2> QED BY <1>1, <1>2, <2>1, OtherCovered
<1> QED BY <1>7, <1>8, <1>9

\* The cycles of an EEPROM access, of an interrupt entry or of RETI.
LEMMA SomeTicks ==
  ASSUME Eager = FALSE, NEW c \in Core, Covered(c)
  PROVE  /\ Ticks(2, c) \in Core /\ Covered(Ticks(2, c))
         /\ Ticks(3, c) \in Core /\ Covered(Ticks(3, c))
         /\ Ticks(4, c) \in Core /\ Covered(Ticks(4, c))
<1>1. 2 \in 0 .. 4 /\ 3 \in 0 .. 4 /\ 4 \in 0 .. 4
  OBVIOUS
<1>2. \A n \in 0 .. 4 : Ticks(n, c) \in Core
  BY TicksType
<1>3. \A n \in 0 .. 4 : Covered(Ticks(n, c))
  BY TicksCovered
<1> QED BY <1>1, <1>2, <1>3

\* Deadlines stay covered: the write of EECR.
LEMMA WriteEecrCovered ==
  ASSUME Eager = FALSE, "eep" \in Unit,
         NEW c \in Core, NEW empe \in BOOLEAN, NEW eepe \in BOOLEAN, NEW eere \in BOOLEAN, NEW time \in EepTime, Covered(c)
  PROVE  Covered(WriteEecr(c, empe, eepe, eere, time))
<1> DEFINE start == c.empe /\ eepe /\ ~c.eepe
           b == [c EXCEPT !.eepl = Window]
           bb == Clamp(b, Window)
           d == IF c.empe THEN bb ELSE c
           x == [d EXCEPT !.wrte = TRUE, !.eepl = time]
           y == Clamp(x, time)
           e == IF start THEN Ticks(2, y) ELSE d
           f == IF eere /\ ~e.wrte THEN Ticks(4, e) ELSE e
           g == [f EXCEPT !.eepe = c.empe /\ eepe, !.empe = empe /\ ~start]
<1>1. WriteEecr(c, empe, eepe, eere, time) = g
  BY DEF WriteEecr
<1>2. time \in Cycles /\ 0 < time /\ Window \in Cycles /\ 0 < Window
  BY Numbers DEF Cycles
<1>3. /\ b \in Core /\ b.next = c.next /\ Timer(b) = Timer(c) /\ Wd(b) = Wd(c)
      /\ Spi(b) = Spi(c) /\ Flash(b) = Flash(c) /\ b.eepl = Window
  BY <1>2 DEF Core, Timer, Wd, Spi, Flash
<1> HIDE DEF b
<1>4. /\ bb \in Core /\ bb.next <= b.next /\ bb.next <= Window
      /\ (0 < b.next /\ 0 < Window => 0 < bb.next)
      /\ Timer(bb) = Timer(b) /\ Wd(bb) = Wd(b) /\ Spi(bb) = Spi(b)
      /\ Eep(bb) = Eep(b) /\ Flash(bb) = Flash(b)
  BY <1>2, <1>3, ClampIs
<1> HIDE DEF bb
<1>5. Covered(bb)
  <2>1. TimerCovered(bb) /\ WdCovered(bb) /\ SpiCovered(bb) /\ SpmCovered(bb)
    BY <1>3, <1>4, Sooner DEF Covered
  <2>2. EepCovered(bb)
    BY <1>3, <1>4 DEF Eep, EepCovered, EepIdle
  <2> QED BY <1>2, <1>3, <1>4, <2>1, <2>2 DEF Covered
<1>6. d \in Core /\ Covered(d)
  BY <1>4, <1>5
<1> HIDE DEF d
<1>7. /\ x \in Core /\ x.next = d.next /\ Timer(x) = Timer(d) /\ Wd(x) = Wd(d)
      /\ Spi(x) = Spi(d) /\ Flash(x) = Flash(d) /\ x.eepl = time
  BY <1>2, <1>6 DEF Core, Timer, Wd, Spi, Flash
<1> HIDE DEF x
<1>8. /\ y \in Core /\ y.next <= x.next /\ y.next <= time
      /\ (0 < x.next /\ 0 < time => 0 < y.next)
      /\ Timer(y) = Timer(x) /\ Wd(y) = Wd(x) /\ Spi(y) = Spi(x)
      /\ Eep(y) = Eep(x) /\ Flash(y) = Flash(x)
  BY <1>2, <1>7, ClampIs
<1> HIDE DEF y
<1>9. Covered(y)
  <2>1. TimerCovered(y) /\ WdCovered(y) /\ SpiCovered(y) /\ SpmCovered(y)
    BY <1>6, <1>7, <1>8, Sooner DEF Covered
  <2>2. EepCovered(y)
    BY <1>7, <1>8 DEF Eep, EepCovered, EepIdle
  <2> QED BY <1>2, <1>6, <1>7, <1>8, <2>1, <2>2 DEF Covered
<1>10. e \in Core /\ Covered(e)
  <2>1. Ticks(2, y) \in Core /\ Covered(Ticks(2, y))
    BY <1>8, <1>9, SomeTicks
  <2> QED BY <1>6, <2>1
<1> HIDE DEF e
<1>11. f \in Core /\ Covered(f)
  <2>1. Ticks(4, e) \in Core /\ Covered(Ticks(4, e))
    BY <1>10, SomeTicks
  <2> QED BY <1>10, <2>1
<1> HIDE DEF f
<1> DEFINE u == c.empe /\ eepe
           v == empe /\ ~start
<1>12. u \in BOOLEAN /\ v \in BOOLEAN /\ g = [f EXCEPT !.eepe = u, !.empe = v]
  OBVIOUS
<1> HIDE DEF u, v, g
<1>13. /\ g \in Core /\ g.next = f.next /\ Timer(g) = Timer(f) /\ Wd(g) = Wd(f)
       /\ Spi(g) = Spi(f) /\ Flash(g) = Flash(f) /\ g.wrte = f.wrte /\ g.eepl = f.eepl
  BY ZenonT(60), <1>11, <1>12 DEF Core, Timer, Wd, Spi, Flash
<1>14. g.next <= f.next
  BY <1>11, <1>13 DEF Core, Cycles
<1>15. TimerCovered(g) /\ WdCovered(g) /\ SpiCovered(g) /\ SpmCovered(g)
  BY <1>11, <1>13, <1>14, Sooner DEF Covered
<1>16. EepCovered(g)
  BY <1>11, <1>13 DEF Covered, EepCovered, EepIdle
<1> QED BY <1>1, <1>11, <1>13, <1>15, <1>16 DEF Covered

\* Deadlines stay covered: the write of SPMCSR.
LEMMA WriteSpmcsrCovered ==
  ASSUME NEW c \in Core, NEW spmen \in BOOLEAN, NEW m \in SpmMode, Covered(c)
  PROVE  Covered(WriteSpmcsr(c, spmen, m))
<1> DEFINE d == [c EXCEPT !.spmen = spmen]
           e == [d EXCEPT !.mode = m, !.spml = Window]
           f == Clamp(e, Window)
           starts == spmen /\ ~c.spmen /\ ~c.prge
<1>1. WriteSpmcsr(c, spmen, m) = IF ~starts \/ m = "reserved" THEN d ELSE f
  BY DEF WriteSpmcsr
<1>2. /\ d \in Core /\ d.next = c.next /\ Timer(d) = Timer(c) /\ Wd(d) = Wd(c)
      /\ Spi(d) = Spi(c) /\ Eep(d) = Eep(c)
      /\ d.prge = c.prge /\ d.spmen = spmen /\ d.spml = c.spml
  BY DEF Core, Timer, Wd, Spi, Eep
<1> HIDE DEF d
<1>3. Window \in Cycles /\ 0 < Window
  BY Numbers DEF Cycles
<1>4. /\ e \in Core /\ e.next = d.next /\ Timer(e) = Timer(d) /\ Wd(e) = Wd(d)
      /\ Spi(e) = Spi(d) /\ Eep(e) = Eep(d)
      /\ e.prge = d.prge /\ e.spmen = d.spmen /\ e.spml = Window
  BY <1>2, <1>3 DEF Core, Timer, Wd, Spi, Eep
<1> HIDE DEF e
<1>5. /\ f \in Core /\ f.next <= e.next /\ f.next <= Window
      /\ (0 < e.next /\ 0 < Window => 0 < f.next)
      /\ Timer(f) = Timer(e) /\ Wd(f) = Wd(e) /\ Spi(f) = Spi(e)
      /\ Eep(f) = Eep(e) /\ Flash(f) = Flash(e)
  BY <1>3, <1>4, ClampIs
<1> HIDE DEF f
<1>6. Covered(f)
  <2>1. TimerCovered(f) /\ WdCovered(f) /\ SpiCovered(f) /\ EepCovered(f)
    BY <1>2, <1>4, <1>5, Sooner DEF Covered
  <2>2. f.spml = Window
    BY <1>4, <1>5 DEF Flash
  <2>3. SpmCovered(f)
    BY <1>3, <1>5, <2>2 DEF SpmCovered, InWindow, Cycles
  <2> QED BY <1>2, <1>3, <1>4, <1>5, <2>1, <2>3 DEF Covered
<1>7. d.next <= c.next
  BY <1>2 DEF Core, Cycles
<1>8. ASSUME ~starts \/ m = "reserved" PROVE Covered(d)
  <2>1. TimerCovered(d) /\ WdCovered(d) /\ SpiCovered(d) /\ EepCovered(d)
    BY <1>2, <1>7, Sooner DEF Covered
  <2>2. SpmCovered(d)
    BY <1>2, <1>8 DEF Covered, SpmCovered, InWindow
  <2> QED BY <1>2, <2>1, <2>2 DEF Covered
<1> QED BY <1>1, <1>6, <1>8

\* Deadlines stay covered: the start of flash programming.
LEMMA SpmStartCovered ==
  ASSUME NEW c \in Core, Covered(c)
  PROVE  Covered(SpmStart(c))
<1> DEFINE d == [c EXCEPT !.prge = TRUE, !.spml = SpmTime]
           e == [c EXCEPT !.spmen = FALSE]
           f == Clamp(d, SpmTime)
<1>1. SpmTime \in Cycles /\ 0 < SpmTime
  BY Numbers DEF Cycles
<1>2. /\ d \in Core /\ d.next = c.next /\ Timer(d) = Timer(c) /\ Wd(d) = Wd(c)
      /\ Spi(d) = Spi(c) /\ Eep(d) = Eep(c) /\ d.prge = TRUE /\ d.spml = SpmTime
  BY <1>1 DEF Core, Timer, Wd, Spi, Eep
<1>3. /\ e \in Core /\ e.next = c.next /\ Timer(e) = Timer(c) /\ Wd(e) = Wd(c)
      /\ Spi(e) = Spi(c) /\ Eep(e) = Eep(c) /\ e.spmen = FALSE
      /\ e.prge = c.prge /\ e.spml = c.spml
  BY DEF Core, Timer, Wd, Spi, Eep
<1> HIDE DEF d
<1>4. /\ f \in Core /\ f.next <= d.next /\ f.next <= SpmTime
      /\ (0 < d.next /\ 0 < SpmTime => 0 < f.next)
      /\ Timer(f) = Timer(d) /\ Wd(f) = Wd(d) /\ Spi(f) = Spi(d)
      /\ Eep(f) = Eep(d) /\ Flash(f) = Flash(d)
  BY <1>1, <1>2, ClampIs
<1>5. SpmStart(c) \in {c, e, f}
  <2>1. c.spmen \in BOOLEAN /\ c.prge \in BOOLEAN
    BY DEF Core
  <2> QED BY <2>1 DEF SpmStart, d
<1> HIDE DEF e, f
<1>6. Covered(f)
  <2>1. TimerCovered(f) /\ WdCovered(f) /\ SpiCovered(f) /\ EepCovered(f)
    BY <1>2, <1>4, Sooner DEF Covered
  <2>2. f.prge /\ f.spml = SpmTime
    BY <1>2, <1>4 DEF Flash
  <2>3. SpmCovered(f)
    BY <1>4, <2>2 DEF SpmCovered, InWindow
  <2> QED BY <1>1, <1>2, <1>4, <2>1, <2>3 DEF Covered
<1>7. e.next <= c.next
  BY <1>3 DEF Core, Cycles
<1>8. Covered(e)
  <2>1. TimerCovered(e) /\ WdCovered(e) /\ SpiCovered(e) /\ EepCovered(e)
    BY <1>3, <1>7, Sooner DEF Covered
  <2>2. SpmCovered(e)
    BY <1>3 DEF Covered, SpmCovered, InWindow
  <2> QED BY <1>3, <2>1, <2>2 DEF Covered
<1> QED BY <1>5, <1>6, <1>8

\* Deadlines stay covered: the WDR instruction.
LEMMA WdrCovered ==
  ASSUME NEW c \in Core, Covered(c)
  PROVE  LET d == Clamp([c EXCEPT !.wdl = c.wdto], c.wdto)
         IN d \in Core /\ Covered(d)
<1> DEFINE b == [c EXCEPT !.wdl = c.wdto]
           d == Clamp(b, c.wdto)
<1>1. c.wdto \in Cycles /\ c.wdto # 0
  BY Numbers DEF Core
<1>2. 0 < c.wdto
  BY <1>1 DEF Cycles
<1>3. /\ b \in Core /\ b.next = c.next /\ Timer(b) = Timer(c) /\ Spi(b) = Spi(c)
      /\ Eep(b) = Eep(c) /\ Flash(b) = Flash(c) /\ b.wdl = c.wdto
  BY <1>1 DEF Core, Timer, Spi, Eep, Flash
<1> HIDE DEF b
<1>4. /\ d \in Core /\ d.next <= b.next /\ d.next <= c.wdto
      /\ (0 < b.next /\ 0 < c.wdto => 0 < d.next)
      /\ Timer(d) = Timer(b) /\ Wd(d) = Wd(b) /\ Spi(d) = Spi(b)
      /\ Eep(d) = Eep(b) /\ Flash(d) = Flash(b)
  BY <1>1, <1>3, ClampIs
<1> HIDE DEF d
<1>5. TimerCovered(d) /\ SpiCovered(d) /\ EepCovered(d) /\ SpmCovered(d)
  BY <1>3, <1>4, Sooner DEF Covered
<1>6. WdCovered(d)
  BY <1>3, <1>4 DEF Wd, WdCovered
<1>7. Covered(d)
  BY <1>2, <1>3, <1>4, <1>5, <1>6 DEF Covered
<1> QED BY <1>4, <1>7 DEF d, b

\* Registers the timing of no peripheral depends on.
LEMMA SregCovered ==
  ASSUME NEW c \in Core, Covered(c), NEW d \in Core,
         \E i, it, enter : d = [c EXCEPT !.i = i, !.it = it, !.enter = enter]
  PROVE  Covered(d)
<1>1. /\ d.next = c.next /\ Timer(d) = Timer(c) /\ Spi(d) = Spi(c) /\ Eep(d) = Eep(c)
      /\ Flash(d) = Flash(c) /\ WdRuns(d) = WdRuns(c) /\ d.wdl = c.wdl
  BY DEF Core, Timer, Spi, Eep, Flash, WdRuns
<1> QED BY <1>1, OtherCovered

\* Deadlines stay covered: the write of the status register.
LEMMA WriteSregCovered ==
  ASSUME NEW c \in Core, NEW i \in BOOLEAN, Covered(c)
  PROVE  Covered(WriteSreg(c, i))
<1> DEFINE d == WriteSreg(c, i)
<1>1. d \in Core
  BY WriteSregType
<1>2. \E x, it, enter : d = [c EXCEPT !.i = x, !.it = it, !.enter = enter]
  <2> DEFINE w == c.it \/ (i /\ ~c.i)
  <2>1. d = [c EXCEPT !.i = i, !.it = w, !.enter = c.enter]
    BY DEF Core, WriteSreg
  <2> HIDE DEF w, d
  <2> WITNESS i, w, c.enter
  <2> QED BY <2>1
<1> HIDE DEF d
<1> QED BY <1>1, <1>2, SregCovered DEF d
-----------------------------------------------------------------------------
\* Every instruction ends with its deadlines covered.
LEMMA NextCovered ==
  ASSUME Eager = FALSE, "timer" \in Unit => TimerMod - 1 \notin CompareA,
         hw \in Core, Covered(hw), Next
  PROVE  hw' \in Core /\ Covered(hw')
<1>1. ASSUME NEW a, NEW c \in Core, Covered(c), Ends(a, c)
      PROVE  hw' \in Core /\ Covered(hw')
  <2> DEFINE b == [c EXCEPT !.enter = FALSE, !.i = FALSE]
  <2>1. b \in Core
    BY DEF Core
  <2>2. \E i, it, enter : b = [c EXCEPT !.i = i, !.it = it, !.enter = enter]
    <3>1. b = [c EXCEPT !.i = FALSE, !.it = c.it, !.enter = FALSE]
      BY <1>1 DEF Core
    <3> HIDE DEF b
    <3> QED BY <3>1
  <2> HIDE DEF b
  <2>3. Covered(b)
    BY <1>1, <2>1, <2>2, SregCovered
  <2>4. Ticks(3, b) \in Core /\ Covered(Ticks(3, b))
    BY <2>1, <2>3, SomeTicks
  <2>5. hw' = IF c.enter THEN Ticks(3, b) ELSE c
    BY <1>1 DEF Ends, EndInstruction, Interrupt, b
  <2> QED BY <1>1, <2>4, <2>5
<1>2. ASSUME NEW n \in Stall
      PROVE  Last(n) \in Core /\ Covered(Last(n))
  <2>1. n \in 0 .. 4
    BY AvrHwAssumption DEF AvrHwAssumption
  <2>2. Ticks(n, hw) \in Core /\ Covered(Ticks(n, hw))
    BY <2>1, TicksType, TicksCovered
  <2> QED BY <2>2, LastTickType, LastTickCovered DEF Last
<1>3. ASSUME NEW c \in Core, Covered(c), Runs(LastTick(c))
      PROVE  hw' \in Core /\ Covered(hw')
  <2>1. LastTick(c) \in Core /\ Covered(LastTick(c))
    BY <1>3, LastTickType, LastTickCovered
  <2> QED BY <1>1, <1>3, <2>1 DEF Runs
<1>4. ASSUME NEW c \in Core, Covered(c), NEW i \in BOOLEAN
      PROVE  WriteSreg(c, i) \in Core /\ Covered(WriteSreg(c, i))
  BY <1>4, WriteSregType, WriteSregCovered
<1>5. CASE Plain
  <2>1. PICK n \in Stall : Runs(Last(n))
    BY <1>5 DEF Plain
  <2> QED BY <1>1, <1>2, <2>1 DEF Runs
<1>6. CASE SetI \/ ClearI
  <2>1. PICK i \in BOOLEAN : Runs(LastTick(WriteSreg(hw, i)))
    BY <1>6 DEF SetI, ClearI
  <2> QED BY <1>3, <1>4, <2>1
<1>7. CASE Reti
  <2> DEFINE d == [hw EXCEPT !.i = TRUE, !.it = TRUE]
  <2>1. d \in Core
    BY DEF Core
  <2>2. \E i, it, enter : d = [hw EXCEPT !.i = i, !.it = it, !.enter = enter]
    <3>1. d = [hw EXCEPT !.i = TRUE, !.it = TRUE, !.enter = hw.enter]
      BY DEF Core
    <3> QED BY <3>1
  <2> HIDE DEF d
  <2>3. Covered(d)
    BY <2>1, <2>2, SregCovered
  <2>4. Ticks(3, d) \in Core /\ Covered(Ticks(3, d))
    BY <2>1, <2>3, SomeTicks
  <2> QED BY <1>3, <1>7, <2>4 DEF Reti, d
<1>8. CASE OutSreg
  <2>1. PICK n \in Stall, i \in BOOLEAN : Ends(Last(n), WriteSreg(Last(n), i))
    BY <1>8 DEF OutSreg
  <2> QED BY <1>1, <1>2, <1>4, <2>1
<1>9. CASE OutTimer
  <2>1. PICK n \in Stall : \E d \in TimerWrites(Last(n)) : Ends(Last(n), d)
    BY <1>9 DEF OutTimer, Out
  <2>2. PICK d \in TimerWrites(Last(n)) : Ends(Last(n), d)
    BY <2>1
  <2>3. TimerMod - 1 \notin CompareA
    BY <1>9 DEF OutTimer, Out
  <2> QED BY <1>1, <1>2, <2>2, <2>3, TimerWritesType, TimerWritesCovered
<1>10. CASE OutSpi
  <2>1. PICK n \in Stall : \E d \in SpiWrites(Last(n)) : Ends(Last(n), d)
    BY <1>10 DEF OutSpi, Out
  <2>2. PICK d \in SpiWrites(Last(n)) : Ends(Last(n), d)
    BY <2>1
  <2> QED BY <1>1, <1>2, <2>2, SpiWritesType, SpiWritesCovered
<1>11. CASE OutUcsr0a
  <2>1. PICK n \in Stall, on \in BOOLEAN : Ends(Last(n), WriteUcsr0a(Last(n), on))
    BY <1>11 DEF OutUcsr0a, Out
  <2>2. "USART" \in Source
    BY SourceIs
  <2> QED BY <1>1, <1>2, <2>1, <2>2, FlagCovered DEF WriteUcsr0a
<1>12. CASE OutWdtcsr
  <2>1. PICK n \in Stall, wde \in BOOLEAN, wdie \in BOOLEAN, wdif \in BOOLEAN, t \in WdTime :
          Ends(Last(n), WriteWdtcsr(Last(n), wde, wdie, wdif, t))
    BY <1>12 DEF OutWdtcsr, Out
  <2> QED BY <1>1, <1>2, <2>1, WriteWdtcsrType, WriteWdtcsrCovered
<1>13. CASE OutEecr
  <2>1. PICK n \in Stall, empe \in BOOLEAN, eepe \in BOOLEAN, eere \in BOOLEAN, t \in EepTime :
          Ends(Last(n), WriteEecr(Last(n), empe, eepe, eere, t))
    BY <1>13 DEF OutEecr, Out
  <2>2. "eep" \in Unit
    BY <1>13 DEF OutEecr, Out
  <2> QED BY <1>1, <1>2, <2>1, <2>2, WriteEecrType, WriteEecrCovered
<1>14. CASE OutSpmcsr
  <2>1. PICK n \in Stall, spmen \in BOOLEAN, m \in SpmMode :
          Ends(Last(n), WriteSpmcsr(Last(n), spmen, m))
    BY <1>14 DEF OutSpmcsr, Out
  <2> QED BY <1>1, <1>2, <2>1, WriteSpmcsrType, WriteSpmcsrCovered
<1>15. CASE Wdr
  BY <1>3, <1>15, WdrCovered DEF Wdr
<1>16. CASE Spm
  <2>1. SpmStart(hw) \in Core /\ Covered(SpmStart(hw))
    BY SpmStartType, SpmStartCovered
  <2>2. Ticks(3, SpmStart(hw)) \in Core /\ Covered(Ticks(3, SpmStart(hw)))
    BY <2>1, SomeTicks
  <2> QED BY <1>3, <1>16, <2>2 DEF Spm
<1> QED BY <1>5, <1>6, <1>7, <1>8, <1>9, <1>10, <1>11, <1>12, <1>13, <1>14, <1>15, <1>16
        DEF Next

\* The next event covers every deadline: an invariant with the types.
LEMMA CoveredInvariance ==
  ASSUME Eager = FALSE, "timer" \in Unit => TimerMod - 1 \notin CompareA
  PROVE  Spec => [](hw \in Core /\ Covered(hw))
<1>1. Init => hw \in Core /\ Covered(hw)
  <2> SUFFICES ASSUME Init PROVE hw \in Core /\ Covered(hw)
    OBVIOUS
  <2>1. hw \in Core
    BY InitInv, HardwareIsCore DEF TypeOK
  <2>2. Covered(hw)
    BY Numbers DEF Init, Covered, TimerCovered, WdCovered, WdRuns, SpiCovered, EepCovered,
       EepIdle, SpmCovered, InWindow
  <2> QED BY <2>1, <2>2
<1>2. hw \in Core /\ Covered(hw) /\ [Next]_vars => (hw \in Core /\ Covered(hw))'
  <2> SUFFICES ASSUME hw \in Core, Covered(hw), [Next]_vars
               PROVE  hw' \in Core /\ Covered(hw')
    BY DEF Core, Covered, TimerCovered, WdCovered, WdRuns, SpiCovered, EepCovered,
       EepIdle, SpmCovered, InWindow, MatchA, MatchB, Cycles, TimerSource, Source, Priority
  <2> QED BY NextCovered DEF vars
<1> QED BY <1>1, <1>2, PTL DEF Spec

\* No deadline is passed over: while the peripherals are processed at the next
\* event only, and OCR1A is never set to the timer's maximum, that event comes no
\* later than the first thing any of them waits for.
THEOREM DeadlinesCovered ==
  ASSUME Eager = FALSE, "timer" \in Unit => TimerMod - 1 \notin CompareA
  PROVE  Spec => []EventsCovered
<1>1. hw \in Core /\ Covered(hw) => EventsCovered
  BY DEF Covered, TimerCovered, WdCovered, SpiCovered, EepCovered, SpmCovered, InWindow,
     EventsCovered, Due
<1>2. Spec => [](hw \in Core /\ Covered(hw))
  BY CoveredInvariance
<1> QED BY <1>1, <1>2, PTL
-----------------------------------------------------------------------------
(***************************************************************************)
(* The schedule is unobservable. Each operation of the core that processes *)
(* its peripherals on every cycle does to a state whose next event is      *)
(* hidden what the operation does to the state; for a cycle, because       *)
(* nothing happens before the next event of a covered state.               *)
(***************************************************************************)
H(c) == [c EXCEPT !.next = 0]

\* The same with and without the cached event: raising a flag.
LEMMA RaiseH ==
  ASSUME NEW c \in Core, NEW s \in SUBSET Source
  PROVE  EveryCycle!Raise(H(c), s) = H(Raise(c, s))
  BY DEF EveryCycle!Raise, Raise, H, Core

\* The same with and without the cached event: a flag written.
LEMMA FlagH ==
  ASSUME NEW c \in Core, NEW s \in Source, NEW on \in BOOLEAN
  PROVE  EveryCycle!Flag(H(c), s, on) = H(Flag(c, s, on))
  BY DEF EveryCycle!Flag, Flag, H, Core

\* The same with and without the cached event: a value kept in the range.
LEMMA ClampH ==
  ASSUME NEW c \in Core, NEW left \in Cycles
  PROVE  EveryCycle!Clamp(H(c), left) = H(Clamp(c, left))
<1>1. H(c).next = 0
  BY DEF H, Core
<1>2. ~(0 > left)
  BY DEF Cycles
<1>3. EveryCycle!Clamp(H(c), left) = [H(c) EXCEPT !.next = 0]
  BY <1>1, <1>2 DEF EveryCycle!Clamp
<1>4. [H(c) EXCEPT !.next = 0] = H(c)
  BY DEF H, Core
<1>5. H(Clamp(c, left)) = H(c)
  BY DEF H, Clamp, Core
<1> QED BY <1>3, <1>4, <1>5

\* The same with and without the cached event: asking for the next event.
LEMMA RequestH ==
  ASSUME NEW c \in Core
  PROVE  EveryCycle!Request(H(c)) = H(Request(c))
  BY DEF EveryCycle!Request, Request, H, Core

\* The same with and without the cached event: a watchdog reset.
LEMMA ResetWdH ==
  ASSUME NEW c \in Core
  PROVE  EveryCycle!ResetWd(H(c)) = H(ResetWd(c))
<1> DEFINE d1 == [c EXCEPT !.i = FALSE, !.it = TRUE, !.flags = {}, !.mask = {}]
           d2 == [d1 EXCEPT !.timer = "off", !.t = 0, !.a = 0, !.b = 0]
           d3 == [d2 EXCEPT !.wde = FALSE, !.wdie = FALSE, !.wdto = WdTime0, !.wdl = WdTime0]
           d4 == [d3 EXCEPT !.spe = FALSE, !.tran = FALSE, !.wrte = FALSE, !.empe = FALSE]
           d5 == [d4 EXCEPT !.eepe = FALSE, !.prge = FALSE, !.spmen = FALSE]
           h1 == [H(c) EXCEPT !.i = FALSE, !.it = TRUE, !.flags = {}, !.mask = {}]
           h2 == [h1 EXCEPT !.timer = "off", !.t = 0, !.a = 0, !.b = 0]
           h3 == [h2 EXCEPT !.wde = FALSE, !.wdie = FALSE, !.wdto = WdTime0, !.wdl = WdTime0]
           h4 == [h3 EXCEPT !.spe = FALSE, !.tran = FALSE, !.wrte = FALSE, !.empe = FALSE]
           h5 == [h4 EXCEPT !.eepe = FALSE, !.prge = FALSE, !.spmen = FALSE]
<1>1. ResetWd(c) = Request(d5)
  BY DEF ResetWd
<1>2. EveryCycle!ResetWd(H(c)) = EveryCycle!Request(h5)
  BY DEF EveryCycle!ResetWd
<1>3. d1 \in Core /\ h1 = H(d1)
  BY DEF Core, H
<1> HIDE DEF d1, h1
<1>4. d2 \in Core /\ h2 = H(d2)
  BY ZenonT(60), <1>3, Numbers DEF Core, H
<1> HIDE DEF d2, h2
<1>5. d3 \in Core /\ h3 = H(d3)
  BY ZenonT(60), <1>4, Numbers DEF Core, H
<1> HIDE DEF d3, h3
<1>6. d4 \in Core /\ h4 = H(d4)
  BY ZenonT(60), <1>5 DEF Core, H
<1> HIDE DEF d4, h4
<1>7. d5 \in Core /\ h5 = H(d5)
  BY ZenonT(60), <1>6 DEF Core, H
<1> HIDE DEF d5, h5
<1> QED BY <1>1, <1>2, <1>7, RequestH

\* What the hidden event leaves alone.
LEMMA FieldsH ==
  ASSUME NEW c \in Core
  PROVE  /\ H(c).i = c.i /\ H(c).it = c.it /\ H(c).enter = c.enter /\ H(c).flags = c.flags
         /\ H(c).mask = c.mask /\ Timer(H(c)) = Timer(c) /\ Wd(H(c)) = Wd(c)
         /\ H(c).spe = c.spe /\ Spi(H(c)) = Spi(c) /\ Eep(H(c)) = Eep(c)
         /\ H(c).eepe = c.eepe /\ Flash(H(c)) = Flash(c) /\ H(c).mode = c.mode
  BY DEF H, Core, Timer, Wd, Spi, Eep, Flash

\* The same with and without the cached event: the timer.
LEMMA TimerExecH ==
  ASSUME NEW c \in Core
  PROVE  EveryCycle!TimerExec(H(c)) = H(TimerExec(c))
<1>1. H(c).timer = c.timer /\ H(c).t = c.t
  BY FieldsH DEF Timer
<1>2. EveryCycle!MatchA(H(c)) = MatchA(c) /\ EveryCycle!MatchB(H(c)) = MatchB(c)
  BY FieldsH DEF EveryCycle!MatchA, EveryCycle!MatchB, MatchA, MatchB, Timer
<1>3. c.timer \in {"off", "normal", "ctc"}
  BY DEF Core
<1>4. CASE c.timer = "off"
  BY <1>1, <1>4 DEF EveryCycle!TimerExec, TimerExec
<1>5. CASE c.timer = "normal"
  <2> DEFINE s == IF c.t = 0 THEN {"T1OVF"} ELSE {}
  <2>1. s \in SUBSET Source
    BY SourceIs
  <2>2. TimerExec(c) = Raise(c, s) /\ EveryCycle!TimerExec(H(c)) = EveryCycle!Raise(H(c), s)
    BY <1>1, <1>5 DEF EveryCycle!TimerExec, TimerExec
  <2> HIDE DEF s
  <2> QED BY <2>1, <2>2, RaiseH
<1>6. CASE c.timer = "ctc"
  <2> DEFINE s == (IF c.t = 0 THEN {"T1OVF"} ELSE {})
                  \union (IF c.t = MatchA(c) THEN {"T1A"} ELSE {})
                  \union (IF c.t = MatchB(c) THEN {"T1B"} ELSE {})
             d == Raise(c, s)
             h == EveryCycle!Raise(H(c), s)
  <2>1. s \in SUBSET Source
    BY SourceIs
  <2>2. /\ TimerExec(c) = [d EXCEPT !.t = IF c.t = MatchA(c) THEN 0 ELSE @]
        /\ EveryCycle!TimerExec(H(c)) = [h EXCEPT !.t = IF c.t = MatchA(c) THEN 0 ELSE @]
    BY <1>1, <1>2, <1>6 DEF EveryCycle!TimerExec, TimerExec
  <2> HIDE DEF s
  <2>3. d \in Core /\ h = H(d)
    BY <2>1, RaiseType, RaiseH
  <2> HIDE DEF d, h
  <2> DEFINE x == IF c.t = MatchA(c) THEN 0 ELSE d.t
  <2>4. H(d).t = d.t
    BY <2>3, FieldsH DEF Timer
  <2>5. TimerExec(c) = [d EXCEPT !.t = x] /\ EveryCycle!TimerExec(H(c)) = [H(d) EXCEPT !.t = x]
    BY <2>2, <2>3, <2>4
  <2> HIDE DEF x
  <2>6. H([d EXCEPT !.t = x]) = [H(d) EXCEPT !.t = x]
    BY <2>3 DEF H, Core
  <2> QED BY <2>5, <2>6
<1> QED BY <1>3, <1>4, <1>5, <1>6

\* The same with and without the cached event: the watchdog.
LEMMA WdExecH ==
  ASSUME NEW c \in Core
  PROVE  EveryCycle!WdExec(H(c)) = H(WdExec(c))
<1> DEFINE b == Raise(c, {"WDT"})
           d == [b EXCEPT !.wdl = c.wdto]
           e == [EveryCycle!Raise(H(c), {"WDT"}) EXCEPT !.wdl = c.wdto]
<1>1. H(c).wdto = c.wdto /\ H(c).wdie = c.wdie /\ H(c).wdl = c.wdl /\ H(c).wde = c.wde
  BY FieldsH DEF Wd
<1>2. EveryCycle!WdRuns(H(c)) = WdRuns(c)
  BY <1>1 DEF EveryCycle!WdRuns, WdRuns
<1>3. EveryCycle!Raise(H(c), {"WDT"}) = H(b) /\ b \in Core
  BY SourceIs, RaiseH, RaiseType
<1>4. c.wdto \in Cycles
  BY Numbers DEF Core
<1>5. /\ WdExec(c) = IF ~(WdRuns(c) /\ c.wdl = 0) THEN c ELSE IF c.wdie THEN d ELSE ResetWd(d)
      /\ EveryCycle!WdExec(H(c)) = IF ~(WdRuns(c) /\ c.wdl = 0) THEN H(c)
                                   ELSE IF c.wdie THEN e ELSE EveryCycle!ResetWd(e)
  BY <1>1, <1>2 DEF EveryCycle!WdExec, WdExec
<1> HIDE DEF b
<1>6. d \in Core /\ e = H(d)
  BY <1>3, <1>4 DEF H, Core
<1> HIDE DEF d, e
<1> QED BY <1>5, <1>6, ResetWdH

\* The same with and without the cached event: SPI.
LEMMA SpiExecH ==
  ASSUME NEW c \in Core
  PROVE  EveryCycle!SpiExec(H(c)) = H(SpiExec(c))
  BY DEF EveryCycle!SpiExec, SpiExec, EveryCycle!Raise, Raise, H, Core

\* The same with and without the cached event: the EEPROM.
LEMMA EepExecH ==
  ASSUME NEW c \in Core
  PROVE  EveryCycle!EepExec(H(c)) = H(EepExec(c))
  BY DEF EveryCycle!EepExec, EepExec, H, Core, Cycles

\* The same with and without the cached event: the flash.
LEMMA SpmExecH ==
  ASSUME NEW c \in Core
  PROVE  EveryCycle!SpmExec(H(c)) = H(SpmExec(c))
  BY DEF EveryCycle!SpmExec, SpmExec, H, Core, Cycles

\* The same with and without the cached event: all peripherals.
LEMMA HwExecH ==
  ASSUME NEW c \in Core
  PROVE  /\ EveryCycle!HwExec(H(c)) = H(HwExec(c))
         /\ H(HwExec(c)) = H(Processed(c))
<1> DEFINE d == TimerExec(c)
           e == WdExec(d)
           g == SpiExec(e)
           h == EepExec(g)
           f == SpmExec(h)
           n == IF Eager THEN 0 ELSE Min(Events(c))
<1>1. d \in Core /\ e \in Core /\ g \in Core /\ h \in Core /\ f \in Core
  BY TimerExecType, WdExecType, DeviceExecType
<1>2. HwExec(c) = [f EXCEPT !.next = n] /\ f = Processed(c)
  BY HwExecIs DEF Processed
<1>3. EveryCycle!HwExec(H(c)) =
        [EveryCycle!SpmExec(EveryCycle!EepExec(EveryCycle!SpiExec(EveryCycle!WdExec(
           EveryCycle!TimerExec(H(c)))))) EXCEPT !.next = 0]
  BY DEF EveryCycle!HwExec
<1>4. EveryCycle!TimerExec(H(c)) = H(d)
  BY TimerExecH
<1> HIDE DEF d
<1>5. EveryCycle!WdExec(H(d)) = H(e)
  BY <1>1, WdExecH
<1> HIDE DEF e
<1>6. EveryCycle!SpiExec(H(e)) = H(g)
  BY <1>1, SpiExecH
<1> HIDE DEF g
<1>7. EveryCycle!EepExec(H(g)) = H(h)
  BY <1>1, EepExecH
<1> HIDE DEF h
<1>8. EveryCycle!SpmExec(H(h)) = H(f)
  BY <1>1, SpmExecH
<1> HIDE DEF f, n
<1>9. EveryCycle!HwExec(H(c)) = [H(f) EXCEPT !.next = 0]
  BY <1>3, <1>4, <1>5, <1>6, <1>7, <1>8
<1>10. [H(f) EXCEPT !.next = 0] = H(f)
  BY <1>1 DEF H, Core
<1>11. H([f EXCEPT !.next = n]) = H(f)
  BY <1>1 DEF H, Core
<1> QED BY <1>2, <1>9, <1>10, <1>11

\* Counting a cycle, with and without the cached event.
LEMMA CountedH ==
  ASSUME NEW c \in Core
  PROVE  EveryCycle!Tick(H(c)) = EveryCycle!HwExec(H(Counted(c)))
<1> DEFINE t == (c.t + 1) % TimerMod
           u == (c.wdl - 1) % ClockMod
           v == (c.spil - 1) % ClockMod
           x == (c.eepl - 1) % ClockMod
           y == (c.spml - 1) % ClockMod
           n == IF Eager THEN 0 ELSE (c.next - 1) % ClockMod
           d == [H(c) EXCEPT !.next = 0, !.t = t, !.wdl = u, !.spil = v, !.eepl = x, !.spml = y]
<1>1. H(c).t = c.t /\ H(c).wdl = c.wdl /\ H(c).spil = c.spil /\ H(c).eepl = c.eepl
      /\ H(c).spml = c.spml
  BY FieldsH DEF Timer, Wd, Spi, Eep, Flash
<1>2. EveryCycle!Tick(H(c)) = IF d.next = 0 THEN EveryCycle!HwExec(d) ELSE d
  BY ZenonT(60), <1>1 DEF EveryCycle!Tick
<1>3. Counted(c) = [c EXCEPT !.next = n, !.t = t, !.wdl = u, !.spil = v, !.eepl = x, !.spml = y]
  BY DEF Counted
<1> HIDE DEF t, u, v, x, y, n
<1>4. d.next = 0 /\ d = H(Counted(c))
  BY <1>3 DEF H, Core
<1> QED BY <1>2, <1>4

\* The instances of the refinement: no EEPROM, whose enable bit opens no window,
\* no reserved programming mode, which opens none either, and no comparator
\* that stops the peripherals.
Schedulable ==
  /\ Eager = FALSE
  /\ "eep" \notin Unit /\ "reserved" \notin SpmMode
  /\ "timer" \in Unit => TimerMod - 1 \notin CompareA

\* Nothing happens before the next event.
LEMMA Quiet ==
  ASSUME Schedulable, NEW c \in Core, Covered(c), Counted(c).next # 0
  PROVE  Processed(Counted(c)) = Counted(c)
<1> DEFINE d == Counted(c)
<1>1. d \in Core /\ Tick(c) = d
  BY TickIs
<1>2. Covered(d)
  BY <1>1, TickCovered DEF Schedulable
<1>3. /\ c.next \in Cycles /\ c.t \in 0 .. TimerMod - 1 /\ c.a \in 0 .. TimerMod - 1
      /\ c.b \in 0 .. TimerMod - 1 /\ c.timer \in {"off", "normal", "ctc"}
  BY DEF Core
<1>4. /\ d.next = c.next - 1 /\ d.timer = c.timer /\ d.a = c.a /\ d.b = c.b
      /\ d.t = IF c.t = TimerMod - 1 THEN 0 ELSE c.t + 1
  <2>1. /\ d.next = (c.next - 1) % ClockMod /\ d.t = (c.t + 1) % TimerMod
        /\ d.timer = c.timer /\ d.a = c.a /\ d.b = c.b
    BY DEF Counted, Core, Schedulable
  <2> HIDE DEF d
  <2>2. c.next # 0
    BY <1>3 DEF Covered, Cycles
  <2> QED BY <1>3, <2>1, <2>2, DownIs, UpIs
<1> HIDE DEF d
<1>5. MatchA(d) = MatchA(c) /\ MatchB(d) = MatchB(c) /\ MatchA(c) \in Int /\ MatchB(c) \in Int
  BY <1>3, <1>4, UpIs DEF MatchA, MatchB
<1>6. TimerExec(d) = d
  <2>1. CASE c.timer = "off"
    BY <1>4, <2>1 DEF TimerExec
  <2>2. CASE c.timer # "off"
    <3>1. c.next >= 2 /\ c.next <= TimerMod - c.t
      BY <1>2, <1>3, <1>4, <2>2 DEF Covered, TimerCovered, Cycles
    <3>2. d.t = c.t + 1 /\ d.t # 0
      BY <1>3, <1>4, <3>1, Numbers DEF Cycles
    <3> DEFINE x == MatchA(c)
               y == MatchB(c)
    <3>3. c.timer = "ctc" => (c.t < x => c.next <= x - c.t) /\ (c.t < y => c.next <= y - c.t)
      BY DEF Covered, TimerCovered
    <3> HIDE DEF x, y
    <3>4. c.timer = "ctc" => d.t # x /\ d.t # y
      BY <1>3, <1>5, <3>1, <3>2, <3>3 DEF Cycles, x, y
    <3>5. Raise(d, {}) = d
      BY ZenonT(60), <1>1 DEF Raise, Core
    <3>6. CASE c.timer = "normal"
      BY <1>4, <3>2, <3>5, <3>6 DEF TimerExec
    <3>7. CASE c.timer = "ctc"
      <4>1. d.t # MatchA(d) /\ d.t # MatchB(d)
        BY <1>5, <3>4, <3>7 DEF x, y
      <4>2. {} \union {} \union {} = {}
        OBVIOUS
      <4>3. TimerExec(d) = [Raise(d, {}) EXCEPT !.t = @]
        BY <1>4, <3>2, <3>7, <4>1, <4>2 DEF TimerExec
      <4>4. [d EXCEPT !.t = @] = d
        BY <1>1 DEF Core
      <4> QED BY <3>5, <4>3, <4>4
    <3> QED BY <1>3, <2>2, <3>6, <3>7
  <2> QED BY <2>1, <2>2
<1>7. /\ d.next \in Nat /\ 0 < d.next /\ d.wdl \in Nat /\ d.spil \in Nat /\ d.eepl \in Nat
      /\ d.spml \in Nat
  BY <1>1, <1>2 DEF Covered, Core, Cycles
<1>8. WdExec(d) = d
  BY <1>2, <1>7 DEF Covered, WdCovered, WdExec
<1>9. SpiExec(d) = d
  BY <1>2, <1>7 DEF Covered, SpiCovered, SpiExec
<1>10. EepExec(d) = d
  <2>1. ~d.empe /\ (d.wrte => d.eepl # 0)
    BY <1>2, <1>7 DEF Covered, EepCovered, EepIdle, Schedulable
  <2>2. d.empe = FALSE /\ d.wrte \in BOOLEAN
    BY <1>1, <2>1 DEF Core
  <2>3. [d EXCEPT !.empe = FALSE] = d
    BY <1>1, <2>2 DEF Core
  <2> QED BY <2>1, <2>2, <2>3 DEF EepExec
<1>11. SpmExec(d) = d
  <2>1. d.prge \/ d.spmen => d.spml # 0
    BY <1>2, <1>7 DEF Covered, SpmCovered, Schedulable
  <2>2. d.prge \in BOOLEAN /\ d.spmen \in BOOLEAN
    BY <1>1 DEF Core
  <2>3. ~d.spmen => [d EXCEPT !.spmen = FALSE] = d
    BY <1>1 DEF Core
  <2> QED BY <2>1, <2>2, <2>3 DEF SpmExec
<1> QED BY <1>6, <1>8, <1>9, <1>10, <1>11 DEF Processed, d

\* The same with and without the cached event: a cycle.
LEMMA TickH ==
  ASSUME Schedulable, NEW c \in Core, Covered(c)
  PROVE  EveryCycle!Tick(H(c)) = H(Tick(c))
<1> DEFINE d == Counted(c)
<1>1. d \in Core /\ Tick(c) = IF d.next = 0 THEN HwExec(d) ELSE d
  BY TickIs
<1>2. EveryCycle!Tick(H(c)) = EveryCycle!HwExec(H(d))
  BY CountedH
<1>3. d.next # 0 => Processed(d) = d
  BY Quiet
<1> HIDE DEF d
<1>4. EveryCycle!HwExec(H(d)) = H(HwExec(d)) /\ H(HwExec(d)) = H(Processed(d))
  BY <1>1, HwExecH
<1> QED BY <1>1, <1>2, <1>3, <1>4

\* The same with and without the cached event: some cycles.
LEMMA TicksH ==
  ASSUME Schedulable, NEW c \in Core, NEW n \in 0 .. 4, Covered(c)
  PROVE  EveryCycle!Ticks(n, H(c)) = H(Ticks(n, c))
<1>0. Eager = FALSE
  BY DEF Schedulable
<1>1. n \in {0, 1, 2, 3, 4}
  OBVIOUS
<1> DEFINE d1 == Tick(c)
           d2 == Tick(d1)
           d3 == Tick(d2)
           d4 == Tick(d3)
<1>2. Ticks(n, c) = CASE n = 0 -> c [] n = 1 -> d1 [] n = 2 -> d2 [] n = 3 -> d3 [] n = 4 -> d4
  BY DEF Ticks
<1>3. d1 \in Core /\ Covered(d1) /\ EveryCycle!Tick(H(c)) = H(d1)
  BY <1>0, TickType, TickCovered, TickH
<1> HIDE DEF d1
<1>4. d2 \in Core /\ Covered(d2) /\ EveryCycle!Tick(H(d1)) = H(d2)
  BY <1>0, <1>3, TickType, TickCovered, TickH
<1> HIDE DEF d2
<1>5. d3 \in Core /\ Covered(d3) /\ EveryCycle!Tick(H(d2)) = H(d3)
  BY <1>0, <1>4, TickType, TickCovered, TickH
<1> HIDE DEF d3
<1>6. EveryCycle!Tick(H(d3)) = H(d4)
  BY <1>5, TickH
<1> HIDE DEF d4
<1>7. EveryCycle!Ticks(n, H(c)) =
        CASE n = 0 -> H(c) [] n = 1 -> H(d1) [] n = 2 -> H(d2) [] n = 3 -> H(d3) [] n = 4 -> H(d4)
  BY <1>3, <1>4, <1>5, <1>6 DEF EveryCycle!Ticks
<1> QED BY <1>1, <1>2, <1>7

\* The same with and without the cached event: the check for interrupts.
LEMMA ItCheckH ==
  ASSUME NEW c \in Core
  PROVE  EveryCycle!ItCheck(H(c)) = H(ItCheck(c))
<1>1. EveryCycle!Pending(H(c)) = Pending(c)
  BY FieldsH DEF EveryCycle!Pending, EveryCycle!Enabled, Pending, Enabled, Wd
<1>2. EveryCycle!First(Pending(c)) = First(Pending(c))
  <2>1. EveryCycle!Priority = Priority
    BY DEF EveryCycle!Priority, Priority
  <2> QED BY <2>1 DEF EveryCycle!First, First, EveryCycle!Min, Min
<1>3. H(c).i = c.i /\ H(c).wde = c.wde /\ H(c).flags = c.flags /\ H(c).wdie = c.wdie
  BY FieldsH DEF Wd
<1>4. CASE ~c.i \/ Pending(c) = {}
  <2>1. ItCheck(c) = [c EXCEPT !.it = FALSE] /\ EveryCycle!ItCheck(H(c)) = [H(c) EXCEPT !.it = FALSE]
    BY <1>1, <1>3, <1>4 DEF ItCheck, EveryCycle!ItCheck
  <2> QED BY <2>1 DEF H, Core
<1>5. CASE ~(~c.i \/ Pending(c) = {})
  <2> DEFINE s == First(Pending(c))
             w == c.wdie /\ ~(s = "WDT" /\ c.wde)
             f == c.flags \ {s}
  <2>1. /\ ItCheck(c) = [c EXCEPT !.enter = TRUE, !.flags = f, !.wdie = w]
        /\ EveryCycle!ItCheck(H(c)) = [H(c) EXCEPT !.enter = TRUE, !.flags = f, !.wdie = w]
    BY <1>1, <1>2, <1>3, <1>5 DEF ItCheck, EveryCycle!ItCheck
  <2> HIDE DEF f, w
  <2> QED BY <2>1 DEF H, Core
<1> QED BY <1>4, <1>5

\* The same with and without the cached event: the last cycle of an
\* instruction.
LEMMA LastTickH ==
  ASSUME Schedulable, NEW c \in Core, Covered(c)
  PROVE  EveryCycle!LastTick(H(c)) = H(LastTick(c))
<1> DEFINE d == ItCheck(c)
<1>1. d \in Core /\ Covered(d) /\ EveryCycle!ItCheck(H(c)) = H(d)
  BY ItCheckType, ItCheckCovered, ItCheckH
<1>2. H(c).it = c.it
  BY FieldsH
<1> HIDE DEF d
<1>3. EveryCycle!Tick(H(c)) = H(Tick(c)) /\ EveryCycle!Tick(H(d)) = H(Tick(d))
  BY <1>1, TickH
<1> QED BY <1>1, <1>2, <1>3 DEF EveryCycle!LastTick, LastTick, d

\* The same with and without the cached event: the end of an instruction.
LEMMA EndH ==
  ASSUME Schedulable, NEW c \in Core, Covered(c)
  PROVE  EveryCycle!EndInstruction(H(c)) = H(EndInstruction(c))
<1> DEFINE b == [c EXCEPT !.enter = FALSE, !.i = FALSE]
           h == [H(c) EXCEPT !.enter = FALSE, !.i = FALSE]
<1>1. H(c).enter = c.enter
  BY FieldsH
<1>2. b \in Core /\ h = H(b)
  BY DEF H, Core
<1>3. \E i, it, enter : b = [c EXCEPT !.i = i, !.it = it, !.enter = enter]
  <2>1. b = [c EXCEPT !.i = FALSE, !.it = c.it, !.enter = FALSE]
    BY DEF Core
  <2> HIDE DEF b
  <2> QED BY <2>1
<1>4. EndInstruction(c) = IF c.enter THEN Ticks(3, b) ELSE c
  BY DEF EndInstruction, Interrupt
<1>5. EveryCycle!EndInstruction(H(c)) = IF c.enter THEN EveryCycle!Ticks(3, h) ELSE H(c)
  BY <1>1 DEF EveryCycle!EndInstruction, EveryCycle!Interrupt
<1> HIDE DEF b, h
<1>6. Covered(b)
  BY <1>2, <1>3, SregCovered
<1>7. 3 \in 0 .. 4
  OBVIOUS
<1>8. EveryCycle!Ticks(3, H(b)) = H(Ticks(3, b))
  BY <1>2, <1>6, <1>7, TicksH
<1> QED BY <1>2, <1>4, <1>5, <1>8
-----------------------------------------------------------------------------
(* The register writes with the next event hidden.                         *)

\* The same with and without the cached event: the write of the status
\* register.
LEMMA WriteSregH ==
  ASSUME NEW c \in Core, NEW i \in BOOLEAN
  PROVE  EveryCycle!WriteSreg(H(c), i) = H(WriteSreg(c, i))
<1> DEFINE w == c.it \/ (i /\ ~c.i)
<1>1. /\ WriteSreg(c, i) = [c EXCEPT !.i = i, !.it = w]
      /\ EveryCycle!WriteSreg(H(c), i) = [H(c) EXCEPT !.i = i, !.it = w]
  BY FieldsH DEF WriteSreg, EveryCycle!WriteSreg
<1> HIDE DEF w
<1> QED BY <1>1 DEF H, Core

\* The same with and without the cached event: writes to the registers of the
\* timer.
LEMMA TimerWritesH ==
  ASSUME NEW c \in Core, NEW d \in TimerWrites(c)
  PROVE  H(d) \in EveryCycle!TimerWrites(H(c))
<1>1. ASSUME NEW m \in {"off", "normal", "ctc"}
      PROVE  EveryCycle!WriteTccr1b(H(c), m) = H(WriteTccr1b(c, m))
  <2> DEFINE e == [c EXCEPT !.timer = m]
  <2>1. e \in Core /\ [H(c) EXCEPT !.timer = m] = H(e)
    BY DEF Core, H
  <2> HIDE DEF e
  <2> QED BY <2>1, RequestH DEF WriteTccr1b, EveryCycle!WriteTccr1b, e
<1>2. ASSUME NEW x \in CompareA \union Compare
      PROVE  /\ EveryCycle!WriteOcr1a(H(c), x) = H(WriteOcr1a(c, x))
             /\ EveryCycle!WriteOcr1b(H(c), x) = H(WriteOcr1b(c, x))
             /\ EveryCycle!WriteTcnt1(H(c), x) = H(WriteTcnt1(c, x))
  <2> DEFINE e == [c EXCEPT !.a = x]
             f == [c EXCEPT !.b = x]
             g == [c EXCEPT !.t = x]
  <2>1. x \in 0 .. TimerMod - 1
    BY Numbers
  <2>2. e \in Core /\ [H(c) EXCEPT !.a = x] = H(e)
    BY <2>1 DEF Core, H
  <2>3. f \in Core /\ [H(c) EXCEPT !.b = x] = H(f)
    BY <2>1 DEF Core, H
  <2>4. g \in Core /\ [H(c) EXCEPT !.t = x] = H(g)
    BY <2>1 DEF Core, H
  <2> HIDE DEF e, f, g
  <2> QED BY <2>2, <2>3, <2>4, RequestH
          DEF WriteOcr1a, EveryCycle!WriteOcr1a, WriteOcr1b, EveryCycle!WriteOcr1b,
              WriteTcnt1, EveryCycle!WriteTcnt1, e, f, g
<1>3. ASSUME NEW s \in Masks
      PROVE  /\ EveryCycle!WriteTifr1(H(c), s) = H(WriteTifr1(c, s))
             /\ EveryCycle!WriteTimsk1(H(c), s) = H(WriteTimsk1(c, s))
  BY DEF WriteTifr1, EveryCycle!WriteTifr1, WriteTimsk1, EveryCycle!WriteTimsk1, H, Core
<1>4. \/ \E m \in {"off", "normal", "ctc"} : d = WriteTccr1b(c, m)
      \/ \E x \in CompareA : d = WriteOcr1a(c, x)
      \/ \E x \in Compare : d \in {WriteOcr1b(c, x), WriteTcnt1(c, x)}
      \/ \E s \in Masks : d \in {WriteTifr1(c, s), WriteTimsk1(c, s)}
  BY DEF TimerWrites
<1> QED BY <1>1, <1>2, <1>3, <1>4 DEF EveryCycle!TimerWrites

\* The same with and without the cached event: writes to the registers of SPI.
LEMMA SpiWritesH ==
  ASSUME NEW c \in Core, NEW d \in SpiWrites(c)
  PROVE  H(d) \in EveryCycle!SpiWrites(H(c))
<1>1. ASSUME NEW on \in BOOLEAN
      PROVE  EveryCycle!WriteSpsr(H(c), on) = H(WriteSpsr(c, on))
  BY SourceIs, FlagH DEF WriteSpsr, EveryCycle!WriteSpsr
<1>2. ASSUME NEW x \in BOOLEAN, NEW y \in BOOLEAN
      PROVE  EveryCycle!WriteSpcr(H(c), x, y) = H(WriteSpcr(c, x, y))
  BY DEF WriteSpcr, EveryCycle!WriteSpcr, H, Core
<1>3. ASSUME NEW time \in SpiTime
      PROVE  EveryCycle!WriteSpdr(H(c), time) = H(WriteSpdr(c, time))
  <2> DEFINE b == Flag(c, "SPI", FALSE)
             e == [b EXCEPT !.tran = TRUE, !.spil = time]
             h == [H(b) EXCEPT !.tran = TRUE, !.spil = time]
  <2>1. b \in Core /\ EveryCycle!Flag(H(c), "SPI", FALSE) = H(b)
    BY SourceIs, FlagType, FlagH
  <2>2. time \in Cycles
    BY Numbers
  <2>3. H(c).tran = c.tran /\ H(c).spe = c.spe
    BY FieldsH DEF Spi
  <2>4. /\ WriteSpdr(c, time) = IF c.tran \/ ~c.spe THEN b ELSE Clamp(e, time)
        /\ EveryCycle!WriteSpdr(H(c), time) =
             IF c.tran \/ ~c.spe THEN H(b) ELSE EveryCycle!Clamp(h, time)
    BY <2>1, <2>3 DEF WriteSpdr, EveryCycle!WriteSpdr
  <2> HIDE DEF b
  <2>5. e \in Core /\ h = H(e)
    BY <2>1, <2>2 DEF Core, H
  <2> HIDE DEF e, h
  <2> QED BY <2>2, <2>4, <2>5, ClampH
<1> QED BY <1>1, <1>2, <1>3 DEF SpiWrites, EveryCycle!SpiWrites

\* The same with and without the cached event: the write of WDTCSR.
LEMMA WriteWdtcsrH ==
  ASSUME NEW c \in Core, NEW wde \in BOOLEAN, NEW wdie \in BOOLEAN, NEW wdif \in BOOLEAN,
         NEW t \in WdTime
  PROVE  EveryCycle!WriteWdtcsr(H(c), wde, wdie, wdif, t)
           = H(WriteWdtcsr(c, wde, wdie, wdif, t))
<1> DEFINE b == Flag(c, "WDT", wdif)
           d == [b EXCEPT !.wde = wde, !.wdie = wdie, !.wdto = t]
           e == [d EXCEPT !.wdl = c.wdto]
           g == [H(b) EXCEPT !.wde = wde, !.wdie = wdie, !.wdto = t]
           h == [g EXCEPT !.wdl = c.wdto]
           starts == ~WdRuns(c) /\ (wde \/ wdie)
<1>1. b \in Core /\ EveryCycle!Flag(H(c), "WDT", wdif) = H(b)
  BY SourceIs, FlagType, FlagH
<1>2. H(c).wdto = c.wdto /\ EveryCycle!WdRuns(H(c)) = WdRuns(c)
  BY FieldsH DEF Wd, EveryCycle!WdRuns, WdRuns
<1>3. /\ WriteWdtcsr(c, wde, wdie, wdif, t) = IF starts THEN Clamp(e, c.wdto) ELSE d
      /\ EveryCycle!WriteWdtcsr(H(c), wde, wdie, wdif, t) =
           IF starts THEN EveryCycle!Clamp(h, c.wdto) ELSE g
  BY <1>1, <1>2 DEF WriteWdtcsr, EveryCycle!WriteWdtcsr
<1>4. c.wdto \in Cycles
  BY Numbers DEF Core
<1> HIDE DEF b, starts
<1>5. d \in Core /\ g = H(d)
  BY ZenonT(60), <1>1 DEF Core, H
<1> HIDE DEF d, g
<1>6. e \in Core /\ h = H(e)
  BY <1>4, <1>5 DEF Core, H
<1> HIDE DEF e, h
<1> QED BY <1>3, <1>4, <1>5, <1>6, ClampH

\* The same with and without the cached event: the write of SPMCSR.
LEMMA WriteSpmcsrH ==
  ASSUME NEW c \in Core, NEW spmen \in BOOLEAN, NEW m \in SpmMode
  PROVE  EveryCycle!WriteSpmcsr(H(c), spmen, m) = H(WriteSpmcsr(c, spmen, m))
<1> DEFINE d == [c EXCEPT !.spmen = spmen]
           e == [d EXCEPT !.mode = m, !.spml = Window]
           g == [H(c) EXCEPT !.spmen = spmen]
           h == [g EXCEPT !.mode = m, !.spml = Window]
           none == ~(spmen /\ ~c.spmen /\ ~c.prge) \/ m = "reserved"
<1>1. H(c).spmen = c.spmen /\ H(c).prge = c.prge
  BY FieldsH DEF Flash
<1>2. /\ WriteSpmcsr(c, spmen, m) = IF none THEN d ELSE Clamp(e, Window)
      /\ EveryCycle!WriteSpmcsr(H(c), spmen, m) =
           IF none THEN g ELSE EveryCycle!Clamp(h, Window)
  BY <1>1 DEF WriteSpmcsr, EveryCycle!WriteSpmcsr
<1> HIDE DEF none
<1>3. d \in Core /\ g = H(d)
  BY DEF Core, H
<1> HIDE DEF d, g
<1>4. e \in Core /\ h = H(e)
  BY <1>3, Numbers DEF Core, H
<1> HIDE DEF e, h
<1>5. EveryCycle!Clamp(h, Window) = H(Clamp(e, Window))
  BY <1>4, Numbers, ClampH
<1> QED BY <1>2, <1>3, <1>5

\* The same with and without the cached event: the start of flash programming.
LEMMA SpmStartH ==
  ASSUME NEW c \in Core
  PROVE  EveryCycle!SpmStart(H(c)) = H(SpmStart(c))
<1> DEFINE d == [c EXCEPT !.prge = TRUE, !.spml = SpmTime]
           e == [c EXCEPT !.spmen = FALSE]
           g == [H(c) EXCEPT !.prge = TRUE, !.spml = SpmTime]
           h == [H(c) EXCEPT !.spmen = FALSE]
           k == EveryCycle!Clamp(g, SpmTime)
<1>1. H(c).spmen = c.spmen /\ H(c).prge = c.prge /\ H(c).mode = c.mode
  BY FieldsH DEF Flash
<1>2. c.spmen \in BOOLEAN /\ c.prge \in BOOLEAN
  BY DEF Core
<1>3. SpmStart(c) = IF ~(c.spmen /\ ~c.prge) THEN c
                    ELSE IF c.mode \in {"erase", "write"} THEN Clamp(d, SpmTime) ELSE e
  BY <1>2 DEF SpmStart
<1>4. EveryCycle!SpmStart(H(c)) = IF ~(c.spmen /\ ~c.prge) THEN H(c)
                                  ELSE IF c.mode \in {"erase", "write"} THEN k ELSE h
  BY <1>1, <1>2 DEF EveryCycle!SpmStart
<1>5. d \in Core /\ g = H(d) /\ h = H(e)
  BY Numbers DEF Core, H
<1> HIDE DEF d, e, g, h
<1>6. k = H(Clamp(d, SpmTime))
  BY <1>5, Numbers, ClampH
<1> HIDE DEF k
<1> QED BY <1>3, <1>4, <1>5, <1>6

\* The end of an instruction with the next event hidden.
LEMMA EndsH ==
  ASSUME Schedulable, NEW a \in Core, NEW c \in Core, Covered(c), Ends(a, c)
  PROVE  EveryCycle!Ends(H(a), H(c))
<1> DEFINE d == hw'
<1>1. d = EndInstruction(c)
  BY DEF Ends
<1>2. d \in Core
  BY <1>1, EndType
<1>3. late' = IF d.it THEN {} ELSE (late \union (Pending(c) \ Pending(a))) \intersect Pending(d)
  BY DEF Ends
<1>4. H(d) = EveryCycle!EndInstruction(H(c))
  BY <1>1, EndH
<1> HIDE DEF d
<1>5. \A b \in Core : EveryCycle!Pending(H(b)) = Pending(b) /\ H(b).it = b.it
  <2> TAKE b \in Core
  <2> QED BY FieldsH DEF EveryCycle!Pending, EveryCycle!Enabled, Pending, Enabled, Wd
<1>6. late' = IF H(d).it THEN {}
              ELSE (late \union (EveryCycle!Pending(H(c)) \ EveryCycle!Pending(H(a))))
                   \intersect EveryCycle!Pending(H(d))
  BY <1>2, <1>3, <1>5
<1> DEFINE h == H(d)
<1>7. h = [hw' EXCEPT !.next = 0]
  BY DEF H, d
<1> HIDE DEF h
<1>8. h = EveryCycle!EndInstruction(H(c)) /\
      late' = IF h.it THEN {}
              ELSE (late \union (EveryCycle!Pending(H(c)) \ EveryCycle!Pending(H(a))))
                   \intersect EveryCycle!Pending(h)
  BY <1>4, <1>6 DEF h
<1> QED BY <1>7, <1>8 DEF EveryCycle!Ends
-----------------------------------------------------------------------------
(* The instructions.                                                       *)

\* The same with and without the cached event: the cycles before the effect of
\* an instruction.
LEMMA LastH ==
  ASSUME Schedulable, hw \in Core, Covered(hw), NEW n \in Stall
  PROVE  Last(n) \in Core /\ Covered(Last(n)) /\ EveryCycle!Last(n) = H(Last(n))
<1> DEFINE d == Ticks(n, hw)
<1>1. n \in 0 .. 4
  BY AvrHwAssumption DEF AvrHwAssumption
<1>2. Eager = FALSE
  BY DEF Schedulable
<1>3. d \in Core /\ Covered(d) /\ EveryCycle!Ticks(n, H(hw)) = H(d)
  BY <1>1, <1>2, TicksType, TicksCovered, TicksH
<1>4. Last(n) = LastTick(d)
  BY DEF Last
<1>5. EveryCycle!Last(n) = EveryCycle!LastTick(EveryCycle!Ticks(n, H(hw)))
  BY DEF EveryCycle!Last, H
<1> HIDE DEF d
<1> QED BY <1>2, <1>3, <1>4, <1>5, LastTickType, LastTickCovered, LastTickH

\* An instruction ending in the last cycle after a state that is covered.
LEMMA RunsH ==
  ASSUME Schedulable, NEW c \in Core, Covered(c), Runs(LastTick(c))
  PROVE  EveryCycle!Runs(EveryCycle!LastTick(H(c)))
<1> DEFINE d == LastTick(c)
<1>1. Eager = FALSE
  BY DEF Schedulable
<1>2. d \in Core /\ Covered(d) /\ EveryCycle!LastTick(H(c)) = H(d)
  BY <1>1, LastTickType, LastTickCovered, LastTickH
<1>3. Ends(d, d)
  BY DEF Runs
<1> HIDE DEF d
<1>4. EveryCycle!Ends(H(d), H(d))
  BY <1>2, <1>3, EndsH
<1> QED BY <1>2, <1>4 DEF EveryCycle!Runs

\* Every step with the cached event is one without it.
LEMMA NextH ==
  ASSUME Schedulable, hw \in Core, Covered(hw), Next
  PROVE  EveryCycle!Next
<1>0. /\ Eager = FALSE /\ "eep" \notin Unit
      /\ "timer" \in Unit => TimerMod - 1 \notin CompareA
  BY DEF Schedulable
<1>1. [hw EXCEPT !.next = 0] = H(hw)
  BY DEF H
<1>2. ASSUME NEW i \in BOOLEAN, Runs(LastTick(WriteSreg(hw, i)))
      PROVE  EveryCycle!Runs(EveryCycle!LastTick(EveryCycle!WriteSreg(H(hw), i)))
  <2>1. WriteSreg(hw, i) \in Core /\ Covered(WriteSreg(hw, i))
    BY WriteSregType, WriteSregCovered
  <2>2. EveryCycle!WriteSreg(H(hw), i) = H(WriteSreg(hw, i))
    BY WriteSregH
  <2> QED BY <1>2, <2>1, <2>2, RunsH
<1>3. CASE Plain
  <2>1. PICK n \in Stall : Runs(Last(n))
    BY <1>3 DEF Plain
  <2>2. EveryCycle!Ends(H(Last(n)), H(Last(n)))
    BY <2>1, LastH, EndsH DEF Runs
  <2>3. EveryCycle!Runs(EveryCycle!Last(n))
    BY <2>2, LastH DEF EveryCycle!Runs
  <2> QED BY <2>3 DEF EveryCycle!Plain, EveryCycle!Next
<1>4. CASE SetI
  <2>1. EveryCycle!Runs(EveryCycle!LastTick(EveryCycle!WriteSreg(H(hw), TRUE)))
    BY <1>2, <1>4 DEF SetI
  <2> QED BY <1>1, <2>1 DEF EveryCycle!SetI, EveryCycle!Next
<1>5. CASE ClearI
  <2>1. EveryCycle!Runs(EveryCycle!LastTick(EveryCycle!WriteSreg(H(hw), FALSE)))
    BY <1>2, <1>5 DEF ClearI
  <2> QED BY <1>1, <2>1 DEF EveryCycle!ClearI, EveryCycle!Next
<1>6. CASE Reti
  <2> DEFINE d == [hw EXCEPT !.i = TRUE, !.it = TRUE]
             h == [H(hw) EXCEPT !.i = TRUE, !.it = TRUE]
             e == Ticks(3, d)
  <2>1. d \in Core /\ h = H(d)
    BY DEF Core, H
  <2>2. \E i, it, enter : d = [hw EXCEPT !.i = i, !.it = it, !.enter = enter]
    <3>1. d = [hw EXCEPT !.i = TRUE, !.it = TRUE, !.enter = hw.enter]
      BY DEF Core
    <3> HIDE DEF d
    <3> QED BY <3>1
  <2>3. Runs(LastTick(e))
    BY <1>6 DEF Reti
  <2> HIDE DEF d, h
  <2>4. Covered(d)
    BY <2>1, <2>2, SregCovered
  <2>5. 3 \in 0 .. 4
    OBVIOUS
  <2>6. e \in Core /\ Covered(e)
    BY <1>0, <2>1, <2>4, SomeTicks
  <2>7. EveryCycle!Ticks(3, h) = H(e)
    BY <2>1, <2>4, <2>5, TicksH
  <2> HIDE DEF e
  <2>8. EveryCycle!Runs(EveryCycle!LastTick(EveryCycle!Ticks(3, h)))
    BY <2>3, <2>6, <2>7, RunsH
  <2> QED BY <1>1, <2>8 DEF EveryCycle!Reti, EveryCycle!Next, h
<1>7. CASE OutSreg
  <2>1. PICK n \in Stall, i \in BOOLEAN : Ends(Last(n), WriteSreg(Last(n), i))
    BY <1>7 DEF OutSreg
  <2> DEFINE c == Last(n)
  <2>2. c \in Core /\ Covered(c) /\ EveryCycle!Last(n) = H(c)
    BY LastH
  <2> HIDE DEF c
  <2>3. WriteSreg(c, i) \in Core /\ Covered(WriteSreg(c, i))
    BY <2>2, WriteSregType, WriteSregCovered
  <2>4. EveryCycle!Ends(H(c), EveryCycle!WriteSreg(H(c), i))
    BY <2>1, <2>2, <2>3, EndsH, WriteSregH DEF c
  <2> QED BY <2>2, <2>4 DEF EveryCycle!OutSreg, EveryCycle!Next
<1>8. CASE OutTimer
  <2>1. PICK n \in Stall : \E d \in TimerWrites(Last(n)) : Ends(Last(n), d)
    BY <1>8 DEF OutTimer, Out
  <2>2. PICK d \in TimerWrites(Last(n)) : Ends(Last(n), d)
    BY <2>1
  <2>3. "timer" \in Unit /\ TimerMod - 1 \notin CompareA
    BY <1>0, <1>8 DEF OutTimer, Out
  <2>4. Last(n) \in Core /\ Covered(Last(n)) /\ EveryCycle!Last(n) = H(Last(n))
    BY LastH
  <2>5. d \in Core /\ Covered(d)
    BY <1>0, <2>3, <2>4, TimerWritesType, TimerWritesCovered
  <2>6. EveryCycle!Ends(EveryCycle!Last(n), H(d))
    BY <2>2, <2>4, <2>5, EndsH
  <2>7. H(d) \in EveryCycle!TimerWrites(EveryCycle!Last(n))
    BY <2>4, TimerWritesH
  <2> QED BY <2>3, <2>6, <2>7 DEF EveryCycle!OutTimer, EveryCycle!Out, EveryCycle!Next
<1>9. CASE OutSpi
  <2>1. PICK n \in Stall : \E d \in SpiWrites(Last(n)) : Ends(Last(n), d)
    BY <1>9 DEF OutSpi, Out
  <2>2. PICK d \in SpiWrites(Last(n)) : Ends(Last(n), d)
    BY <2>1
  <2>3. "spi" \in Unit
    BY <1>9 DEF OutSpi, Out
  <2>4. Last(n) \in Core /\ Covered(Last(n)) /\ EveryCycle!Last(n) = H(Last(n))
    BY LastH
  <2>5. d \in Core /\ Covered(d)
    BY <2>4, SpiWritesType, SpiWritesCovered
  <2>6. EveryCycle!Ends(EveryCycle!Last(n), H(d))
    BY <2>2, <2>4, <2>5, EndsH
  <2>7. H(d) \in EveryCycle!SpiWrites(EveryCycle!Last(n))
    BY <2>4, SpiWritesH
  <2> QED BY <2>3, <2>6, <2>7 DEF EveryCycle!OutSpi, EveryCycle!Out, EveryCycle!Next
<1>10. CASE OutUcsr0a
  <2>1. PICK n \in Stall, on \in BOOLEAN : Ends(Last(n), WriteUcsr0a(Last(n), on))
    BY <1>10 DEF OutUcsr0a, Out
  <2>2. "usart" \in Unit /\ "USART" \in Source
    BY <1>10, SourceIs DEF OutUcsr0a, Out
  <2>3. Last(n) \in Core /\ Covered(Last(n)) /\ EveryCycle!Last(n) = H(Last(n))
    BY LastH
  <2> DEFINE c == Last(n)
             d == Flag(c, "USART", on)
  <2>4. d \in Core /\ Covered(d) /\ EveryCycle!Flag(H(c), "USART", on) = H(d)
    BY <2>2, <2>3, FlagCovered, FlagH
  <2>5. Ends(c, d)
    BY <2>1 DEF WriteUcsr0a
  <2> HIDE DEF c, d
  <2>6. EveryCycle!Ends(H(c), EveryCycle!WriteUcsr0a(H(c), on))
    BY <2>3, <2>4, <2>5, EndsH DEF EveryCycle!WriteUcsr0a, c
  <2> QED BY <2>2, <2>3, <2>6 DEF EveryCycle!OutUcsr0a, EveryCycle!Out, EveryCycle!Next, c
<1>11. CASE OutWdtcsr
  <2>1. PICK n \in Stall, wde \in BOOLEAN, wdie \in BOOLEAN, wdif \in BOOLEAN, t \in WdTime :
          Ends(Last(n), WriteWdtcsr(Last(n), wde, wdie, wdif, t))
    BY <1>11 DEF OutWdtcsr, Out
  <2>2. "wd" \in Unit
    BY <1>11 DEF OutWdtcsr, Out
  <2>3. Last(n) \in Core /\ Covered(Last(n)) /\ EveryCycle!Last(n) = H(Last(n))
    BY LastH
  <2> DEFINE c == Last(n)
             d == WriteWdtcsr(c, wde, wdie, wdif, t)
  <2>4. /\ d \in Core /\ Covered(d)
        /\ EveryCycle!WriteWdtcsr(H(c), wde, wdie, wdif, t) = H(d)
    BY <2>3, WriteWdtcsrType, WriteWdtcsrCovered, WriteWdtcsrH
  <2>5. Ends(c, d)
    BY <2>1
  <2> HIDE DEF c, d
  <2>6. EveryCycle!Ends(H(c), EveryCycle!WriteWdtcsr(H(c), wde, wdie, wdif, t))
    BY <2>3, <2>4, <2>5, EndsH DEF c
  <2> QED BY <2>2, <2>3, <2>6 DEF EveryCycle!OutWdtcsr, EveryCycle!Out, EveryCycle!Next, c
<1>12. CASE OutEecr
  BY <1>0, <1>12 DEF OutEecr, Out
<1>13. CASE OutSpmcsr
  <2>1. PICK n \in Stall, spmen \in BOOLEAN, m \in SpmMode :
          Ends(Last(n), WriteSpmcsr(Last(n), spmen, m))
    BY <1>13 DEF OutSpmcsr, Out
  <2>2. "spm" \in Unit
    BY <1>13 DEF OutSpmcsr, Out
  <2>3. Last(n) \in Core /\ Covered(Last(n)) /\ EveryCycle!Last(n) = H(Last(n))
    BY LastH
  <2> DEFINE c == Last(n)
             d == WriteSpmcsr(c, spmen, m)
  <2>4. d \in Core /\ Covered(d) /\ EveryCycle!WriteSpmcsr(H(c), spmen, m) = H(d)
    BY <2>3, WriteSpmcsrType, WriteSpmcsrCovered, WriteSpmcsrH
  <2>5. Ends(c, d)
    BY <2>1
  <2> HIDE DEF c, d
  <2>6. EveryCycle!Ends(H(c), EveryCycle!WriteSpmcsr(H(c), spmen, m))
    BY <2>3, <2>4, <2>5, EndsH DEF c
  <2> QED BY <2>2, <2>3, <2>6 DEF EveryCycle!OutSpmcsr, EveryCycle!Out, EveryCycle!Next, c
<1>14. CASE Wdr
  <2> DEFINE b == [hw EXCEPT !.wdl = hw.wdto]
             h == [H(hw) EXCEPT !.wdl = hw.wdto]
             d == Clamp(b, hw.wdto)
  <2>1. hw.wdto \in Cycles
    BY Numbers DEF Core
  <2>2. d \in Core /\ Covered(d)
    BY WdrCovered
  <2>3. b \in Core /\ h = H(b)
    BY <2>1 DEF Core, H
  <2>4. Runs(LastTick(d)) /\ "wd" \in Unit
    BY <1>14 DEF Wdr
  <2>5. H(hw).wdto = hw.wdto
    BY FieldsH DEF Wd
  <2> HIDE DEF b, h
  <2>6. EveryCycle!Clamp(h, hw.wdto) = H(d)
    BY <2>1, <2>3, ClampH
  <2> HIDE DEF d
  <2>7. EveryCycle!Runs(EveryCycle!LastTick(EveryCycle!Clamp(h, hw.wdto)))
    BY <2>2, <2>4, <2>6, RunsH
  <2>8. EveryCycle!Wdr
    BY <1>1, <2>4, <2>5, <2>7 DEF EveryCycle!Wdr, h
  <2> QED BY <2>8 DEF EveryCycle!Next
<1>15. CASE Spm
  <2> DEFINE d == SpmStart(hw)
             e == Ticks(3, d)
  <2>1. d \in Core /\ Covered(d) /\ EveryCycle!SpmStart(H(hw)) = H(d)
    BY SpmStartType, SpmStartCovered, SpmStartH
  <2>2. Runs(LastTick(e)) /\ "spm" \in Unit
    BY <1>15 DEF Spm
  <2> HIDE DEF d
  <2>3. 3 \in 0 .. 4
    OBVIOUS
  <2>4. e \in Core /\ Covered(e)
    BY <1>0, <2>1, SomeTicks
  <2>5. EveryCycle!Ticks(3, H(d)) = H(e)
    BY <2>1, <2>3, TicksH
  <2> HIDE DEF e
  <2>6. EveryCycle!Runs(EveryCycle!LastTick(EveryCycle!Ticks(3, EveryCycle!SpmStart(H(hw)))))
    BY <2>1, <2>2, <2>4, <2>5, RunsH
  <2> QED BY <1>1, <2>2, <2>6 DEF EveryCycle!Spm, EveryCycle!Next
<1> QED BY <1>3, <1>4, <1>5, <1>6, <1>7, <1>8, <1>9, <1>10, <1>11, <1>12, <1>13, <1>14, <1>15
        DEF Next

\* The schedule is unobservable: flags, interrupts and completions come at the
\* very cycle they would with every peripheral processed on every cycle, for
\* programs that leave the EEPROM, the reserved programming modes and the
\* maximum of OCR1A alone.
THEOREM ScheduleUnobservable ==
  ASSUME Schedulable
  PROVE  Spec => ImplementsEveryCycle
<1>1. Init => EveryCycle!Init
  <2> SUFFICES ASSUME Init PROVE EveryCycle!Init
    OBVIOUS
  <2> DEFINE r == [i |-> FALSE, it |-> TRUE, enter |-> FALSE, next |-> 0,
                   flags |-> {}, mask |-> {}, timer |-> "off", t |-> 0, a |-> 0, b |-> 0,
                   wde |-> FALSE, wdie |-> FALSE, wdl |-> WdTime0, wdto |-> WdTime0,
                   spe |-> FALSE, tran |-> FALSE, spil |-> 0,
                   wrte |-> FALSE, empe |-> FALSE, eepe |-> FALSE, eepl |-> 0,
                   prge |-> FALSE, spmen |-> FALSE, mode |-> "load", spml |-> 0]
  <2>1. [hw EXCEPT !.next = 0] = r
    <3>1. hw \in Core /\ r \in Core
      BY InitInv, HardwareIsCore, Numbers DEF TypeOK, Core
    <3>2. /\ hw.i = r.i /\ hw.it = r.it /\ hw.enter = r.enter /\ hw.flags = r.flags
          /\ hw.mask = r.mask /\ hw.timer = r.timer /\ hw.t = r.t /\ hw.a = r.a /\ hw.b = r.b
          /\ hw.wde = r.wde /\ hw.wdie = r.wdie /\ hw.wdl = r.wdl /\ hw.wdto = r.wdto
          /\ hw.spe = r.spe /\ hw.tran = r.tran /\ hw.spil = r.spil
          /\ hw.wrte = r.wrte /\ hw.empe = r.empe /\ hw.eepe = r.eepe /\ hw.eepl = r.eepl
          /\ hw.prge = r.prge /\ hw.spmen = r.spmen /\ hw.mode = r.mode /\ hw.spml = r.spml
          /\ r.next = 0
      BY DEF Init
    <3> HIDE DEF r
    <3> QED BY <3>1, <3>2 DEF Core
  <2>2. late = {}
    BY DEF Init
  <2> QED BY <2>1, <2>2 DEF EveryCycle!Init
<1>2. (hw \in Core /\ Covered(hw)) /\ [Next]_vars => [EveryCycle!Next]_(EveryCycle!vars)
  <2> SUFFICES ASSUME hw \in Core, Covered(hw), [Next]_vars
               PROVE  [EveryCycle!Next]_(EveryCycle!vars)
    OBVIOUS
  <2>1. CASE Next
    BY <2>1, NextH
  <2>2. CASE UNCHANGED vars
    BY <2>2 DEF vars, EveryCycle!vars
  <2> QED BY <2>1, <2>2
<1>3. Spec => [](hw \in Core /\ Covered(hw))
  BY CoveredInvariance DEF Schedulable
<1> QED BY <1>1, <1>2, <1>3, PTL DEF Spec, ImplementsEveryCycle, EveryCycle!Spec
=============================================================================
