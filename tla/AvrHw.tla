-------------------------------- MODULE AvrHw --------------------------------
(***************************************************************************)
(* The hardware events and the interrupts of the AVR core (cu_avr.c): the  *)
(* cycle at which cu_avr_hwexec next looks at the peripherals is kept in   *)
(* cycle_next_event, and event_it says that an interrupt may be pending.   *)
(*                                                                         *)
(* An instruction is one step, made of the same calls in the same order as *)
(* the code: clock cycles (Tick), the interrupt check before the last one, *)
(* the I/O write after it, the interrupt entry. Cycle numbers are kept as  *)
(* distances, WRAP32(deadline - cycle), and the timer as its count. What   *)
(* is abstracted: the data the peripherals move, prescalers (the set of    *)
(* times a program may choose), the USART, whose deadline is never armed.  *)
(*                                                                         *)
(* With Eager the peripherals are processed on every cycle: this is what   *)
(* cycle_next_event is meant to be an optimisation of (AvrSchedule).       *)
(***************************************************************************)
EXTENDS Integers, Sequences, FiniteSetsExt

CONSTANTS
  Eager,      \* process the peripherals on every cycle
  Unit,       \* the peripherals the program uses
  ClockMod,   \* 2^32: cycles wrap
  TimerMod,   \* 2^16: Timer1 wraps
  CompareA,   \* values the program writes to OCR1A
  Compare,    \* values the program writes to OCR1B and TCNT1
  WdTime,     \* watchdog timeouts, by prescaler
  WdTime0,    \* the timeout with the prescaler of a reset
  SpiTime,    \* times of an SPI transfer
  EepTime,    \* EEPROM programming times
  SpmTime,    \* SPM_PROG_TIM
  Window,     \* 4: cycles to start EEPROM or flash programming in
  SpmMode,    \* the programming modes the program selects
  Masks,      \* bits the program writes to TIMSK1 and TIFR1
  Stall       \* cycles of an instruction before its last one

ASSUME AvrHwAssumption ==
  /\ Eager \in BOOLEAN
  /\ Unit \subseteq {"timer", "wd", "spi", "eep", "spm", "usart"}
  /\ TimerMod \in Nat \ {0, 1} /\ ClockMod \in Nat /\ TimerMod < ClockMod
  /\ CompareA \subseteq 0 .. TimerMod - 1 /\ Compare \subseteq 0 .. TimerMod - 1
  /\ WdTime0 \in 1 .. ClockMod - 1 /\ WdTime \subseteq 1 .. ClockMod - 1
  /\ SpiTime \subseteq 1 .. ClockMod - 1 /\ EepTime \subseteq 1 .. ClockMod - 1
  /\ SpmTime \in 1 .. ClockMod - 1 /\ Window \in 1 .. ClockMod - 1
  /\ SpmMode \subseteq {"load", "erase", "write", "lock", "rww", "reserved"}
  /\ Masks \subseteq SUBSET {"T1A", "T1B", "T1OVF"}
  /\ Stall \subseteq 0 .. 4

VARIABLES
  hw,    \* cpu_state, and the event variables of cu_avr.c
  late   \* history: interrupts that only a register write made pending

vars == <<hw, late>>
-----------------------------------------------------------------------------
\* Interrupt sources by priority. The USART's needs no enable bit.
Priority == <<"SPI", "WDT", "T1A", "T1B", "T1OVF", "USART">>
Source   == {Priority[n] : n \in 1 .. Len(Priority)}
TimerSource == {"T1A", "T1B", "T1OVF"}

Enabled(c) == c.mask \union {"USART"} \union IF c.wdie THEN {"WDT"} ELSE {}
Pending(c) == c.flags \intersect Enabled(c)

\* A register write sets or clears a flag. The hardware raises flags with a
\* request to check for interrupts.
Flag(c, s, on) == [c EXCEPT !.flags = (@ \ {s}) \union IF on THEN {s} ELSE {}]
Raise(c, s) == [c EXCEPT !.flags = @ \union s, !.it = @ \/ s # {}]

\* "It can be safely set to WRAP32(cycle + 1) to force full processing".
Request(c) == [c EXCEPT !.next = IF Eager THEN 0 ELSE 1]

FaultClamp(c, left) == c
\* Have the peripherals processed in "left" cycles at the latest.
Clamp(c, left) == [c EXCEPT !.next = IF @ > left THEN left ELSE @]
-----------------------------------------------------------------------------
(***************************************************************************)
(* cu_avr_hwexec: one operator per peripheral, and the distances of their  *)
(* next events.                                                            *)
(***************************************************************************)
MatchA(c) == (c.a + 1) % TimerMod
MatchB(c) == (c.b + 1) % TimerMod

TimerExec(c) ==
  CASE c.timer = "off" -> c
    [] c.timer = "normal" -> Raise(c, IF c.t = 0 THEN {"T1OVF"} ELSE {})
    [] c.timer = "ctc" ->
         [Raise(c, (IF c.t = 0 THEN {"T1OVF"} ELSE {})
                   \union (IF c.t = MatchA(c) THEN {"T1A"} ELSE {})
                   \union (IF c.t = MatchB(c) THEN {"T1B"} ELSE {}))
          EXCEPT !.t = IF c.t = MatchA(c) THEN 0 ELSE @]

Never == ClockMod - 1  \* ~0U

\* Distance of a comparator match ahead. One already passed wraps to
\* something beyond the overflow.
Ahead(match, t) == IF match > t THEN match - t ELSE Never

FaultTimerNext(c) ==
  CASE c.timer = "off" -> Never
    [] c.timer = "normal" -> TimerMod - c.t
    [] c.timer = "ctc" -> Min({Ahead(MatchA(c), c.t), TimerMod - c.t})
\* After TimerExec. Comparator A is not excluded when it is where t is: with
\* OCR1A at its maximum it matches at zero, and the next event is now.
TimerNext(c) ==
  CASE c.timer = "off" -> Never
    [] c.timer = "normal" -> TimerMod - c.t
    [] c.timer = "ctc" ->
         Min({IF MatchA(c) = c.t THEN 0 ELSE Ahead(MatchA(c), c.t),
              Ahead(MatchB(c), c.t), TimerMod - c.t})

WdRuns(c) == c.wde \/ c.wdie

\* cu_avr_reset_wd. It leaves a requested interrupt entry and the deadlines
\* of what it cancels alone.
ResetWd(c) ==
  Request([c EXCEPT !.i = FALSE, !.it = TRUE, !.flags = {}, !.mask = {},
                    !.timer = "off", !.t = 0, !.a = 0, !.b = 0,
                    !.wde = FALSE, !.wdie = FALSE, !.wdto = WdTime0,
                    !.wdl = WdTime0, !.spe = FALSE, !.tran = FALSE, !.wrte = FALSE,
                    !.empe = FALSE, !.eepe = FALSE,
                    !.prge = FALSE, !.spmen = FALSE])

WdExec(c) ==
  IF ~(WdRuns(c) /\ c.wdl = 0) THEN c
  ELSE LET d == [Raise(c, {"WDT"}) EXCEPT !.wdl = c.wdto]
       IN IF c.wdie THEN d ELSE ResetWd(d)

SpiExec(c) ==
  IF c.tran /\ c.spil = 0 THEN [Raise(c, {"SPI"}) EXCEPT !.tran = FALSE] ELSE c

EepExec(c) ==
  CASE c.eepl # 0 -> c
    [] c.eepl = 0 /\ c.wrte -> [c EXCEPT !.wrte = FALSE, !.eepe = FALSE]
    [] c.eepl = 0 /\ ~c.wrte -> [c EXCEPT !.empe = FALSE]

SpmExec(c) ==
  CASE c.spml # 0 -> c
    [] c.spml = 0 /\ c.prge -> [c EXCEPT !.prge = FALSE, !.spmen = FALSE]
    [] c.spml = 0 /\ ~c.prge -> [c EXCEPT !.spmen = FALSE]

HwExec(c) ==
  LET d == TimerExec(c)
      e == WdExec(d)
      f == SpmExec(EepExec(SpiExec(e)))
      When(cond, left) == IF cond /\ left # 0 THEN left ELSE Never
      next == Min({Never, TimerNext(d),
                   When(WdRuns(d), e.wdl),
                   When(f.tran, f.spil),
                   When(f.wrte \/ f.empe, f.eepl),
                   When(f.prge \/ f.spmen, f.spml)})
  IN [f EXCEPT !.next = IF Eager THEN 0 ELSE next]

\* UPDATE_HARDWARE.
Tick(c) ==
  LET Down(left) == (left - 1) % ClockMod
      d == [c EXCEPT !.next = IF Eager THEN 0 ELSE Down(@),
                     !.t = (@ + 1) % TimerMod, !.wdl = Down(@), !.spil = Down(@),
                     !.eepl = Down(@), !.spml = Down(@)]
  IN IF d.next = 0 THEN HwExec(d) ELSE d

Ticks(n, c) ==
  CASE n = 0 -> c
    [] n = 1 -> Tick(c)
    [] n = 2 -> Tick(Tick(c))
    [] n = 3 -> Tick(Tick(Tick(c)))
    [] n = 4 -> Tick(Tick(Tick(Tick(c))))
-----------------------------------------------------------------------------
(***************************************************************************)
(* Interrupts: cu_avr_itcheck and cu_avr_interrupt.                        *)
(***************************************************************************)
First(s) == Priority[Min({n \in 1 .. Len(Priority) : Priority[n] \in s})]

\* With WDE, the watchdog's interrupt makes its next timeout a reset.
ItCheck(c) ==
  IF ~c.i \/ Pending(c) = {} THEN [c EXCEPT !.it = FALSE]
  ELSE LET s == First(Pending(c))
       IN [c EXCEPT !.enter = TRUE, !.flags = @ \ {s},
                    !.wdie = @ /\ ~(s = "WDT" /\ c.wde)]

LastTick(c) == Tick(IF c.it THEN ItCheck(c) ELSE c)  \* UPDATE_HARDWARE_IT

FaultInterrupt(c) == Ticks(3, [c EXCEPT !.i = FALSE])
Interrupt(c) == Ticks(3, [c EXCEPT !.enter = FALSE, !.i = FALSE])

EndInstruction(c) == IF c.enter THEN Interrupt(c) ELSE c
-----------------------------------------------------------------------------
(***************************************************************************)
(* cu_avr_write_io, by register.                                           *)
(***************************************************************************)
WriteTccr1b(c, mode) == Request([c EXCEPT !.timer = mode])
WriteOcr1a(c, x)     == Request([c EXCEPT !.a = x])
WriteOcr1b(c, x)     == Request([c EXCEPT !.b = x])
WriteTcnt1(c, x)     == Request([c EXCEPT !.t = x])
WriteTifr1(c, s)     == [c EXCEPT !.flags = @ \ s]
WriteTimsk1(c, s)    == [c EXCEPT !.mask = (@ \intersect {"SPI"}) \union s]

\* The time is that of the prescaler written before: the register is
\* assigned last.
WriteWdtcsr(c, wde, wdie, wdif, wdto) ==
  LET d == [Flag(c, "WDT", wdif) EXCEPT !.wde = wde, !.wdie = wdie, !.wdto = wdto]
  IN IF ~WdRuns(c) /\ (wde \/ wdie)
     THEN Clamp([d EXCEPT !.wdl = c.wdto], c.wdto)
     ELSE d

WriteSpcr(c, spe, spie) ==
  [c EXCEPT !.spe = spe,
            !.mask = (@ \ {"SPI"}) \union IF spie THEN {"SPI"} ELSE {}]

\* SPSR and UCSR0A: the flag becomes what is written.
WriteSpsr(c, on)   == Flag(c, "SPI", on)
WriteUcsr0a(c, on) == Flag(c, "USART", on)

\* A byte written while another one is sent only sets the collision flag.
WriteSpdr(c, time) ==
  LET d == Flag(c, "SPI", FALSE)
  IN IF c.tran \/ ~c.spe THEN d
     ELSE Clamp([d EXCEPT !.tran = TRUE, !.spil = time], time)

\* EEPROM control: programming starts with EEMPE set before, and reading takes
\* four cycles unless the EEPROM is being programmed.
WriteEecr(c, empe, eepe, eere, time) ==
  LET start == c.empe /\ eepe /\ ~c.eepe
      d == IF c.empe THEN Clamp([c EXCEPT !.eepl = Window], Window) ELSE c
      e == IF start
           THEN Ticks(2, Clamp([d EXCEPT !.wrte = TRUE, !.eepl = time], time))
           ELSE d
      f == IF eere /\ ~e.wrte THEN Ticks(4, e) ELSE e
  IN [f EXCEPT !.eepe = c.empe /\ eepe, !.empe = empe /\ ~start]

\* Flash control: the SPM instruction may follow within a few cycles.
WriteSpmcsr(c, spmen, mode) ==
  LET d == [c EXCEPT !.spmen = spmen]
  IN IF ~(spmen /\ ~c.spmen /\ ~c.prge) \/ mode = "reserved" THEN d
     ELSE Clamp([d EXCEPT !.mode = mode, !.spml = Window], Window)

FaultWriteSreg(c, i) == [c EXCEPT !.i = i]
\* Interrupts that become enabled are checked for, before the next instruction's
\* last cycle.
WriteSreg(c, i) == [c EXCEPT !.i = i, !.it = @ \/ (i /\ ~c.i)]
-----------------------------------------------------------------------------
(***************************************************************************)
(* Instructions (cu_avr_exec). Registers are written after the last cycle, *)
(* whose interrupt check comes first: what is entered was pending before   *)
(* the write.                                                              *)
(***************************************************************************)
\* The instruction ends, and an interrupt found before its last cycle is
\* entered. "asked" is the state that a register write left alone, if any:
\* what is pending since then got no request for a check.
Ends(asked, c) ==
  /\ hw' = EndInstruction(c)
  /\ late' = IF hw'.it THEN {}
             ELSE (late \union (Pending(c) \ Pending(asked))) \intersect Pending(hw')

Runs(c) == Ends(c, c)

\* The state that the last cycle of an instruction writing a register leaves.
Last(n) == LastTick(Ticks(n, hw))

Plain == \E n \in Stall : Runs(Last(n))

\* BSET and BCLR of the I flag, RETI, OUT to SREG.
SetI    == Runs(LastTick(WriteSreg(hw, TRUE)))
ClearI  == Runs(LastTick(WriteSreg(hw, FALSE)))
Reti    == Runs(LastTick(Ticks(3, [hw EXCEPT !.i = TRUE, !.it = TRUE])))
OutSreg == \E n \in Stall, i \in BOOLEAN : Ends(Last(n), WriteSreg(Last(n), i))

TimerWrites(c) ==
  {WriteTccr1b(c, m) : m \in {"off", "normal", "ctc"}}
  \union {WriteOcr1a(c, x) : x \in CompareA} \union {WriteOcr1b(c, x) : x \in Compare}
  \union {WriteTcnt1(c, x) : x \in Compare}
  \union {WriteTifr1(c, s) : s \in Masks}
  \union {WriteTimsk1(c, s) : s \in Masks}

SpiWrites(c) ==
  {WriteSpdr(c, t) : t \in SpiTime} \union {WriteSpsr(c, on) : on \in BOOLEAN}
  \union {WriteSpcr(c, x, y) : x, y \in BOOLEAN}

Out(unit, n, d) == unit \in Unit /\ Ends(Last(n), d)

OutTimer  == \E n \in Stall : \E d \in TimerWrites(Last(n)) : Out("timer", n, d)
OutSpi    == \E n \in Stall : \E d \in SpiWrites(Last(n)) : Out("spi", n, d)
OutUcsr0a == \E n \in Stall, on \in BOOLEAN :
               Out("usart", n, WriteUcsr0a(Last(n), on))
OutWdtcsr == \E n \in Stall, wde, wdie, wdif \in BOOLEAN, t \in WdTime :
               Out("wd", n, WriteWdtcsr(Last(n), wde, wdie, wdif, t))
OutEecr   == \E n \in Stall, empe, eepe, eere \in BOOLEAN, t \in EepTime :
               Out("eep", n, WriteEecr(Last(n), empe, eepe, eere, t))
OutSpmcsr == \E n \in Stall, spmen \in BOOLEAN, m \in SpmMode :
               Out("spm", n, WriteSpmcsr(Last(n), spmen, m))

\* WDR restarts the watchdog's period, running or not.
Wdr == "wd" \in Unit /\ Runs(LastTick(Clamp([hw EXCEPT !.wdl = hw.wdto], hw.wdto)))

\* The SPM instruction.
SpmStart(c) ==
  CASE ~(c.spmen /\ ~c.prge) -> c
    [] c.spmen /\ ~c.prge /\ c.mode \in {"erase", "write"} ->
         Clamp([c EXCEPT !.prge = TRUE, !.spml = SpmTime], SpmTime)
    [] c.spmen /\ ~c.prge /\ c.mode \notin {"erase", "write"} ->
         [c EXCEPT !.spmen = FALSE]
Spm == "spm" \in Unit /\ Runs(LastTick(Ticks(3, SpmStart(hw))))

\* cu_avr_reset, on power up.
Init ==
  /\ hw = [i |-> FALSE, it |-> TRUE, enter |-> FALSE, next |-> IF Eager THEN 0 ELSE 1,
           flags |-> {}, mask |-> {}, timer |-> "off", t |-> 0, a |-> 0, b |-> 0,
           wde |-> FALSE, wdie |-> FALSE, wdl |-> WdTime0, wdto |-> WdTime0,
           spe |-> FALSE, tran |-> FALSE, spil |-> 0,
           wrte |-> FALSE, empe |-> FALSE, eepe |-> FALSE, eepl |-> 0,
           prge |-> FALSE, spmen |-> FALSE, mode |-> "load", spml |-> 0]
  /\ late = {}

Next ==
  \/ Plain \/ SetI \/ ClearI \/ Reti \/ OutSreg
  \/ OutTimer \/ OutSpi \/ OutUcsr0a \/ OutWdtcsr \/ OutEecr \/ OutSpmcsr
  \/ Wdr \/ Spm

Spec == Init /\ [][Next]_vars
-----------------------------------------------------------------------------
(***************************************************************************)
(* Properties.                                                             *)
(***************************************************************************)
Cycles == 0 .. ClockMod - 1

Hardware ==
  [i : BOOLEAN, it : BOOLEAN, enter : {FALSE}, next : Cycles,
   flags : SUBSET Source, mask : SUBSET (TimerSource \union {"SPI"}),
   timer : {"off", "normal", "ctc"}, t : 0 .. TimerMod - 1,
   a : 0 .. TimerMod - 1, b : 0 .. TimerMod - 1,
   wde : BOOLEAN, wdie : BOOLEAN, wdl : Cycles, wdto : WdTime \union {WdTime0},
   spe : BOOLEAN, tran : BOOLEAN, spil : Cycles,
   wrte : BOOLEAN, empe : BOOLEAN, eepe : BOOLEAN, eepl : Cycles,
   prge : BOOLEAN, spmen : BOOLEAN, mode : SpmMode \union {"load"}, spml : Cycles]

\* Between instructions no interrupt entry is left over.
TypeOK == hw \in Hardware /\ late \subseteq Source

(***************************************************************************)
(* The peripherals are processed no later than the first deadline any of   *)
(* them waits for, and no deadline is behind: one that is missed is only   *)
(* met when the cycle counter has wrapped.                                 *)
(***************************************************************************)
Due(left) == 0 < hw.next /\ hw.next <= left

EventsCovered ==
  /\ hw.tran => Due(hw.spil)
  /\ hw.wrte => Due(hw.eepl)
  /\ hw.prge => Due(hw.spml)
  /\ hw.spmen /\ ~hw.prge /\ "reserved" \notin SpmMode => Due(hw.spml) /\ hw.spml <= Window
  /\ WdRuns(hw) => Due(hw.wdl)
  /\ hw.timer # "off" => Due(TimerMod - hw.t)
  /\ hw.timer = "ctc" /\ hw.t < MatchA(hw) => Due(MatchA(hw) - hw.t)
  /\ hw.timer = "ctc" /\ hw.t < MatchB(hw) => Due(MatchB(hw) - hw.t)

(***************************************************************************)
(* With interrupts enabled, everything pending is about to be looked at,   *)
(* except what a write to an enable or a flag bit made pending.            *)
(***************************************************************************)
PendingNoticed == hw.i /\ ~hw.it => Pending(hw) \subseteq late
=============================================================================
