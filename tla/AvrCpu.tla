------------------------------- MODULE AvrCpu -------------------------------
(***************************************************************************)
(* The AVR executing programs: the decoder of native builds, interrupts    *)
(* between instructions and the end of flash programming, whose time is up *)
(* to AvrHw.                                                               *)
(***************************************************************************)
EXTENDS AvrDecoder, Sequences, FiniteSets, TLC

CONSTANTS
  Boots,   \* what to execute: name, rom, r and f at the start, interrupts
           \* (bound: how many), once (only the first instruction)
  Vector   \* where an interrupt enters

Emscripten == INSTANCE AvrDecoderE
Documents  == INSTANCE AvrInstTable

VARIABLES
  m,       \* the machine
  boot,    \* member of Boots executed
  its,     \* interrupts left to come
  since,   \* cycles since SPMCSR was set for SPM (bound: 4)
  frames,  \* history: return addresses pushed and not yet returned to
  stopped  \* the program has ended

vars == <<m, boot, its, since, frames, stopped>>

Opcode == m.code[m.pc % RomWords]

BlankIo == [i \in 32 .. 255 |-> IF i = DDRC THEN 255 ELSE 0]

\* cu_avr_reset compiles the whole ROM.
Reset(b) ==
  LET blank == [r |-> b.r, f |-> b.f, sp |-> 4351, pc |-> 0,
                ram |-> [i \in 0 .. RamSize - 1 |-> 0],
                io |-> BlankIo,
                rom |-> b.rom, code |-> [i \in 0 .. RomWords - 1 |-> Undef],
                buf |-> [i \in 0 .. PageWords - 1 |-> 0],
                mode |-> 0, prge |-> FALSE, cy |-> 0, at |-> 0]
  IN CromUpdate(blank, 0, RomWords)

Init ==
  /\ boot \in Boots
  /\ m = Reset(boot)
  /\ its = boot.interrupts /\ since = 4 /\ frames = <<>> /\ stopped = FALSE

\* Where an instruction that calls goes on after its return.
After == (m.pc + (IF Opcode.two THEN 2 ELSE 1)) % 65536

\* SPM has to come in four cycles after SPMCSR is set for it.
Late == ~m.prge /\ Bit(m.io[SPMCSR], 1) /\ since = 4

Since(n) ==
  IF ~Bit(m.io[SPMCSR], 1) /\ Bit(n.io[SPMCSR], 1) THEN 0
  ELSE IF since + n.cy < 4 THEN since + n.cy ELSE 4

Execute ==
  /\ ~stopped /\ ~Late /\ Opcode.op # "BREAK"
  /\ m' = Exec(m) /\ since' = Since(m')
  /\ frames' = CASE Opcode.op \in {"CALL", "RCALL", "ICALL"} -> Append(frames, After)
                 [] Opcode.op \in {"RET", "RETI"} /\ frames # <<>> ->
                      SubSeq(frames, 1, Len(frames) - 1)
                 [] OTHER -> frames
  /\ stopped' = boot.once
  /\ UNCHANGED <<boot, its>>

\* cu_avr_interrupt, at the end of an instruction.
Interrupt ==
  /\ ~stopped /\ ~Late /\ its > 0 /\ "I" \in m.f
  /\ m' = End(Called([m EXCEPT !.f = @ \ {"I"}], Vector), 3) /\ since' = Since(m')
  /\ frames' = Append(frames, m.pc)
  /\ its' = its - 1
  /\ UNCHANGED <<boot, stopped>>

\* The SPM part of cu_avr_hwexec: a page is done, or SPM came too late.
SpmDone ==
  /\ ~stopped /\ m.prge
  /\ m' = [m EXCEPT !.prge = FALSE, !.io[SPMCSR] = @ & 224]
  /\ UNCHANGED <<boot, its, since, frames, stopped>>

SpmLate ==
  /\ ~stopped /\ Late
  /\ m' = [m EXCEPT !.io[SPMCSR] = @ & 254]
  /\ UNCHANGED <<boot, its, since, frames, stopped>>

\* A program ends at BREAK, here.
Stop ==
  /\ Opcode.op = "BREAK" \/ stopped
  /\ stopped' = TRUE /\ UNCHANGED <<m, boot, its, since, frames>>

Next == Execute \/ Interrupt \/ SpmDone \/ SpmLate \/ Stop

Spec == Init /\ [][Next]_vars
-----------------------------------------------------------------------------
\* The machine stays within its memory: registers, addresses and opcodes.
TypeOK ==
  /\ m.r \in [0 .. 31 -> Byte] /\ m.f \subseteq Letter
  /\ m.sp \in Word /\ m.pc \in Word
  /\ \A i \in DOMAIN m.ram : m.ram[i] \in Byte
  /\ DOMAIN m.ram = 0 .. RamSize - 1 /\ DOMAIN m.io = 32 .. 255
  /\ \A i \in DOMAIN m.io : m.io[i] \in Byte
  /\ DOMAIN m.rom = 0 .. RomWords - 1 /\ DOMAIN m.code = 0 .. RomWords - 1
  /\ \A i \in DOMAIN m.rom : m.rom[i] \in Word
  /\ \A i \in DOMAIN m.buf : m.buf[i] \in Word
  /\ m.mode \in Modes /\ m.cy \in 0 .. 4 /\ m.at \in 0 .. 2
  /\ since \in 0 .. 4

\* avr_inst_table.txt: each instruction it lists is compiled to what it
\* lists, whatever word follows; no word has two meanings.
CompiledAsDocumented ==
  LET d == Documents!Documented(m.rom[0], m.rom[1])
  IN m.cy = 0 => d \subseteq {Compile(m.rom[0], m.rom[1])}

\* The opcodes executed are those of the words in the ROM, although SPM
\* changes it by pages and an instruction may have words in two of them
\* (cu_avr_n.h:217). The last word of the ROM is left out: if it has two
\* words, the second one is the ROM's first, and that page changing leaves
\* it as it was.
CodeMatchesRom ==
  \A i \in 0 .. RomWords - 2 : m.code[i] = Compile(m.rom[i], m.rom[i + 1])

\* RET and RETI go back to behind the call, or to the instruction that was
\* interrupted, whatever was pushed and popped in between and whatever
\* interrupts came (cu_avr_n.h:448, cu_avr.c:497).
ReturnsToCaller ==
  [][Opcode.op \in {"RET", "RETI"} /\ m' # m /\ frames # <<>> /\ ~boot.once
       /\ Len(frames') < Len(frames)
       => m'.pc = frames[Len(frames)]]_vars

\* The first words of instructions, from the first instruction on.
Starts ==
  LET start[i \in 0 .. RomWords - 1] ==
        \/ i = 0
        \/ start[i - 1] /\ ~m.code[i - 1].two
        \/ i > 1 /\ start[i - 2] /\ m.code[i - 2].two
  IN {i \in 0 .. RomWords - 1 : start[i]}

\* Calls, returns, branches and skips never go into the second word of an
\* instruction, in programs whose targets are instructions (cu_avr_n.h:616).
OnlyStarts == boot.once \/ m.pc % RomWords \in Starts

\* Whichever build decodes it, an instruction has the same effect, in the
\* same number of cycles, and meets memory after as many of them.
SameInBothBuilds == Exec(m) = Emscripten!Exec(m)
=============================================================================
