----------------------------- MODULE AvrMachine -----------------------------
(***************************************************************************)
(* The part of the AVR's state that instructions work on (cpu_state in     *)
(* cu_types.h), and what both instruction decoders share: the I/O          *)
(* registers that are plain memory, the status register, the code ROM and  *)
(* its compiled copy (cu_avr.c).                                           *)
(*                                                                         *)
(* A machine is a record: r the registers, f the status register as the    *)
(* set of its letters, sp and pc, ram, io the other I/O registers by       *)
(* address, rom and code the ROM by words and its opcodes, buf the page    *)
(* buffer, mode and prge the state of SPM. cy is the number of cycles of   *)
(* the last instruction, at how many of them pass before it writes or      *)
(* reads memory. Devices behind I/O registers are in AvrHw, SpiBus and     *)
(* others; here a port keeps what is written to it.                        *)
(***************************************************************************)
EXTENDS AvrCompile, AvrFlags, Bitwise

CONSTANTS
  RamSize,   \* 4096
  RomWords,  \* 32768
  PageWords  \* 128

ASSUME MachineAssumption ==
  /\ RamSize \in Nat \ {0} /\ PageWords \in Nat \ {0}
  /\ RomWords \in Nat \ {0} /\ RomWords % PageWords = 0

Word == 0 .. 65535
Letter == {"I", "T", "H", "S", "V", "N", "Z", "C"}

SPMCSR == 87
SPL    == 93
SPH    == 94
SREG   == 95
DDRC   == 39

Bits(b) == {x \in Letter :
  Bit(b, CASE x = "I" -> 128 [] x = "T" -> 64 [] x = "H" -> 32 [] x = "S" -> 16
           [] x = "V" -> 8 [] x = "N" -> 4 [] x = "Z" -> 2 [] OTHER -> 1)}

\* The byte of a status register.
Value(f) == CHOOSE b \in Byte : Bits(b) = f

Carry(m) == IF "C" \in m.f THEN 1 ELSE 0

Pair(m, i) == m.r[i] + 256 * m.r[i + 1]
WithPair(m, i, x) ==
  [m EXCEPT !.r = [@ EXCEPT ![i] = x % 256, ![i + 1] = (x \div 256) % 256]]

End(m, n) == [m EXCEPT !.cy = n]
-----------------------------------------------------------------------------
(* I/O registers.                                                          *)

ReadIo(m, port) ==
  CASE port < 32   -> m.r[port]
    [] port = SPL  -> m.sp % 256
    [] port = SPH  -> m.sp \div 256
    [] port = SREG -> Value(m.f)
    [] OTHER       -> m.io[port]

Modes == {0, 2, 4, 8, 16}

\* The SPM mode is taken when bit 0 goes on; RRWSB can not be written.
WriteSpmcsr(m, v) ==
  LET old == m.io[SPMCSR]
      new == (v % 64) + (old & 64) + 128 * (v \div 128)
      mode == new & 30
  IN [m EXCEPT !.io[SPMCSR] = new,
               !.mode = IF ~Bit(old, 1) /\ Bit(new, 1) /\ ~m.prge /\ mode \in Modes
                        THEN mode ELSE @]

WriteIo(m, port, v) ==
  CASE port < 32     -> [m EXCEPT !.r[port] = v]
    [] port = SPL    -> [m EXCEPT !.sp = (@ - (@ % 256)) + v]
    [] port = SPH    -> [m EXCEPT !.sp = (@ % 256) + 256 * v]
    [] port = SREG   -> [m EXCEPT !.f = Bits(v)]
    [] port = PORTC  -> [m EXCEPT !.io[PORTC] = v & m.io[DDRC]]
    [] port = SPMCSR -> WriteSpmcsr(m, v)
    [] OTHER         -> [m EXCEPT !.io[port] = v]
-----------------------------------------------------------------------------
(* The code ROM.                                                           *)

\* cu_avr_crom_update: n words from w on are compiled again.
CromUpdate(m, w, n) ==
  [m EXCEPT !.code = [i \in 0 .. RomWords - 1 |->
     IF i \in w .. w + n - 1 THEN Compile(m.rom[i], m.rom[(i + 1) % RomWords])
     ELSE m.code[i]]]

\* Z as an address in the ROM: r31 is the page, r30 the byte in it.
ZPage(m) == m.r[31] % (RomWords \div PageWords)
ZWord(m) == ZPage(m) * PageWords + ((m.r[30] \div 2) % PageWords)
ZByte(m) == IF m.r[30] % 2 = 0 THEN m.rom[ZWord(m)] % 256
            ELSE m.rom[ZWord(m)] \div 256
=============================================================================
