----------------------------- MODULE AvrDecoder -----------------------------
(***************************************************************************)
(* The instruction decoder of native builds (cu_avr_n.h): one switch whose *)
(* cases share their ends. Each operator below takes a machine whose pc is *)
(* already past the instruction's first word, and the opcode.              *)
(*                                                                         *)
(* Definitions named Fault... are faulty variants of the definition after  *)
(* them; no specification uses them. Each breaks one of the properties.    *)
(***************************************************************************)
EXTENDS AvrMachine

Immediate == {"CPI", "SBCI", "SUBI", "ORI", "ANDI"}

\* Bits 15 and 16 of the result are the carries: FMUL's is shifted.
Multiply(m, o) ==
  LET frac == o.op \in {"FMUL", "FMULS", "FMULSU"}
      dst  == IF o.op \in {"MUL", "FMUL"} THEN m.r[o.a1] ELSE Signed(m.r[o.a1])
      src  == IF o.op \in {"MULS", "FMULS"} THEN Signed(m.r[o.a2]) ELSE m.r[o.a2]
      res  == IF frac THEN 2 * dst * src ELSE dst * src
  IN End([WithPair(m, 0, res) EXCEPT
            !.f = (@ \ {"C", "Z"}) \cup On("C", Bit(res, IF frac THEN 65536 ELSE 32768))
                    \cup On("Z", ZeroTest(res % 65536))], 2)

Source(m, o) == IF o.op \in Immediate THEN o.a2 ELSE m.r[o.a2]

Add(m, o) ==
  LET dst == m.r[o.a1]
      src == m.r[o.a2]
      res == dst + src + (IF o.op = "ADC" THEN Carry(m) ELSE 0)
  IN End([m EXCEPT !.r[o.a1] = res % 256,
                   !.f = (@ \cap {"I", "T"}) \cup AddTable[Index(dst, src, res)]], 1)

\* SUB, SUBI and NEG; CP and CPI store no result.
Subtract(m, o) ==
  LET dst == IF o.op = "NEG" THEN 0 ELSE m.r[o.a1]
      src == IF o.op = "NEG" THEN m.r[o.a1] ELSE Source(m, o)
      res == dst - src
  IN End([m EXCEPT !.r[o.a1] = IF o.op \in {"CP", "CPI"} THEN @ ELSE res % 256,
                   !.f = (@ \cap {"I", "T"}) \cup SubTable[Index(dst, src, res)]], 1)

FaultSubtractCarry(m, o) ==
  LET dst == m.r[o.a1]
      src == Source(m, o)
      res == dst - (src + Carry(m))
  IN End([m EXCEPT !.r[o.a1] = IF o.op = "CPC" THEN @ ELSE res % 256,
                   !.f = (@ \cap {"I", "T"}) \cup SubTable[Index(dst, src, res)]], 1)

\* SBC, SBCI and CPC: Z stays only if it was set, so that it tells of the
\* whole of a longer number.
SubtractCarry(m, o) ==
  LET dst == m.r[o.a1]
      src == Source(m, o)
      res == dst - (src + Carry(m))
  IN End([m EXCEPT !.r[o.a1] = IF o.op = "CPC" THEN @ ELSE res % 256,
                   !.f = (@ \cup {"H", "S", "V", "N", "C"})
                          \cap (SubTable[Index(dst, src, res)] \cup {"I", "T"})], 1)

Logic(m, o) ==
  LET dst == m.r[o.a1]
      src == Source(m, o)
      res == CASE o.op \in {"AND", "ANDI"} -> dst & src
               [] o.op \in {"OR", "ORI"}   -> dst | src
               [] OTHER                    -> dst ^^ src
  IN End([m EXCEPT !.r[o.a1] = res,
                   !.f = (@ \cap {"I", "T", "H", "C"}) \cup GenLog(res)], 1)

Complement(m, o) ==
  LET res == 255 - m.r[o.a1]
  IN End([m EXCEPT !.r[o.a1] = res,
                   !.f = (@ \cap {"I", "T", "H"}) \cup GenLog(res) \cup {"C"}], 1)

Swap(m, o) ==
  End([m EXCEPT !.r[o.a1] = (@ \div 16) + 16 * (@ % 16)], 1)

IncDec(m, o) ==
  LET res == (m.r[o.a1] + (IF o.op = "INC" THEN 1 ELSE -1)) % 256
  IN End([m EXCEPT !.r[o.a1] = res,
                   !.f = (@ \cap {"I", "T", "H", "C"})
                          \cup (IF o.op = "INC" THEN GenInc(res) ELSE GenDec(res))], 1)

ShiftRight(m, o) ==
  LET src == m.r[o.a1]
      top == CASE o.op = "ASR" -> src >= 128
               [] o.op = "ROR" -> "C" \in m.f
               [] OTHER        -> FALSE
      res == (src \div 2) + (IF top THEN 128 ELSE 0)
  IN End([m EXCEPT !.r[o.a1] = res,
                   !.f = (@ \cap {"I", "T", "H"}) \cup GenShr(Bit(src, 1), res)], 1)

\* ADIW and SBIW.
AddWord(m, o) ==
  LET dst == Pair(m, o.a1)
      res == IF o.op = "ADIW" THEN dst + o.a2 ELSE dst - o.a2
      v   == IF o.op = "ADIW" THEN ~Bit(dst, 32768) /\ Bit(res, 32768)
             ELSE Bit(dst, 32768) /\ ~Bit(res, 32768)
      n   == Bit(res, 32768)
  IN End([WithPair(m, o.a1, res) EXCEPT
            !.f = (@ \cap {"I", "T", "H"}) \cup On("V", v) \cup On("N", n)
                   \cup On("S", v # n) \cup On("C", Bit(res, 65536))
                   \cup On("Z", ZeroTest(res % 65536))], 2)

\* MOVW, MOV, LDI, IN and the output of a pixel.
Move(m, o) ==
  End(CASE o.op = "MOVW"  -> WithPair(m, o.a1, Pair(m, o.a2))
        [] o.op = "MOV"   -> [m EXCEPT !.r[o.a1] = m.r[o.a2]]
        [] o.op = "LDI"   -> [m EXCEPT !.r[o.a1] = o.a2]
        [] o.op = "IN"    -> [m EXCEPT !.r[o.a1] = ReadIo(m, o.a2), !.at = 0]
        [] OTHER          -> [m EXCEPT !.io[PORTC] = m.r[o.a2] & m.io[DDRC]], 1)

\* BSET, BCLR, BLD and BST.
FlagBits(m, o) ==
  End(CASE o.op = "BSET" -> [m EXCEPT !.f = @ \cup Bits(o.a1)]
        [] o.op = "BCLR" -> [m EXCEPT !.f = @ \ Bits(o.a1)]
        [] o.op = "BLD"  -> [m EXCEPT !.r[o.a1] =
             (@ - (IF Bit(@, 2^o.a2) THEN 2^o.a2 ELSE 0))
               + (IF "T" \in m.f THEN 2^o.a2 ELSE 0)]
        [] OTHER -> [m EXCEPT !.f = (@ \ {"T"}) \cup On("T", Bit(m.r[o.a1], 2^o.a2))],
      1)
-----------------------------------------------------------------------------
(* Memory.                                                                 *)

\* The address of a load or store, and the machine with its pointer moved
\* and past the second word.
Pointed(m, o) ==
  LET p == IF o.op \in {"LDS", "STS"} THEN 0 ELSE Pair(m, o.a2 % 256)
  IN CASE o.op \in {"LDS", "STS"} -> <<o.a2, [m EXCEPT !.pc = (@ + 1) % 65536]>>
       [] o.op \in {"LD", "ST"}   -> <<(p + (o.a2 \div 256)) % 65536, m>>
       [] o.op \in {"LD-", "ST-"} -> <<(p - 1) % 65536, WithPair(m, o.a2, p - 1)>>
       [] OTHER                   -> <<p, WithPair(m, o.a2, p + 1)>>

\* The register is read after two cycles: a pointer stored through itself
\* has moved by then.
Store(m, o) ==
  LET a == Pointed(m, o)[1]
      n == [Pointed(m, o)[2] EXCEPT !.at = 2]
  IN End(IF a >= 256 THEN [n EXCEPT !.ram[a % RamSize] = n.r[o.a1]]
         ELSE WriteIo(n, a, n.r[o.a1]), 2)

Load(m, o) ==
  LET a == Pointed(m, o)[1]
      n == [Pointed(m, o)[2] EXCEPT !.at = 1]
  IN End([n EXCEPT !.r[o.a1] = IF a >= 256 THEN n.ram[a % RamSize]
                               ELSE ReadIo(n, a)], 2)

Push(m, o) ==
  End([m EXCEPT !.ram[m.sp % RamSize] = m.r[o.a1], !.sp = (@ - 1) % 65536], 2)

Pop(m, o) ==
  LET sp == (m.sp + 1) % 65536
  IN End([m EXCEPT !.r[o.a1] = m.ram[sp % RamSize], !.sp = sp], 2)

\* OUT, and SBI and CBI, which read the port two cycles before they write.
Output(m, o) ==
  LET old == ReadIo(m, o.a1)
      new == CASE o.op = "CBI" -> old - (old & o.a2)
               [] o.op = "SBI" -> old | o.a2
               [] OTHER        -> m.r[o.a2]
      n == IF o.op = "OUT" THEN 1 ELSE 2
  IN End(WriteIo([m EXCEPT !.at = n], o.a1, new), n)

LoadProgram(m, o) ==
  LET n == [m EXCEPT !.r[o.a1] = ZByte(m)]
  IN End(IF o.op = "LPM" THEN n ELSE WithPair(n, Z, Pair(m, Z) + 1), 3)

FaultErased(m) ==
  CromUpdate(m, ZPage(m) * PageWords, PageWords)

\* After a page has changed: the word before it may have its second word in
\* it.
Erased(m) ==
  LET w == ZPage(m) * PageWords
  IN IF w = 0 THEN CromUpdate(m, w, PageWords)
     ELSE CromUpdate(m, w - 1, PageWords + 1)

Paged(m) ==
  LET w == ZPage(m) * PageWords
      Word1(i) == IF m.mode = 2 THEN 65535 ELSE m.rom[i] & m.buf[i - w]
  IN Erased([m EXCEPT !.rom = [i \in 0 .. RomWords - 1 |->
                IF i \in w .. w + PageWords - 1 THEN Word1(i) ELSE @[i]],
                      !.prge = TRUE, !.io[SPMCSR] = @ | 64])

StoreProgram(m, o) ==
  End(IF ~Bit(m.io[SPMCSR], 1) \/ m.prge THEN m
      ELSE CASE m.mode \in {2, 4} -> Paged(m)
             [] m.mode = 8  -> [m EXCEPT !.io[SPMCSR] = @ & 224]
             [] m.mode = 16 -> [m EXCEPT !.io[SPMCSR] = @ & 160]
             [] OTHER -> [m EXCEPT !.buf[(m.r[30] \div 2) % PageWords] = Pair(m, 0),
                                   !.io[SPMCSR] = @ & 160], 4)
-----------------------------------------------------------------------------
(* Control.                                                                *)

Jump(m, o) ==
  CASE o.op = "JMP"  -> End([m EXCEPT !.pc = o.a2], 3)
    [] o.op = "IJMP" -> End([m EXCEPT !.pc = Pair(m, Z)], 2)
    [] OTHER         -> End([m EXCEPT !.pc = (@ + o.a2) % 65536], 2)

\* BRBS and BRBC.
Branching(m, o) ==
  IF (Bits(o.a1) \cap m.f # {}) = (o.op = "BRBS")
  THEN End([m EXCEPT !.pc = (@ + o.a2) % 65536], 2) ELSE End(m, 1)

FaultCalled(m, target) ==
  [m EXCEPT !.ram = [@ EXCEPT ![m.sp % RamSize] = m.pc \div 256,
                              ![(m.sp - 1) % RamSize] = m.pc % 256],
            !.sp = (@ - 2) % 65536, !.pc = target]

\* The return address goes to the stack, low byte first.
Called(m, target) ==
  [m EXCEPT !.ram = [@ EXCEPT ![m.sp % RamSize] = m.pc % 256,
                              ![(m.sp - 1) % RamSize] = m.pc \div 256],
            !.sp = (@ - 2) % 65536, !.pc = target]

CallTo(m, o) ==
  CASE o.op = "CALL"  -> End(Called([m EXCEPT !.pc = (@ + 1) % 65536], o.a2), 4)
    [] o.op = "ICALL" -> End(Called(m, Pair(m, Z)), 3)
    [] OTHER          -> End(Called(m, (m.pc + o.a2) % 65536), 3)

Return(m, o) ==
  End([m EXCEPT !.f = IF o.op = "RETI" THEN @ \cup {"I"} ELSE @,
                !.pc = 256 * m.ram[(m.sp + 1) % RamSize] + m.ram[(m.sp + 2) % RamSize],
                !.sp = (@ + 2) % 65536], 4)

FaultSkip(m) == End([m EXCEPT !.pc = (@ + 1) % 65536], 2)

\* skip_tail: over one word or two.
Skip(m) ==
  IF m.code[m.pc % RomWords].two
  THEN End([m EXCEPT !.pc = (@ + 2) % 65536], 3)
  ELSE End([m EXCEPT !.pc = (@ + 1) % 65536], 2)

Skipping(m, o) ==
  IF CASE o.op = "CPSE" -> m.r[o.a1] = m.r[o.a2]
       [] o.op = "SBIC" -> ReadIo(m, o.a1) & o.a2 = 0
       [] o.op = "SBIS" -> ReadIo(m, o.a1) & o.a2 # 0
       [] o.op = "SBRC" -> m.r[o.a1] & o.a2 = 0
       [] OTHER         -> m.r[o.a1] & o.a2 # 0
  THEN Skip(m) ELSE End(m, 1)
-----------------------------------------------------------------------------
\* cu_avr_exec. (WDR and the interrupt check of BSET and RETI: AvrHw.)
Exec(m) ==
  LET o == m.code[m.pc % RomWords]
      n == [m EXCEPT !.pc = (@ + 1) % 65536]
  IN CASE o.op \in {"MUL", "MULS", "MULSU", "FMUL", "FMULS", "FMULSU"} -> Multiply(n, o)
       [] o.op \in {"ADD", "ADC"} -> Add(n, o)
       [] o.op \in {"SUB", "SUBI", "NEG", "CP", "CPI"} -> Subtract(n, o)
       [] o.op \in {"SBC", "SBCI", "CPC"} -> SubtractCarry(n, o)
       [] o.op \in {"AND", "ANDI", "OR", "ORI", "EOR"} -> Logic(n, o)
       [] o.op = "COM" -> Complement(n, o)
       [] o.op = "SWAP" -> Swap(n, o)
       [] o.op \in {"INC", "DEC"} -> IncDec(n, o)
       [] o.op \in {"ASR", "LSR", "ROR"} -> ShiftRight(n, o)
       [] o.op \in {"ADIW", "SBIW"} -> AddWord(n, o)
       [] o.op \in {"MOVW", "MOV", "LDI", "IN", "PIXEL"} -> Move(n, o)
       [] o.op \in {"BSET", "BCLR", "BLD", "BST"} -> FlagBits(n, o)
       [] o.op \in {"ST", "ST+", "ST-", "STS"} -> Store(n, o)
       [] o.op \in {"LD", "LD+", "LD-", "LDS"} -> Load(n, o)
       [] o.op = "PUSH" -> Push(n, o)
       [] o.op = "POP" -> Pop(n, o)
       [] o.op \in {"OUT", "SBI", "CBI"} -> Output(n, o)
       [] o.op \in {"LPM", "LPM+"} -> LoadProgram(n, o)
       [] o.op = "SPM" -> StoreProgram(n, o)
       [] o.op \in {"JMP", "IJMP", "RJMP"} -> Jump(n, o)
       [] o.op \in {"BRBS", "BRBC"} -> Branching(n, o)
       [] o.op \in {"CALL", "ICALL", "RCALL"} -> CallTo(n, o)
       [] o.op \in {"RET", "RETI"} -> Return(n, o)
       [] o.op \in {"CPSE", "SBIC", "SBIS", "SBRC", "SBRS"} -> Skipping(n, o)
       [] OTHER -> End(n, 1)
=============================================================================
