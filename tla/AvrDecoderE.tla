---------------------------- MODULE AvrDecoderE -----------------------------
(***************************************************************************)
(* The instruction decoder of Emscripten builds (cu_avr_e.h): a function   *)
(* for each instruction, called through a table, ending in one of a few    *)
(* macros. As in AvrDecoder, they take a machine whose pc is past the      *)
(* first word; d and s are the arguments.                                  *)
(*                                                                         *)
(* Definitions named Fault... are faulty variants of the definition after  *)
(* them; no specification uses them. Each breaks one of the properties.    *)
(***************************************************************************)
EXTENDS AvrMachine

MulTailFmul(m, res, f) == End([WithPair(m, 0, res) EXCEPT !.f = f], 2)

MulTail(m, dst, src) ==
  LET res == dst * src
  IN MulTailFmul(m, res, (m.f \ {"C", "Z"}) \cup On("C", Bit(res, 32768))
                           \cup On("Z", ZeroTest(res % 65536)))

FmulTail(m, dst, src) ==
  LET res == dst * src * 2
  IN MulTailFmul(m, res, (m.f \ {"C", "Z"}) \cup On("C", Bit(res, 65536))
                           \cup On("Z", ZeroTest(res % 65536)))

AddTail(m, d, dst, src, res) ==
  End([m EXCEPT !.r[d] = res % 256,
                !.f = (@ \cap {"I", "T"}) \cup AddTable[Index(dst, src, res)]], 1)

SubTailFlg(m, dst, src, res) ==
  End([m EXCEPT !.f = (@ \cap {"I", "T"}) \cup SubTable[Index(dst, src, res)]], 1)

SubTail(m, d, dst, src) ==
  SubTailFlg([m EXCEPT !.r[d] = (dst - src) % 256], dst, src, dst - src)

SbcTailFlg(m, dst, src, res) ==
  End([m EXCEPT !.f = (@ \cup {"H", "S", "V", "N", "C"})
                        \cap (SubTable[Index(dst, src, res)] \cup {"I", "T"})], 1)

SbcTail(m, d, src) ==
  LET res == m.r[d] - (src + Carry(m))
  IN SbcTailFlg([m EXCEPT !.r[d] = res % 256], m.r[d], src, res)

LogTail(m, d, res) ==
  End([m EXCEPT !.r[d] = res, !.f = (@ \cap {"I", "T", "H", "C"}) \cup GenLog(res)], 1)

StTail(m, d, addr) ==
  LET n == [m EXCEPT !.at = 2]
  IN End(IF addr >= 256 THEN [n EXCEPT !.ram[addr % RamSize] = n.r[d]]
         ELSE WriteIo(n, addr, n.r[d]), 2)

FaultLdTail(m, d, addr) ==
  LET n == [m EXCEPT !.at = 2]
  IN End([n EXCEPT !.r[d] = IF addr >= 256 THEN n.ram[addr % RamSize]
                            ELSE ReadIo(n, addr)], 2)

LdTail(m, d, addr) ==
  LET n == [m EXCEPT !.at = 1]
  IN End([n EXCEPT !.r[d] = IF addr >= 256 THEN n.ram[addr % RamSize]
                            ELSE ReadIo(n, addr)], 2)

ShrTail(m, d, top) ==
  LET src == m.r[d]
      res == top + (src \div 2)
  IN End([m EXCEPT !.r[d] = res,
                   !.f = (@ \cap {"I", "T", "H"}) \cup GenShr(Bit(src, 1), res)], 1)

RetTail(m) ==
  LET a == m.sp + 1
      b == m.sp + 2
  IN End([m EXCEPT !.pc = 256 * m.ram[a % RamSize] + m.ram[b % RamSize],
                   !.sp = b % 65536], 4)

AdiwTail(m, d, v, res) ==
  LET n == Bit(res, 32768)
  IN End([WithPair(m, d, res) EXCEPT
            !.f = (@ \cap {"I", "T", "H"}) \cup On("V", v) \cup On("N", n)
                   \cup On("C", Bit(res, 65536)) \cup On("Z", ZeroTest(res % 65536))
                   \cup On("S", n # v)], 2)

OutTail(m, port, v, before) == End(WriteIo([m EXCEPT !.at = before + 1], port, v), before + 1)
OubTail(m, port, v) == OutTail(m, port, v, 1)

CallTail(m, res, before) ==
  LET low  == [m EXCEPT !.ram[m.sp % RamSize] = m.pc % 256]
      high == [low EXCEPT !.ram[(m.sp - 1) % RamSize] = m.pc \div 256]
  IN End([high EXCEPT !.sp = (@ - 2) % 65536, !.pc = res], before + 3)

SkipTail(m) ==
  LET two == m.code[m.pc % RomWords].two
  IN End([m EXCEPT !.pc = (@ + (IF two THEN 2 ELSE 1)) % 65536], IF two THEN 3 ELSE 2)
-----------------------------------------------------------------------------
op_00(m)       == End(m, 1)
op_01(m, d, s) == End([m EXCEPT !.r = [@ EXCEPT ![d] = m.r[s], ![d + 1] = m.r[s + 1]]], 1)
op_02(m, d, s) == MulTail(m, Signed(m.r[d]), Signed(m.r[s]))
op_03(m, d, s) == MulTail(m, Signed(m.r[d]), m.r[s])
op_04(m, d, s) == FmulTail(m, m.r[d], m.r[s])
op_05(m, d, s) == FmulTail(m, Signed(m.r[d]), Signed(m.r[s]))
op_06(m, d, s) == FmulTail(m, Signed(m.r[d]), m.r[s])
op_07(m, d, s) == SbcTailFlg(m, m.r[d], m.r[s], m.r[d] - (m.r[s] + Carry(m)))
op_08(m, d, s) == SbcTail(m, d, m.r[s])
op_09(m, d, s) == AddTail(m, d, m.r[d], m.r[s], m.r[d] + m.r[s])
op_0A(m, d, s) == IF m.r[d] # m.r[s] THEN End(m, 1) ELSE SkipTail(m)
op_0B(m, d, s) == SubTailFlg(m, m.r[d], m.r[s], m.r[d] - m.r[s])
op_0C(m, d, s) == SubTail(m, d, m.r[d], m.r[s])
op_0D(m, d, s) == AddTail(m, d, m.r[d], m.r[s], m.r[d] + m.r[s] + Carry(m))
op_0E(m, d, s) == LogTail(m, d, m.r[d] & m.r[s])
op_0F(m, d, s) == LogTail(m, d, m.r[d] ^^ m.r[s])
op_10(m, d, s) == LogTail(m, d, m.r[d] | m.r[s])
op_11(m, d, s) == End([m EXCEPT !.r[d] = m.r[s]], 1)
op_12(m, d, k) == SubTailFlg(m, m.r[d], k, m.r[d] - k)
op_13(m, d, k) == SbcTail(m, d, k)
op_14(m, d, k) == SubTail(m, d, m.r[d], k)
op_15(m, d, k) == LogTail(m, d, m.r[d] | k)
op_16(m, d, k) == LogTail(m, d, m.r[d] & k)

op_17(m) ==
  LET w == ZPage(m) * PageWords
      Page(n) == [i \in 0 .. RomWords - 1 |->
                    IF i \notin w .. w + PageWords - 1 THEN n.rom[i]
                    ELSE IF n.mode = 2 THEN 65535 ELSE n.rom[i] & n.buf[i - w]]
      Updated(n) == IF w # 0 THEN CromUpdate(n, w - 1, PageWords + 1)
                    ELSE CromUpdate(n, w, PageWords)
      Masked(n, mask) == [n EXCEPT !.io[SPMCSR] = @ & mask]
  IN End(CASE ~Bit(m.io[SPMCSR], 1) \/ m.prge -> m
           [] OTHER -> CASE m.mode = 8  -> Masked(m, 224)
                         [] m.mode = 16 -> Masked(m, 160)
                         [] m.mode = 0  ->
                              [Masked(m, 160) EXCEPT
                                 !.buf[(m.r[30] \div 2) % PageWords] = Pair(m, 0)]
                         [] OTHER ->
                              [Updated([m EXCEPT !.rom = Page(m)]) EXCEPT
                                 !.prge = TRUE, !.io[SPMCSR] = @ | 64], 4)

op_18(m, d) == End([m EXCEPT !.r[d] = ZByte(m)], 3)
op_19(m, d) == End(WithPair([m EXCEPT !.r[d] = ZByte(m)], Z, Pair(m, Z) + 1), 3)
op_1A(m, d) == End([m EXCEPT !.ram[m.sp % RamSize] = m.r[d], !.sp = (@ - 1) % 65536], 2)
op_1B(m, d) == End([m EXCEPT !.r[d] = m.ram[(m.sp + 1) % RamSize], !.sp = (@ + 1) % 65536], 2)
op_1C(m, d, a) == StTail([m EXCEPT !.pc = (@ + 1) % 65536], d, a)
op_1D(m, d, p) == StTail(m, d, (Pair(m, p % 256) + (p \div 256)) % 65536)
op_1E(m, d, p) == LET a == (Pair(m, p) - 1) % 65536 IN StTail(WithPair(m, p, a), d, a)
op_1F(m, d, p) == StTail(WithPair(m, p, Pair(m, p) + 1), d, Pair(m, p))
op_20(m, d, a) == LdTail([m EXCEPT !.pc = (@ + 1) % 65536], d, a)
op_21(m, d, p) == LdTail(m, d, (Pair(m, p % 256) + (p \div 256)) % 65536)
op_22(m, d, p) == LET a == (Pair(m, p) - 1) % 65536 IN LdTail(WithPair(m, p, a), d, a)
op_23(m, d, p) == LdTail(WithPair(m, p, Pair(m, p) + 1), d, Pair(m, p))
op_24(m, d) == LET res == m.r[d] ^^ 255
               IN End([m EXCEPT !.r[d] = res,
                         !.f = (@ \cap {"I", "T", "H"}) \cup GenLog(res) \cup {"C"}], 1)
op_25(m, d) == SubTail(m, d, 0, m.r[d])
op_26(m, d) == End([m EXCEPT !.r[d] = ((@ \div 16) + (@ * 16)) % 256], 1)
op_27(m, d) == LET res == (m.r[d] + 1) % 256
               IN End([m EXCEPT !.r[d] = res,
                         !.f = (@ \cap {"I", "T", "H", "C"}) \cup GenInc(res)], 1)
op_28(m, d) == ShrTail(m, d, m.r[d] & 128)
op_29(m, d) == ShrTail(m, d, 0)
op_2A(m, d) == ShrTail(m, d, 128 * Carry(m))
op_2B(m, d) == LET res == (m.r[d] - 1) % 256
               IN End([m EXCEPT !.r[d] = res,
                         !.f = (@ \cap {"I", "T", "H", "C"}) \cup GenDec(res)], 1)
op_2C(m, a) == End([m EXCEPT !.pc = a], 3)
op_2D(m, a) == CallTail([m EXCEPT !.pc = (@ + 1) % 65536], a, 1)
op_2E(m, k) == End([m EXCEPT !.f = @ \cup Bits(k)], 1)
op_2F(m, k) == End([m EXCEPT !.f = @ \ Bits(k)], 1)
op_30(m)    == End([m EXCEPT !.pc = Pair(m, Z)], 2)
op_31(m)    == RetTail(m)
op_32(m)    == CallTail(m, Pair(m, Z), 0)
op_33(m)    == RetTail([m EXCEPT !.f = @ \cup {"I"}])
op_37(m, d, s) == MulTail(m, m.r[d], m.r[s])
op_38(m, d, a) == End([m EXCEPT !.r[d] = ReadIo(m, a), !.at = 0], 1)
op_39(m, a, s) == OutTail(m, a, m.r[s], 0)
op_3A(m, d, k) == LET dst == Pair(m, d)
                  IN AdiwTail(m, d, ~Bit(dst, 32768) /\ Bit(dst + k, 32768), dst + k)
op_3B(m, d, k) == LET dst == Pair(m, d)
                  IN AdiwTail(m, d, Bit(dst, 32768) /\ ~Bit(dst - k, 32768), dst - k)
op_3C(m, a, k) == OubTail(m, a, ReadIo(m, a) & (255 - k))
op_3D(m, a, k) == IF ReadIo(m, a) & k # 0 THEN End(m, 1) ELSE SkipTail(m)
op_3E(m, a, k) == OubTail(m, a, ReadIo(m, a) | k)
op_3F(m, a, k) == IF ReadIo(m, a) & k = 0 THEN End(m, 1) ELSE SkipTail(m)
op_40(m, k) == End([m EXCEPT !.pc = (@ + k) % 65536], 2)
op_41(m, k) == CallTail(m, (m.pc + k) % 65536, 0)
op_42(m, b, k) == IF m.f \cap Bits(b) = {} THEN End(m, 1) ELSE op_40(m, k)
op_43(m, b, k) == IF m.f \cap Bits(b) # {} THEN End(m, 1) ELSE op_40(m, k)
op_44(m, d, b) == End([m EXCEPT !.r[d] = (@ & (255 - 2^b))
                                          | (IF "T" \in m.f THEN 2^b ELSE 0)], 1)
op_45(m, d, b) == End([m EXCEPT !.f = (@ \ {"T"}) \cup On("T", Bit(m.r[d], 2^b))], 1)
op_46(m, d, k) == IF m.r[d] & k # 0 THEN End(m, 1) ELSE SkipTail(m)
op_47(m, d, k) == IF m.r[d] & k = 0 THEN End(m, 1) ELSE SkipTail(m)
op_48(m, d, k) == End([m EXCEPT !.r[d] = k], 1)
op_49(m, s)    == End([m EXCEPT !.io[PORTC] = m.r[s] & m.io[DDRC]], 1)

\* cu_avr_exec and its table. NOP, SLEEP, BREAK, WDR and what is not defined
\* end alike (WDR's watchdog: AvrHw).
Exec(m) ==
  LET o == m.code[m.pc % RomWords]
      n == [m EXCEPT !.pc = (@ + 1) % 65536]
      d == o.a1
      s == o.a2
      i == o.op
  IN CASE i = "MOVW" -> op_01(n, d, s)   [] i = "MULS" -> op_02(n, d, s)
       [] i = "MULSU" -> op_03(n, d, s)  [] i = "FMUL" -> op_04(n, d, s)
       [] i = "FMULS" -> op_05(n, d, s)  [] i = "FMULSU" -> op_06(n, d, s)
       [] i = "CPC" -> op_07(n, d, s)    [] i = "SBC" -> op_08(n, d, s)
       [] i = "ADD" -> op_09(n, d, s)    [] i = "CPSE" -> op_0A(n, d, s)
       [] i = "CP" -> op_0B(n, d, s)     [] i = "SUB" -> op_0C(n, d, s)
       [] i = "ADC" -> op_0D(n, d, s)    [] i = "AND" -> op_0E(n, d, s)
       [] i = "EOR" -> op_0F(n, d, s)    [] i = "OR" -> op_10(n, d, s)
       [] i = "MOV" -> op_11(n, d, s)    [] i = "CPI" -> op_12(n, d, s)
       [] i = "SBCI" -> op_13(n, d, s)   [] i = "SUBI" -> op_14(n, d, s)
       [] i = "ORI" -> op_15(n, d, s)    [] i = "ANDI" -> op_16(n, d, s)
       [] i = "SPM" -> op_17(n)          [] i = "LPM" -> op_18(n, d)
       [] i = "LPM+" -> op_19(n, d)      [] i = "PUSH" -> op_1A(n, d)
       [] i = "POP" -> op_1B(n, d)       [] i = "STS" -> op_1C(n, d, s)
       [] i = "ST" -> op_1D(n, d, s)     [] i = "ST-" -> op_1E(n, d, s)
       [] i = "ST+" -> op_1F(n, d, s)    [] i = "LDS" -> op_20(n, d, s)
       [] i = "LD" -> op_21(n, d, s)     [] i = "LD-" -> op_22(n, d, s)
       [] i = "LD+" -> op_23(n, d, s)    [] i = "COM" -> op_24(n, d)
       [] i = "NEG" -> op_25(n, d)       [] i = "SWAP" -> op_26(n, d)
       [] i = "INC" -> op_27(n, d)       [] i = "ASR" -> op_28(n, d)
       [] i = "LSR" -> op_29(n, d)       [] i = "ROR" -> op_2A(n, d)
       [] i = "DEC" -> op_2B(n, d)       [] i = "JMP" -> op_2C(n, s)
       [] i = "CALL" -> op_2D(n, s)      [] i = "BSET" -> op_2E(n, d)
       [] i = "BCLR" -> op_2F(n, d)      [] i = "IJMP" -> op_30(n)
       [] i = "RET" -> op_31(n)          [] i = "ICALL" -> op_32(n)
       [] i = "RETI" -> op_33(n)         [] i = "MUL" -> op_37(n, d, s)
       [] i = "IN" -> op_38(n, d, s)     [] i = "OUT" -> op_39(n, d, s)
       [] i = "ADIW" -> op_3A(n, d, s)   [] i = "SBIW" -> op_3B(n, d, s)
       [] i = "CBI" -> op_3C(n, d, s)    [] i = "SBIC" -> op_3D(n, d, s)
       [] i = "SBI" -> op_3E(n, d, s)    [] i = "SBIS" -> op_3F(n, d, s)
       [] i = "RJMP" -> op_40(n, s)      [] i = "RCALL" -> op_41(n, s)
       [] i = "BRBS" -> op_42(n, d, s)   [] i = "BRBC" -> op_43(n, d, s)
       [] i = "BLD" -> op_44(n, d, s)    [] i = "BST" -> op_45(n, d, s)
       [] i = "SBRC" -> op_46(n, d, s)   [] i = "SBRS" -> op_47(n, d, s)
       [] i = "LDI" -> op_48(n, d, s)    [] i = "PIXEL" -> op_49(n, s)
       [] OTHER -> op_00(n)
=============================================================================
