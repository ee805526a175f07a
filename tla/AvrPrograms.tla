---------------------------- MODULE AvrPrograms ----------------------------
(***************************************************************************)
(* Programs for AvrCpu, in AVR machine code, and what each one computes:   *)
(* integer arithmetic on words of two bytes, as compilers write it, a      *)
(* routine with a call and skips, a boot loader that writes a page of the  *)
(* ROM, and each single instruction.                                       *)
(***************************************************************************)
EXTENDS AvrCpu

\* The ROM of a program: an interrupt routine at word 16 that saves and
\* restores what it changes, and a page at word 28 that is written.
Image(code) ==
  LET handler == <<37391, 46607, 37391, 9216, 37891, 36879, 48655, 36879, 38168>>
  IN [i \in 0 .. 31 |-> CASE i < Len(code) -> code[i + 1]
                          [] i \in 16 .. 24 -> handler[i - 15]
                          [] i = 27 -> 37900           \* JMP: second word at 28
                          [] OTHER -> 0]

\* Programs that end at BREAK, by what they compute.
Arithmetic ==
  [add  |-> <<3842, 7955, 38296>>,         \* ADD r16,r18; ADC r17,r19
   sub  |-> <<6914, 2835, 38296>>,         \* SUB r16,r18; SBC r17,r19
   cmp  |-> <<5890, 1811, 38296>>,         \* CP r16,r18; CPC r17,r19
   subi |-> <<22529, 16400, 38296>>,       \* SUBI r16,129; SBCI r17,0
   neg  |-> <<38160, 38145, 20255, 38296>>,\* COM r17; NEG r16; SBCI r17,255
   asr  |-> <<38165, 38151, 38296>>,       \* ASR r17; ROR r16
   lsl  |-> <<3840, 7953, 38296>>,         \* LSL r16; ROL r17
   adiw |-> <<38401, 38296>>,              \* ADIW r24,1
   sbiw |-> <<38657, 38296>>,              \* SBIW r24,1
   mul  |-> <<40706, 38296>>,              \* MUL r16,r18
   muls |-> <<514, 38296>>,                \* MULS r16,r18
   mulsu |-> <<770, 38296>>]               \* MULSU r16,r18

\* SBRC r16,0; CALL 10; CPSE r16,r17; STS 256,r16; PUSH r16; RCALL 10;
\* POP r18; BREAK. At 10: LDS r19,256; SBRS r19,1; RJMP +0; RET.
Routine == <<64768, 37902, 10, 4865, 37632, 256, 37647, 53250, 37167, 38296,
             37168, 256, 65329, 49152, 38152>>

\* LDI r20,1; OUT SPMCSR,r20; SPM; LDI r20,3; OUT; SPM; wait until done;
\* LDI r20,5; OUT; SPM; BREAK: fill the buffer, erase and write page 7.
Loader == <<57409, 48967, 38376, 57411, 48967, 38376, 46935, 64848, 53245,
            57413, 48967, 38376, 38296>>

\* A boot: registers are 0 but those given.
Boot(name, code, regs, flags, n) ==
  [name |-> name, rom |-> Image(code), interrupts |-> n, once |-> FALSE, f |-> flags,
   r |-> [i \in 0 .. 31 |-> IF i \in DOMAIN regs THEN regs[i] ELSE 0]]

ArithmeticBoots(operands, flags, n) ==
  {Boot(p, Arithmetic[p],
        (16 :> a @@ 17 :> b @@ 18 :> c @@ 19 :> d @@ 24 :> a @@ 25 :> b), flags, n) :
     p \in DOMAIN Arithmetic, a, b, c, d \in operands}

RoutineBoots(operands, n) ==
  {Boot("routine", Routine, (16 :> a @@ 17 :> b), {"I"}, n) : a, b \in operands}

LoaderBoots(operands, n) ==
  {Boot("loader", Loader, (31 :> 7 @@ 0 :> a @@ 1 :> b), {"I"}, n) : a, b \in operands}

\* One instruction: any word, with registers that point into memory.
WordBoots(words, second) ==
  {[Boot("word", <<w, second>>, <<>>, {"C"}, 0) EXCEPT !.once = TRUE,
      !.r = [i \in 0 .. 31 |-> ((i * 37) + 200) % 256]] : w \in words}
-----------------------------------------------------------------------------
SignedWord(x) == IF x >= 32768 THEN x - 65536 ELSE x

First(b)  == b.r[16] + 256 * b.r[17]
Second(b) == IF b.name = "subi" THEN 129 ELSE b.r[18] + 256 * b.r[19]

\* The flags after a subtraction, as the branches of compilers use them: C
\* is "less" of natural numbers, S of signed ones, Z is "equal".
Compared(x, y) ==
  /\ "C" \in m.f <=> x < y
  /\ "Z" \in m.f <=> x = y
  /\ "S" \in m.f <=> SignedWord(x) < SignedWord(y)

\* Word arithmetic made of byte instructions gives the integers' results and
\* comparisons, whatever interrupts come in between: the carry and the
\* chained Z of cu_avr_n.h:119, the table of cu_avrfg.c that looks at two
\* bits of each operand, the 16 bit products. (An interrupt may make the
\* loader's SPM late.)
WideArithmetic ==
  Opcode.op = "BREAK" =>
    LET x == First(boot)
        y == Second(boot)
        w == Pair(m, 16)
        sx == Signed(boot.r[16])
    IN CASE boot.name = "add" -> /\ w = (x + y) % 65536
                                 /\ "C" \in m.f <=> x + y > 65535
         [] boot.name \in {"sub", "subi"} -> w = (x - y) % 65536 /\ Compared(x, y)
         [] boot.name = "cmp" -> w = x /\ Compared(x, y)
         [] boot.name = "neg" -> w = (-x) % 65536
         [] boot.name = "asr" -> /\ w = (SignedWord(x) \div 2) % 65536
                                 /\ "C" \in m.f <=> x % 2 = 1
         [] boot.name = "lsl" -> w = (2 * x) % 65536 /\ ("C" \in m.f <=> x > 32767)
         [] boot.name = "adiw" -> Pair(m, 24) = (x + 1) % 65536
         [] boot.name = "sbiw" -> Pair(m, 24) = (x - 1) % 65536 /\ Compared(x, 1)
         [] boot.name = "mul" -> Pair(m, 0) = boot.r[16] * boot.r[18]
         [] boot.name = "muls" -> Pair(m, 0) = (sx * Signed(boot.r[18])) % 65536
         [] boot.name = "mulsu" -> Pair(m, 0) = (sx * boot.r[18]) % 65536
         [] boot.name = "routine" -> m.r[18] = boot.r[16] /\ m.sp = 4351
         [] boot.name = "loader" /\ boot.interrupts = 0 -> m.rom[28] = boot.r[0] + 256 * boot.r[1]
         [] OTHER -> TRUE
=============================================================================
