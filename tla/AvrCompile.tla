----------------------------- MODULE AvrCompile -----------------------------
(***************************************************************************)
(* The compiler of AVR instructions (cu_avrc.c): a program word, with the  *)
(* next one for the instructions of two words, to the opcode that the      *)
(* decoder executes. An opcode is a record of the instruction's name (its  *)
(* number in the list at the head of cu_avrc.h), the flag that it has two  *)
(* words, and the two arguments.                                           *)
(*                                                                         *)
(* Definitions named Fault... are faulty variants of the definition after  *)
(* them; no specification uses them. Each breaks one of the properties.    *)
(***************************************************************************)
EXTENDS Integers

\* n bits of w from bit i on.
Field(w, i, n) == (w \div 2^i) % 2^n

Op(name, a1, a2)  == [op |-> name, two |-> FALSE, a1 |-> a1, a2 |-> a2]
Two(name, a1, a2) == [op |-> name, two |-> TRUE, a1 |-> a1, a2 |-> a2]
Undef == Op("UNDEF", 0, 0)

X == 26
Y == 28
Z == 30

\* Operands as most instructions have them.
D(w)  == Field(w, 4, 5)                        \* destination, r0 - r31
R(w)  == Field(w, 0, 4) + 16 * Field(w, 9, 1)  \* source, r0 - r31
Dh(w) == Field(w, 4, 4) + 16                   \* destination, r16 - r31
K(w)  == Field(w, 0, 4) + 16 * Field(w, 8, 4)  \* immediate of 8 bits
Mask(w) == 2^Field(w, 0, 3)                    \* mask of the bit selected

\* 0x00: NOP, MOVW and the multiplications other than MUL.
Moves(w) ==
  CASE Field(w, 8, 2) = 0 -> IF Field(w, 0, 8) = 0 THEN Op("NOP", 0, 0) ELSE Undef
    [] Field(w, 8, 2) = 1 -> Op("MOVW", 2 * Field(w, 4, 4), 2 * Field(w, 0, 4))
    [] Field(w, 8, 2) = 2 -> Op("MULS", Dh(w), Field(w, 0, 4) + 16)
    [] OTHER -> Op(<<"MULSU", "FMUL", "FMULS", "FMULSU">>
                     [1 + Field(w, 3, 1) + 2 * Field(w, 7, 1)],
                   Field(w, 4, 3) + 16, Field(w, 0, 3) + 16)

\* 0x01 - 0x0B: two registers.
Registers(w) ==
  Op(<<"CPC", "SBC", "ADD", "CPSE", "CP", "SUB", "ADC", "AND", "EOR", "OR",
       "MOV">>[Field(w, 10, 6)], D(w), R(w))

\* 0x0C - 0x1F: a register and an immediate.
Immediates(w) ==
  Op(<<"CPI", "SBCI", "SUBI", "ORI", "ANDI">>[Field(w, 12, 4) - 2], Dh(w), K(w))

FaultDisplaced(w) ==
  Op(IF Field(w, 9, 1) = 0 THEN "LD" ELSE "ST", D(w),
     (IF Field(w, 3, 1) = 1 THEN Y ELSE Z)
       + 256 * (Field(w, 0, 3) + 8 * Field(w, 10, 2)))

\* 0x20 - 0x23, 0x28 - 0x2B: LD and ST with a displacement, in the high byte
\* of the second argument.
Displaced(w) ==
  Op(IF Field(w, 9, 1) = 0 THEN "LD" ELSE "ST", D(w),
     (IF Field(w, 3, 1) = 1 THEN Y ELSE Z)
       + 256 * (Field(w, 0, 3) + 8 * Field(w, 10, 2) + 32 * Field(w, 13, 1)))

\* 0x24, by the low four bits: the pointer and how it moves.
Pointer == [n \in {1, 2, 9, 10, 12, 13, 14} |->
  CASE n \in {1, 2} -> Z [] n \in {9, 10} -> Y [] OTHER -> X]
Moving(n) == CASE n \in {1, 9, 13} -> "+" [] n \in {2, 10, 14} -> "-" [] OTHER -> ""

Loads(w, w1) ==
  LET n == Field(w, 0, 4)
  IN CASE n = 0  -> Two("LDS", D(w), w1)
       [] n = 4  -> Op("LPM", D(w), 0)
       [] n = 5  -> Op("LPM+", D(w), 0)
       [] n = 15 -> Op("POP", D(w), 0)
       [] n \in DOMAIN Pointer ->
            Op([m \in {"", "+", "-"} |->
                  CASE m = "+" -> "LD+" [] m = "-" -> "LD-" [] OTHER -> "LD"][Moving(n)],
               D(w), Pointer[n])
       [] OTHER -> Undef

Stores(w, w1) ==
  LET n == Field(w, 0, 4)
  IN CASE n = 0  -> Two("STS", D(w), w1)
       [] n = 15 -> Op("PUSH", D(w), 0)
       [] n \in DOMAIN Pointer ->
            Op([m \in {"", "+", "-"} |->
                  CASE m = "+" -> "ST+" [] m = "-" -> "ST-" [] OTHER -> "ST"][Moving(n)],
               D(w), Pointer[n])
       [] OTHER -> Undef

\* 0x25 with low bits 0x8 and bit 8 set.
Control(w) ==
  LET n == Field(w, 4, 4)
  IN CASE n = 0  -> Op("RET", 0, 0)
       [] n = 1  -> Op("RETI", 0, 0)
       [] n \in 8 .. 10 -> Op(<<"SLEEP", "BREAK", "WDR">>[n - 7], 0, 0)
       [] n = 12 -> Op("LPM", 0, 0)
       [] n = 14 -> Op("SPM", 0, 0)
       [] OTHER  -> Undef

\* 0x25: one register, flags, jumps and calls; ADIW and SBIW.
Various(w, w1) ==
  LET n == Field(w, 0, 4)
  IN IF Field(w, 9, 1) = 1
     THEN Op(IF Field(w, 8, 1) = 0 THEN "ADIW" ELSE "SBIW",
             24 + 2 * Field(w, 4, 2), Field(w, 0, 4) + 16 * Field(w, 6, 2))
     ELSE CASE n \in 0 .. 3 -> Op(<<"COM", "NEG", "SWAP", "INC">>[n + 1], D(w), 0)
            [] n \in 5 .. 7 -> Op(<<"ASR", "LSR", "ROR">>[n - 4], D(w), 0)
            [] n = 8 /\ Field(w, 8, 1) = 0 ->
                 Op(IF Field(w, 7, 1) = 0 THEN "BSET" ELSE "BCLR",
                    2^Field(w, 4, 3), 0)
            [] n = 8 /\ Field(w, 8, 1) = 1 -> Control(w)
            [] n = 9  -> Op(IF Field(w, 8, 1) = 0 THEN "IJMP" ELSE "ICALL", 0, 0)
            [] n = 10 -> Op("DEC", D(w), 0)
            [] n \in 12 .. 15 -> Two(IF Field(w, 1, 1) = 0 THEN "JMP" ELSE "CALL",
                                     D(w), w1)
            [] OTHER -> Undef

\* 0x26: bits of I/O registers.
IoBits(w) == Op(<<"CBI", "SBIC", "SBI", "SBIS">>[Field(w, 8, 2) + 1],
                Field(w, 3, 5) + 32, Mask(w))

\* 0x2C - 0x2F: I/O registers; OUT to PORTC is an instruction of its own.
PORTC == 40
IoReg(w) == Field(w, 0, 4) + 16 * Field(w, 9, 2) + 32
InOut(w) == IF Field(w, 11, 1) = 0 THEN Op("IN", D(w), IoReg(w))
            ELSE IF IoReg(w) = PORTC THEN Op("PIXEL", 0, D(w))
            ELSE Op("OUT", IoReg(w), D(w))

\* Relative targets, sign extended to the argument's 16 bits.
Extended(k, width) == IF k >= 2^(width - 1) THEN 65536 - 2^width + k ELSE k

Relative(w) == Op(IF Field(w, 12, 1) = 0 THEN "RJMP" ELSE "RCALL", 0,
                  Extended(Field(w, 0, 12), 12))
Branch(w)   == Op(IF Field(w, 10, 1) = 0 THEN "BRBS" ELSE "BRBC", Mask(w),
                  Extended(Field(w, 3, 7), 7))

BitCopies(w) == Op(IF Field(w, 9, 1) = 0 THEN "BLD" ELSE "BST", D(w), Field(w, 0, 3))
BitSkips(w)  == Op(IF Field(w, 9, 1) = 0 THEN "SBRC" ELSE "SBRS", D(w), Mask(w))

\* cu_avrc_compile.
Compile(w, w1) ==
  LET n == Field(w, 10, 6)
  IN CASE n = 0 -> Moves(w)
       [] n \in 1 .. 11 -> Registers(w)
       [] n \in 12 .. 31 -> Immediates(w)
       [] n \in (32 .. 35) \cup (40 .. 43) -> Displaced(w)
       [] n = 36 -> IF Field(w, 9, 1) = 0 THEN Loads(w, w1) ELSE Stores(w, w1)
       [] n = 37 -> Various(w, w1)
       [] n = 38 -> IoBits(w)
       [] n = 39 -> Op("MUL", D(w), R(w))
       [] n \in 44 .. 47 -> InOut(w)
       [] n \in 48 .. 55 -> Relative(w)
       [] n \in 56 .. 59 -> Op("LDI", Dh(w), K(w))
       [] n \in 60 .. 61 -> Branch(w)
       [] n = 62 -> BitCopies(w)
       [] OTHER -> BitSkips(w)
=============================================================================
