---------------------------- MODULE AvrInstTable ----------------------------
(***************************************************************************)
(* The instructions as avr_inst_table.txt lists them: the reference that   *)
(* the compiler of AvrCompile is checked against. A row has the opcode's   *)
(* name, the pointer register it implies (0: none) and the fields of the   *)
(* word from the highest bit down: constants (C) and letters (F). ELPM is  *)
(* left out, the ATmega644 has no such instruction.                        *)
(***************************************************************************)
EXTENDS Integers, Sequences, FiniteSets

C(value, n)  == [letter |-> "", value |-> value, n |-> n]
F(letter, n) == [letter |-> letter, value |-> 0, n |-> n]
I(op, fs)      == [op |-> op, ptr |-> 0, fs |-> fs]
P(op, ptr, fs) == [op |-> op, ptr |-> ptr, fs |-> fs]

r1 == F("r", 1)
r4 == F("r", 4)
d4 == F("d", 4)
d5 == F("d", 5)
K4 == F("K", 4)

InstTable ==
  {I("NOP", <<C(0, 16)>>),
   I("MOVW", <<C(\b00000001, 8), d4, r4>>), I("MULS", <<C(\b00000010, 8), d4, r4>>),
   I("MULSU", <<C(\b000000110, 9), F("d", 3), C(0, 1), F("r", 3)>>),
   I("FMUL", <<C(\b000000110, 9), F("d", 3), C(1, 1), F("r", 3)>>),
   I("FMULS", <<C(\b000000111, 9), F("d", 3), C(0, 1), F("r", 3)>>),
   I("FMULSU", <<C(\b000000111, 9), F("d", 3), C(1, 1), F("r", 3)>>)}
  \cup
  {I(x[1], <<C(x[2], 6), r1, d5, r4>>) : x \in
    {<<"CPC", \b000001>>, <<"SBC", \b000010>>, <<"ADD", \b000011>>, <<"CPSE", \b000100>>,
     <<"CP", \b000101>>, <<"SUB", \b000110>>, <<"ADC", \b000111>>, <<"AND", \b001000>>,
     <<"EOR", \b001001>>, <<"OR", \b001010>>, <<"MOV", \b001011>>, <<"MUL", \b100111>>}}
  \cup
  {I(x[1], <<C(x[2], 4), K4, d4, K4>>) : x \in
    {<<"CPI", \b0011>>, <<"SBCI", \b0100>>, <<"SUBI", \b0101>>, <<"ORI", \b0110>>,
     <<"ANDI", \b0111>>, <<"LDI", \b1110>>}}
  \cup
  {P(x[1], x[2], <<C(\b10, 2), F("q", 1), C(0, 1), F("q", 2), C(x[3], 1), d5, C(x[4], 1),
                   F("q", 3)>>) : x \in
    {<<"LD", 30, 0, 0>>, <<"LD", 28, 0, 1>>, <<"ST", 30, 1, 0>>, <<"ST", 28, 1, 1>>}}
  \cup
  {P(x[1], x[2], <<C(\b1001000, 7), d5, C(x[3], 4)>>) : x \in
    {<<"LDS", 0, \b0000>>, <<"LD+", 30, \b0001>>, <<"LD-", 30, \b0010>>, <<"LPM", 0, \b0100>>,
     <<"LPM+", 0, \b0101>>, <<"LD+", 28, \b1001>>, <<"LD-", 28, \b1010>>, <<"LD", 26, \b1100>>,
     <<"LD+", 26, \b1101>>, <<"LD-", 26, \b1110>>, <<"POP", 0, \b1111>>}}
  \cup
  {P(x[1], x[2], <<C(\b1001001, 7), d5, C(x[3], 4)>>) : x \in
    {<<"STS", 0, \b0000>>, <<"ST+", 30, \b0001>>, <<"ST-", 30, \b0010>>, <<"ST+", 28, \b1001>>,
     <<"ST-", 28, \b1010>>, <<"ST", 26, \b1100>>, <<"ST+", 26, \b1101>>, <<"ST-", 26, \b1110>>,
     <<"PUSH", 0, \b1111>>}}
  \cup
  {I(x[1], <<C(\b1001010, 7), d5, C(x[2], 4)>>) : x \in
    {<<"COM", \b0000>>, <<"NEG", \b0001>>, <<"SWAP", \b0010>>, <<"INC", \b0011>>,
     <<"ASR", \b0101>>, <<"LSR", \b0110>>, <<"ROR", \b0111>>, <<"DEC", \b1010>>}}
  \cup
  {I("JMP", <<C(\b1001010, 7), F("k", 5), C(\b110, 3), F("k", 1)>>),
   I("CALL", <<C(\b1001010, 7), F("k", 5), C(\b111, 3), F("k", 1)>>),
   I("BSET", <<C(\b100101000, 9), F("s", 3), C(\b1000, 4)>>),
   I("BCLR", <<C(\b100101001, 9), F("s", 3), C(\b1000, 4)>>)}
  \cup
  {I(x[1], <<C(x[2], 16)>>) : x \in
    {<<"IJMP", \b1001010000001001>>, <<"RET", \b1001010100001000>>,
     <<"ICALL", \b1001010100001001>>, <<"RETI", \b1001010100011000>>,
     <<"SLEEP", \b1001010110001000>>, <<"BREAK", \b1001010110011000>>,
     <<"WDR", \b1001010110101000>>, <<"LPM", \b1001010111001000>>,
     <<"SPM", \b1001010111101000>>}}
  \cup
  {I("ADIW", <<C(\b10010110, 8), F("K", 2), F("d", 2), K4>>),
   I("SBIW", <<C(\b10010111, 8), F("K", 2), F("d", 2), K4>>)}
  \cup
  {I(x[1], <<C(x[2], 8), F("A", 5), F("b", 3)>>) : x \in
    {<<"CBI", \b10011000>>, <<"SBIC", \b10011001>>, <<"SBI", \b10011010>>, <<"SBIS", \b10011011>>}}
  \cup
  {I("IN", <<C(\b10110, 5), F("A", 2), d5, F("A", 4)>>),
   I("OUT", <<C(\b10111, 5), F("A", 2), d5, F("A", 4)>>),
   I("RJMP", <<C(\b1100, 4), F("k", 12)>>), I("RCALL", <<C(\b1101, 4), F("k", 12)>>),
   I("BRBS", <<C(\b111100, 6), F("k", 7), F("s", 3)>>),
   I("BRBC", <<C(\b111101, 6), F("k", 7), F("s", 3)>>)}
  \cup
  {I(x[1], <<C(x[2], 7), d5, C(0, 1), F("b", 3)>>) : x \in
    {<<"BLD", \b1111100>>, <<"BST", \b1111101>>, <<"SBRC", \b1111110>>, <<"SBRS", \b1111111>>}}
-----------------------------------------------------------------------------
\* The bits of w that field i of a row stands for.
FieldOf(row, i, w) ==
  LET below[j \in 0 .. Len(row.fs)] ==
        IF j = Len(row.fs) THEN 0 ELSE below[j + 1] + row.fs[j + 1].n
  IN (w \div 2^below[i]) % 2^row.fs[i].n

Matches(row, w) ==
  \A i \in 1 .. Len(row.fs) :
    row.fs[i].letter = "" => FieldOf(row, i, w) = row.fs[i].value

\* The number that the fields with a letter hold together, and its width.
Number(row, letter, w) ==
  LET upTo[i \in 0 .. Len(row.fs)] ==
        IF i = 0 THEN 0
        ELSE IF row.fs[i].letter # letter THEN upTo[i - 1]
        ELSE upTo[i - 1] * 2^row.fs[i].n + FieldOf(row, i, w)
  IN upTo[Len(row.fs)]

Width(row, letter) ==
  LET upTo[i \in 0 .. Len(row.fs)] ==
        IF i = 0 THEN 0
        ELSE upTo[i - 1] + (IF row.fs[i].letter = letter THEN row.fs[i].n ELSE 0)
  IN upTo[Len(row.fs)]

Has(row, letter) == Width(row, letter) > 0

\* Fewer bits than five select among the upper registers, or pairs.
Register(row, letter, w) ==
  LET n == Number(row, letter, w)
  IN CASE Width(row, letter) = 5 -> n
       [] row.op = "MOVW"        -> 2 * n
       [] Width(row, letter) = 2 -> 24 + 2 * n
       [] OTHER                  -> 16 + n

SignExtended(row, w) ==
  LET n == Number(row, "k", w)
      half == 2^(Width(row, "k") - 1)
  IN IF n < half THEN n ELSE n + 65536 - 2 * half

\* The arguments of the opcode, as the head of cu_avrc.h lists them, for a
\* word that matches the row and the one after it.
Arguments(row, w, w1) ==
  LET d == Register(row, "d", w)
      bit == Number(row, "b", w)
      port == Number(row, "A", w) + 32
  IN CASE row.op \in {"LDS", "STS"}  -> <<d, w1>>
       [] row.op \in {"JMP", "CALL"} -> <<Number(row, "k", w) \div 2, w1>>
       [] Has(row, "r") -> <<d, Register(row, "r", w)>>
       [] Has(row, "K") -> <<d, Number(row, "K", w)>>
       [] row.ptr # 0   -> <<d, row.ptr + 256 * Number(row, "q", w)>>
       [] Has(row, "A") /\ Has(row, "b") -> <<port, 2^bit>>
       [] row.op = "IN"  -> <<d, port>>
       [] row.op = "OUT" -> <<port, d>>
       [] row.op \in {"BLD", "BST"}   -> <<d, bit>>
       [] row.op \in {"SBRC", "SBRS"} -> <<d, 2^bit>>
       [] Has(row, "s") -> <<2^Number(row, "s", w),
                            IF Has(row, "k") THEN SignExtended(row, w) ELSE 0>>
       [] Has(row, "k") -> <<0, SignExtended(row, w)>>
       [] Has(row, "d") -> <<d, 0>>
       [] OTHER         -> <<0, 0>>

\* What the table says of a word: nothing, or one opcode. Output to PORTC has
\* an opcode of its own.
Documented(w, w1) ==
  {LET a == Arguments(row, w, w1)
   IN IF row.op = "OUT" /\ a[1] = 40
      THEN [op |-> "PIXEL", two |-> FALSE, a1 |-> 0, a2 |-> a[2]]
      ELSE [op |-> row.op, two |-> row.op \in {"LDS", "STS", "JMP", "CALL"},
            a1 |-> a[1], a2 |-> a[2]]
     : row \in {t \in InstTable : Matches(t, w)}}
=============================================================================
