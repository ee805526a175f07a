------------------------------ MODULE AvrFlags ------------------------------
(***************************************************************************)
(* The flags of the AVR's arithmetic (cu_avrfg.c). They are computed once, *)
(* for all operands, into tables that the instruction decoder indexes by   *)
(* the result and a few bits of the operands.                              *)
(*                                                                         *)
(* A set of flags is a set of their letters. Results are integers: the     *)
(* code's unsigned words and their bits, by the weight of the bit.         *)
(***************************************************************************)
EXTENDS Integers

Byte == 0 .. 255

Bit(x, weight) == (x \div weight) % 2 = 1

On(flag, cond) == IF cond THEN {flag} ELSE {}

\* SREG_SET_Z: true of 0, for values of 16 bits at most. (Bit 17 of x - 1 is
\* the bit of Z after the shift.)
ZeroTest(x) == Bit(x - 1, 131072)

\* The flags of an addition or subtraction, given what sets V.
Collect(dst, src, res, v) ==
  On("H", (Bit(src, 16) # Bit(dst, 16)) # Bit(res, 16)) \cup
  On("V", v) \cup On("N", Bit(res, 128)) \cup On("S", v # Bit(res, 128)) \cup
  On("C", Bit(res, 256)) \cup On("Z", ZeroTest(res % 256))

GenAdd(dst, src, res) ==
  Collect(dst, src, res, Bit(src, 128) = Bit(dst, 128)
                         /\ Bit(res, 128) # Bit(dst, 128))

GenSub(dst, src, res) ==
  Collect(dst, src, res, Bit(src, 128) # Bit(dst, 128)
                         /\ Bit(res, 128) # Bit(dst, 128))

\* A right shift of a source with bit 0 as given.
GenShr(low, res) ==
  On("C", low) \cup On("V", low # Bit(res, 128)) \cup On("N", Bit(res, 128))
  \cup On("S", low) \cup On("Z", ZeroTest(res))

GenLog(res) ==
  IF res > 127 THEN {"S", "N"} ELSE On("Z", ZeroTest(res))

Step(res, v) ==
  On("V", v) \cup On("N", Bit(res, 128)) \cup On("S", v # Bit(res, 128))
  \cup On("Z", ZeroTest(res))

GenInc(res) == Step(res, res = 128)
GenDec(res) == Step(res, res = 127)
-----------------------------------------------------------------------------
(* The tables (cu_avrfg_fill). Of operands with the same index the ones    *)
(* written last stay. Sources and carries are numbered from the end of the *)
(* loops over them, so that the last ones have the smallest number.        *)

Index(dst, src, res) ==
  <<res % 512, Bit(src, 128), Bit(src, 16), Bit(dst, 128), Bit(dst, 16)>>

Indices == (0 .. 511) \X BOOLEAN \X BOOLEAN \X BOOLEAN \X BOOLEAN

Src(n) == 255 - (n % 256)
Cy(n)  == 1 - (n \div 256)

\* The rounds of the loops with a source that fits the index.
Rounds(i) == {c * 256 + b7 + h * 32 + b4 + l :
                c \in {0, 1}, b7 \in {IF i[2] THEN 0 ELSE 128}, h \in 0 .. 3,
                b4 \in {IF i[3] THEN 0 ELSE 16}, l \in 0 .. 15}

\* The destination that a round needs to meet an index.
Dst(i, n, sub) == (IF sub THEN i[1] + (Src(n) + Cy(n)) ELSE i[1] - (Src(n) + Cy(n))) % 512

Entry(i, sub) ==
  LET W == {n \in Rounds(i) : LET dst == Dst(i, n, sub) IN
              dst \in Byte /\ Bit(dst, 128) = i[4] /\ Bit(dst, 16) = i[5]}
      last == CHOOSE n \in W : \A o \in W : n <= o
      dst  == Dst(i, last, sub)
  IN IF W = {} THEN {}
     ELSE IF sub THEN GenSub(dst, Src(last), i[1]) ELSE GenAdd(dst, Src(last), i[1])

AddTable == [i \in Indices |-> Entry(i, FALSE)]
SubTable == [i \in Indices |-> Entry(i, TRUE)]
-----------------------------------------------------------------------------
\* The number that a byte stands for in two's complement.
Signed(x) == IF x > 127 THEN x - 256 ELSE x
=============================================================================
