------------------------------ MODULE SpiProofs ------------------------------
(***************************************************************************)
(* SpiBus for every size of the chip, of its pages and of the bytes: the   *)
(* address counter stays in its range, a deselected chip stays as it is,   *)
(* and the bytes that the program exchanges with the RAM are those of a    *)
(* SerialMemory. The cells are addressed by remainders of the counter, so  *)
(* that most of the proof is about % (ModularArith).                       *)
(***************************************************************************)
EXTENDS SpiBus, ModularArith

\* Addresses that so many bytes tell apart.
Span(bytes) == IF bytes = 3 THEN Radix * Bank ELSE Weight(bytes)

Modes == {ByteMode, SeqMode, PageMode, Unused}

Sizes == {p * Bank : p \in {q \in PowersOfTwo : q <= MaxBanks}}

\* A deselected chip waits for a command, and an address that is not complete
\* leaves room for the bytes still to come.
Sound(r) ==
  /\ r.size \in Sizes
  /\ ~r.ena => r.state = "IDLE"
  /\ r.state \in {"READ", "WRITE"} =>
       /\ r.ppos \in 0 .. AddrBytes(r.size) - 1
       /\ r.addr + Span(AddrBytes(r.size) - r.ppos) <= Span(AddrBytes(r.size))

\* A byte under way was sent to a chip in the state in which it gets it, unless
\* the chip was deselected.
Fits(r, b) ==
  /\ r.state \in {"READ", "WRITE"} => b < Radix
  /\ r.state = "WRITEB" => b \in Value
  /\ r.state = "WMODE" => b \in Modes

Inv ==
  /\ TypeOK
  /\ cells \in [0 .. ram.size - 1 -> Value]
  /\ Sound(ram)
  /\ tran.busy => Fits(ram, tran.tx)
-----------------------------------------------------------------------------
(* Sizes and addresses.                                                    *)

\* The constants, as numbers.
LEMMA Units ==
  /\ Radix \in 1 .. 256 /\ Bank \in Nat \ {0} /\ Bank = Radix * Radix
  /\ PageSize \in Nat \ {0} /\ Bank % PageSize = 0
  /\ AddrMod \in Nat \ {0} /\ Radix * Bank <= AddrMod /\ Radix * Bank \in Nat
  /\ Radix <= Bank /\ Bank <= Radix * Bank
  /\ Value \subseteq 0 .. 255 /\ 0 \in Value
<1>1. Radix \in 1 .. 256 /\ Bank = Radix * Radix
  BY SpiRamAssumption DEF SpiRamAssumption, Bank
<1>2. Bank \in Nat \ {0} /\ Radix <= Bank
  BY <1>1, SMT
<1>3. Radix * Bank \in Nat /\ Bank <= Radix * Bank
  <2> HIDE DEF Bank
  <2>1. Radix - 1 \in Nat /\ Bank \in Nat /\ (Radix - 1) * Bank \in Nat
    BY <1>1, <1>2, ProductNat
  <2>2. Bank * (Radix - 1) = Bank * Radix - Bank * 1 /\ Bank * 1 = Bank
    BY <1>1, <1>2, Distribute
  <2>3. Bank * (Radix - 1) = (Radix - 1) * Bank /\ Bank * Radix = Radix * Bank
    BY <1>1, <1>2, <2>1, Distribute
  <2> QED BY <2>1, <2>2, <2>3, <1>1, <1>2
<1> QED BY <1>1, <1>2, <1>3, SpiRamAssumption DEF SpiRamAssumption

\* Those that the arithmetic below needs.
LEMMA Types ==
  /\ Radix \in Nat /\ Bank \in Nat \ {0} /\ PageSize \in Nat \ {0}
  /\ AddrMod \in Nat \ {0} /\ Bank % PageSize = 0
  BY Units

\* A size is a power of two of banks, so that pages and the counter divide
\* evenly.
LEMMA SizeFacts ==
  ASSUME NEW size \in Sizes
  PROVE  /\ size \in Nat \ {0}
         /\ size % PageSize = 0
         /\ AddrMod % size = 0
         /\ AddrMod % PageSize = 0
         /\ size \in {p * Bank : p \in PowersOfTwo}
<1>1. PICK p \in PowersOfTwo : p <= MaxBanks /\ size = p * Bank
  BY DEF Sizes
<1>2. p \in Nat \ {0}
  BY DEF PowersOfTwo
<1>3. size \in Nat \ {0}
  BY <1>1, <1>2, Units, SMT
<1>4. AddrMod % size = 0
  BY <1>1, SpiRamAssumption DEF SpiRamAssumption
<1>5. size % PageSize = 0
  <2> DEFINE k == Bank \div PageSize
  <2>1. k \in Int /\ Bank % PageSize = Bank - PageSize * k /\ PageSize * k \in Int
    BY Units, DivMod, Distribute
  <2>2. Bank = PageSize * k
    BY <2>1, Units
  <2> HIDE DEF k
  <2>3. size = PageSize * (k * p) /\ k * p \in Int
    <3>1. p \in Int /\ PageSize \in Int /\ Bank \in Int
      BY <1>2, Units
    <3> HIDE DEF Bank
    <3>2. p * Bank = Bank * p /\ PageSize * (k * p) = (PageSize * k) * p /\ k * p \in Int
      BY <2>1, <3>1, Distribute
    <3> QED BY <1>1, <2>2, <3>2
  <2>4. 0 \in 0 .. PageSize - 1
    BY Units
  <2>5. (PageSize * (k * p) + 0) % PageSize = 0
    <3> DEFINE q == k * p
    <3> HIDE DEF q
    <3>1. q \in Int
      BY <2>3 DEF q
    <3>2. (PageSize * q + 0) % PageSize = 0
      BY <2>4, <3>1, Types, ModUnique
    <3> QED BY <3>2 DEF q
  <2>6. PageSize * (k * p) + 0 = PageSize * (k * p)
    <3> HIDE DEF Sizes
    <3>1. size + 0 = size
      BY <1>3
    <3> QED BY <2>3, <3>1
  <2> QED BY <2>3, <2>5, <2>6
<1>6. AddrMod % PageSize = 0
  <2>1. (AddrMod % size) % PageSize = AddrMod % PageSize
    <3>1. AddrMod \in Int
      BY Types
    <3> QED BY <1>3, <1>5, <3>1, Types, ModMod
  <2>2. 0 % PageSize = 0
    BY Types
  <2> QED BY <2>1, <2>2, <1>4
<1> QED BY <1>1, <1>3, <1>4, <1>5, <1>6

\* The byte after one in its page.
LEMMA PageRange ==
  ASSUME NEW n \in Nat \ {0}, n % PageSize = 0, NEW x \in 0 .. n - 1
  PROVE  NextInPage(x) \in 0 .. n - 1
<1>1. x - (x % PageSize) \in 0 .. n - PageSize
  BY Units, RoomForBlock
<1>2. (x + 1) % PageSize \in 0 .. PageSize - 1
  <2>1. x + 1 \in Int
    OBVIOUS
  <2> QED BY <2>1, Units, DivMod
<1> HIDE DEF NextInPage
<1> QED BY <1>1, <1>2, Units DEF NextInPage

\* It is the same, seen from a memory that repeats.
LEMMA PageMasked ==
  ASSUME NEW n \in Nat \ {0}, n % PageSize = 0, NEW x \in Nat
  PROVE  NextInPage(x) % n = NextInPage(x % n)
<1> DEFINE d == x \div n
           y == x % n
           p == n * d
<1>0. x \in Int
  OBVIOUS
<1>1. d \in Int /\ y = x - p /\ y \in 0 .. n - 1 /\ p \in Int
  <2>1. d \in Int /\ y = x - p /\ y \in 0 .. n - 1
    BY <1>0, DivMod
  <2>2. p \in Int
    BY <2>1, Distribute
  <2> QED BY <2>1, <2>2
<1>2. y % PageSize = x % PageSize /\ (y + 1) % PageSize = (x + 1) % PageSize
  <2>1. y % PageSize = x % PageSize
    BY <1>0, Types, ModMod
  <2>2. y \in Int
    BY <1>1
  <2> HIDE DEF y
  <2> QED BY <1>0, <2>1, <2>2, Types, SuccMod
<1> HIDE DEF d, y
<1>3. x % PageSize \in Int /\ (x + 1) % PageSize \in Int
  <2>1. x + 1 \in Int
    OBVIOUS
  <2> QED BY <2>1, Types, DivMod
<1>4. NextInPage(x) = p + NextInPage(y)
  BY <1>1, <1>2, <1>3 DEF NextInPage
<1>5. NextInPage(y) \in 0 .. n - 1
  BY <1>1, PageRange
<1>6. (n * d + NextInPage(y)) % n = NextInPage(y)
  BY <1>1, <1>5, ModUnique
<1> QED BY <1>4, <1>6 DEF y
-----------------------------------------------------------------------------
(* What the commands do to a chip.                                         *)

\* The cell a stream goes on to.
Follow(r, a) ==
  CASE r.mode = SeqMode  -> (a + 1) % r.size
    [] r.mode = PageMode -> NextInPage(a)
    [] OTHER             -> a

\* The cell of an address is one of the chip.
LEMMA Addresses ==
  ASSUME NEW r \in Ram, r.size \in Sizes
  PROVE  /\ r.addr \in 0 .. AddrMod - 1 /\ r.addr \in Int
         /\ At(r) \in 0 .. r.size - 1
<1>1. r.addr \in 0 .. AddrMod - 1 /\ r.addr \in Int
  BY Types DEF Ram
<1>2. r.addr % r.size \in 0 .. r.size - 1
  BY <1>1, SizeFacts, DivMod
<1> QED BY <1>1, <1>2 DEF At

\* The unmasked counter of reads goes to the cell that follows in the mode,
LEMMA ReadFollows ==
  ASSUME NEW r \in Ram, r.size \in Sizes
  PROVE  /\ ReadNext(r) \in 0 .. AddrMod - 1
         /\ ReadNext(r) % r.size = Follow(r, At(r))
<1>1. /\ r.addr \in 0 .. AddrMod - 1 /\ r.addr \in Int /\ r.addr \in Nat
      /\ r.addr + 1 \in Int
  BY Addresses
<1>2. CASE r.mode = PageMode
  <2>1. NextInPage(r.addr) \in 0 .. AddrMod - 1
    BY <1>1, SizeFacts, Types, PageRange
  <2>2. NextInPage(r.addr) % r.size = NextInPage(At(r))
    BY <1>1, SizeFacts, PageMasked DEF At
  <2> QED BY <1>2, <2>1, <2>2 DEF ReadNext, Follow, PageMode, SeqMode
<1>3. CASE r.mode = SeqMode
  <2>1. (r.addr + 1) % AddrMod \in 0 .. AddrMod - 1
    BY <1>1, Types, DivMod
  <2>2. ((r.addr + 1) % AddrMod) % r.size = (At(r) + 1) % r.size
    BY <1>1, SizeFacts, Types, ModSucc DEF At
  <2> QED BY <1>3, <2>1, <2>2 DEF ReadNext, Follow, PageMode, SeqMode
<1>4. CASE r.mode \notin {PageMode, SeqMode}
  BY <1>1, <1>4 DEF ReadNext, Follow, At
<1> QED BY <1>2, <1>3, <1>4

\* and so does the masked one of writes.
LEMMA WriteFollows ==
  ASSUME NEW r \in Ram, r.size \in Sizes
  PROVE  /\ WriteNext(r) \in 0 .. AddrMod - 1
         /\ WriteNext(r) % r.size = Follow(r, At(r))
<1>1. /\ r.addr \in 0 .. AddrMod - 1 /\ r.addr \in Int /\ r.addr + 1 \in Int
      /\ r.size \in Nat \ {0} /\ r.size % r.size = 0
  <2>1. r.size \in Nat \ {0}
    BY SizeFacts
  <2>2. r.size % r.size = 0
    BY <2>1, SelfMod
  <2>3. r.addr \in 0 .. AddrMod - 1 /\ r.addr \in Int
    BY Addresses
  <2> QED BY <2>1, <2>2, <2>3
<1>2. CASE r.mode = PageMode \/ r.mode \notin {PageMode, SeqMode}
  <2>1. WriteNext(r) = ReadNext(r)
    BY <1>2 DEF WriteNext, ReadNext, PageMode, SeqMode
  <2> QED BY <2>1, ReadFollows
<1>3. CASE r.mode = SeqMode
  <2>1. ((r.addr + 1) % r.size) % r.size = (At(r) + 1) % r.size
    BY <1>1, ModSucc DEF At
  <2>2. (r.addr + 1) % r.size \in 0 .. r.size - 1
    BY <1>1, DivMod
  <2>3. r.size <= AddrMod
    <3>1. r.size - 1 \in Int /\ AddrMod % r.size = 0 /\ AddrMod \in Nat \ {0}
      BY <1>1, SizeFacts, Types
    <3>2. CASE AddrMod \in 0 .. r.size - 1
      <4>1. AddrMod % r.size = AddrMod
        BY <1>1, <3>2, ModSmall
      <4> QED BY <4>1, <3>1
    <3> QED BY <3>1, <3>2, <1>1
  <2> QED BY <1>1, <1>3, <2>1, <2>2, <2>3, Types DEF WriteNext, Follow, PageMode, SeqMode
<1> QED BY <1>2, <1>3

\* A byte of an address takes its place in it.
LEMMA AddressSound ==
  ASSUME NEW r \in Ram, Sound(r), r.state \in {"READ", "WRITE"},
         NEW b \in 0 .. Radix - 1
  PROVE  LET n == Addressed(r, b) IN
         /\ n \in Ram /\ n.size = r.size /\ n.ena = r.ena /\ n.state = r.state
         /\ n.mode = r.mode /\ n.data = r.data
         /\ n.addr = r.addr + b * Weight(AddrBytes(r.size) - 1 - r.ppos)
         /\ ~Complete(r) => Sound(n) /\ n.ppos = r.ppos + 1
<1> DEFINE k == AddrBytes(r.size)
           a == r.addr + b * Weight(k - 1 - r.ppos)
           p == (r.ppos + 1) % k
           n == [r EXCEPT !.addr = a, !.ppos = p]
<1>0. Addressed(r, b) = n
  BY DEF Addressed, Ram
<1>1. /\ k \in {2, 3} /\ r.ppos \in 0 .. k - 1
      /\ r.addr \in Nat /\ r.addr + Span(k - r.ppos) <= Span(k)
  BY DEF Sound, AddrBytes, Ram
<1>2. /\ a \in Nat /\ a + Span(k - 1 - r.ppos) <= Span(k)
      /\ Span(k - 1 - r.ppos) \in Nat \ {0}
  <2> HIDE DEF k
  <2>1. \A u \in Nat : /\ b * u + u <= Radix * u /\ b * u \in Nat /\ Radix * u \in Int
    <3> TAKE u \in Nat
    <3>1. Radix - b - 1 \in Nat /\ b \in Nat /\ Radix \in Int
      BY Types
    <3>2. (Radix - b - 1) * u \in Nat /\ b * u \in Nat
      BY <3>1, ProductNat
    <3>3. u * (Radix - (b + 1)) = u * Radix - u * (b + 1) /\ u * (b + 1) = u * b + u * 1
          /\ u * 1 = u
      BY <3>1, Distribute
    <3>4. u * Radix = Radix * u /\ u * b = b * u /\ Radix * u \in Int
          /\ u * (Radix - (b + 1)) = (Radix - (b + 1)) * u
      BY <3>1, Distribute
    <3>5. Radix - (b + 1) = Radix - b - 1
      BY <3>1
    <3> QED BY <3>2, <3>3, <3>4, <3>5
  <2>2. /\ Bank = Radix * Radix /\ Bank \in Nat \ {0} /\ Radix \in Nat \ {0}
        /\ Radix * 1 = Radix
    BY Units DEF Bank
  <2>3. CASE k - 1 - r.ppos = 0
    <3>1. b * 1 + 1 <= Radix * 1 /\ b * 1 \in Nat
      BY <2>1
    <3> QED BY <1>1, <2>2, <2>3, <3>1 DEF Span, Weight
  <2>4. CASE k - 1 - r.ppos = 1
    <3>1. b * Radix + Radix <= Bank /\ b * Radix \in Nat
      BY <2>1, <2>2
    <3>2. Weight(k - 1 - r.ppos) = Radix /\ Span(k - 1 - r.ppos) = Radix
          /\ Span(k - r.ppos) = Bank
      BY <1>1, <2>4 DEF Span, Weight
    <3>3. a = r.addr + b * Radix
      BY <3>2
    <3> DEFINE q == b * Radix
    <3> HIDE DEF a, q
    <3>4. q + Radix <= Bank /\ q \in Nat /\ a = r.addr + q
      BY <3>1, <3>3 DEF q
    <3>5. Span(k) \in Int
      BY <1>1, Units DEF Span, Weight
    <3> QED BY <1>1, <2>2, <3>2, <3>4, <3>5
  <2>5. CASE k - 1 - r.ppos = 2
    <3>1. b * Bank + Bank <= Radix * Bank /\ b * Bank \in Nat /\ Radix * Bank \in Int
      BY <2>1, <2>2
    <3> QED BY <1>1, <2>2, <2>5, <3>1 DEF Span, Weight
  <2> QED BY <1>1, <2>3, <2>4, <2>5
<1>3. Span(k) <= AddrMod /\ Span(k) \in Nat
  BY <1>1, Units DEF Span, Weight
<1>4. a \in 0 .. AddrMod - 1
  BY <1>2, <1>3, Types
<1>5. p \in 0 .. k - 1 /\ (r.ppos + 1 < k => p = r.ppos + 1)
  <2> HIDE DEF k
  <2>1. r.ppos + 1 \in Int /\ k \in Nat \ {0}
    BY <1>1
  <2>2. p \in 0 .. k - 1
    BY <2>1, DivMod
  <2>3. r.ppos + 1 < k => p = r.ppos + 1
    BY <1>1, <2>1, ModSmall
  <2> QED BY <2>2, <2>3
<1>6. p \in 0 .. 2
  BY <1>1, <1>5
<1> HIDE DEF a, p
<1>7. n \in Ram /\ n.size = r.size /\ n.ena = r.ena /\ n.state = r.state
      /\ n.addr = a /\ n.ppos = p /\ n.mode = r.mode /\ n.data = r.data
  BY <1>4, <1>6 DEF Ram
<1>8. ~Complete(r) => Sound(n) /\ n.ppos = r.ppos + 1
  <2> HAVE ~Complete(r)
  <2>1. r.ppos + 1 < k
    BY <1>1 DEF Complete
  <2>2. p = r.ppos + 1 /\ k - p = k - 1 - r.ppos
    BY <1>1, <1>5, <2>1
  <2> HIDE DEF n
  <2>3. n.ppos \in 0 .. AddrBytes(n.size) - 1
    BY <1>5, <1>7
  <2>4. n.addr + Span(AddrBytes(n.size) - n.ppos) <= Span(AddrBytes(n.size))
    BY <1>2, <1>7, <2>2
  <2> QED BY <1>7, <2>2, <2>3, <2>4 DEF Sound
<1>9. a = r.addr + b * Weight(AddrBytes(r.size) - 1 - r.ppos)
  BY DEF a
<1> HIDE DEF n
<1> QED BY <1>0, <1>7, <1>8, <1>9
-----------------------------------------------------------------------------
(* The end of a transfer, state by state: where it leaves the chip, and    *)
(* which step of the memory it is.                                         *)

\* The end of a transfer, as the chip and its memory see it.
Arrives == tran.busy /\ tran' = NoTransfer /\ Send(tran.tx)

\* What a byte may do to the chip and the cells.
Answered ==
  /\ ram' \in Ram /\ Sound(ram') /\ ram'.size = ram.size /\ ram'.ena = ram.ena
  /\ cells' \in [0 .. ram.size - 1 -> Value]
  /\ Memory!Next

\* What the invariant says of the chip and the transfer.
LEMMA InvFacts ==
  ASSUME Inv
  PROVE  /\ ram \in Ram /\ Sound(ram) /\ ram.size \in Sizes
         /\ cells \in [0 .. ram.size - 1 -> Value]
         /\ tran.tx \in 0 .. 255 /\ (tran.busy => Fits(ram, tran.tx))
         /\ At(ram) \in 0 .. ram.size - 1 /\ ram.size \in Nat \ {0}
         /\ ram.mode \in Modes /\ ram.data \in 0 .. 255
<1>1. ram \in Ram /\ Sound(ram) /\ ram.size \in Sizes
  BY DEF Inv, TypeOK, RamTypeOK, Sound
<1>2. At(ram) \in 0 .. ram.size - 1 /\ ram.size \in Nat \ {0}
  BY <1>1, Addresses, SizeFacts
<1> QED BY <1>1, <1>2 DEF Inv, TypeOK, RamTypeOK, Ram, Modes

\* The memory gets the byte that was sent.
LEMMA Arrival ==
  ASSUME Inv, Arrives, ram'.size = ram.size, ram'.ena = ram.ena
  PROVE  Memory!Arrived /\ SentOf(tran) = tran.tx
<1>1. SentOf(tran) = tran.tx /\ SentOf(tran') = 256
  BY DEF Arrives, SentOf, NoTransfer
<1>2. tran.tx # 256
  <2>1. tran.tx \in 0 .. 255
    BY InvFacts
  <2> DEFINE b == tran.tx
  <2> HIDE DEF b
  <2>2. b \in 0 .. 255 => b # 256
    OBVIOUS
  <2> QED BY <2>1, <2>2 DEF b
<1> QED BY <1>1, <1>2 DEF Memory!Arrived, Memory!NoByte

\* The stages of a chip that are not those of a stream, and the address bytes
\* as the memory counts them.
LEMMA Stages ==
  /\ Stage("none", 0, 0) = Memory!Waiting
  /\ Stage("deaf", 0, 0) = Memory!Deaf
  /\ Stage("mode", 0, 0) = Memory!SetMode
  /\ Memory!Bytes = AddrBytes(ram.size)
  BY DEF Stage, Memory!Stream, Memory!Waiting, Memory!Deaf, Memory!SetMode,
         Memory!Bytes, AddrBytes, Bank

\* A byte during a read answers with the cell that follows.
LEMMA ReadsOn ==
  ASSUME Inv, Arrives, ram.state = "READB"
  PROVE  Answered
<1> DEFINE a == ReadNext(ram)
           n == [ram EXCEPT !.addr = a]
<1>0. ram \in Ram /\ ram.size \in Sizes /\ Sound(ram)
      /\ cells \in [0 .. ram.size - 1 -> Value]
  BY InvFacts
<1>1. a \in 0 .. AddrMod - 1 /\ a % ram.size = Follow(ram, At(ram))
  BY <1>0, ReadFollows
<1>2. n \in Ram /\ n.addr = a /\ n.size = ram.size /\ n.ena = ram.ena
      /\ n.state = "READB" /\ n.mode = ram.mode /\ n.ppos = ram.ppos
  BY <1>0, <1>1 DEF Ram
<1>3. ram' = [n EXCEPT !.data = cells[At(n)]] /\ cells' = cells
  BY <1>2 DEF Arrives, Send, ReadOn
<1> HIDE DEF n, a
<1>4. At(n) \in 0 .. ram.size - 1 /\ cells[At(n)] \in Value /\ cells[At(n)] \in 0 .. 255
  BY ZenonT(60), <1>0, <1>2, Addresses, Units
<1>5. /\ ram' \in Ram /\ ram'.size = ram.size /\ ram'.ena = ram.ena /\ ram'.addr = a
      /\ ram'.state = "READB" /\ ram'.mode = ram.mode /\ ram'.data = cells[At(n)]
  BY <1>2, <1>3, <1>4 DEF Ram
<1>6. At(ram') = Follow(ram, At(ram)) /\ At(n) = At(ram')
  BY <1>1, <1>2, <1>5 DEF At
<1>7. Sound(ram')
  BY <1>0, <1>5 DEF Sound
<1>8. Memory!Read
  <2>1. Follow(ram, At(ram)) = Memory!Following(At(ram))
    BY DEF Follow, Memory!Following, NextInPage, SeqMode, PageMode
  <2>2. StreamOf(ram) = Memory!Stream("read", 0, At(ram))
    BY DEF StreamOf, Stage, Memory!Stream
  <2>3. StreamOf(ram') = Memory!Stream("read", 0, At(ram'))
    BY <1>5 DEF StreamOf, Stage, Memory!Stream
  <2>4. /\ StreamOf(ram).kind = "read" /\ StreamOf(ram).left = 0
        /\ StreamOf(ram).at = At(ram) /\ StreamOf(ram').at = At(ram')
    BY <2>2, <2>3 DEF Memory!Stream
  <2>5. Memory!Arrived
    BY <1>5, Arrival
  <2> QED BY <1>3, <1>5, <1>6, <2>1, <2>3, <2>4, <2>5 DEF Memory!Read
<1> QED BY <1>0, <1>3, <1>5, <1>7, <1>8 DEF Answered, Memory!Next

\* The chip as a byte finds it: nothing is on the output.
Quiet == [ram EXCEPT !.data = Stuff]

\* A chip that does not answer changes its output only.
LEMMA QuietFacts ==
  ASSUME Inv
  PROVE  /\ Quiet \in Ram /\ Quiet.data = Stuff
         /\ Quiet.state = ram.state /\ Quiet.mode = ram.mode /\ Quiet.ena = ram.ena
         /\ Quiet.size = ram.size /\ Quiet.addr = ram.addr /\ Quiet.ppos = ram.ppos
         /\ Sound(Quiet)
<1>1. ram \in Ram /\ Sound(ram) /\ Stuff \in 0 .. 255
  BY InvFacts DEF Stuff
<1>2. /\ Quiet \in Ram /\ Quiet.data = Stuff
      /\ Quiet.state = ram.state /\ Quiet.mode = ram.mode /\ Quiet.ena = ram.ena
      /\ Quiet.size = ram.size /\ Quiet.addr = ram.addr /\ Quiet.ppos = ram.ppos
  BY <1>1 DEF Quiet, Ram
<1> QED BY <1>1, <1>2 DEF Sound

\* Setting fields of a chip to values of their types gives a chip.
LEMMA Fields ==
  \A r \in Ram :
    /\ \A s \in {"WRITE", "READ"} : [r EXCEPT !.state = s, !.ppos = 0, !.addr = 0] \in Ram
    /\ [r EXCEPT !.state = "RMODE", !.data = r.mode] \in Ram
<1> TAKE r \in Ram
<1>1. 0 \in 0 .. 2 /\ 0 \in 0 .. AddrMod - 1
  BY Types
<1>2. {"WRITE", "READ", "RMODE"} \subseteq RamState
  BY DEF RamState
<1>3. \A s \in {"WRITE", "READ"} : [r EXCEPT !.state = s, !.ppos = 0, !.addr = 0] \in Ram
  BY <1>1, <1>2 DEF Ram
<1>4. r.mode \in 0 .. 255
  BY DEF Ram, ByteMode, SeqMode, PageMode, Unused
<1>5. [r EXCEPT !.state = "RMODE", !.data = r.mode] \in Ram
  BY <1>2, <1>4 DEF Ram
<1> QED BY <1>3, <1>5

\* A command byte.
LEMMA Commanded ==
  ASSUME Inv, Arrives, ram.state = "IDLE"
  PROVE  Answered
<1> DEFINE b == tran.tx
           q == Quiet
<1>0. q \in Ram /\ q.state = "IDLE" /\ q.mode = ram.mode /\ q.ena = ram.ena
      /\ q.size = ram.size /\ q.data = Stuff /\ Sound(q)
  BY QuietFacts
<1>1. ram' = (IF ram.ena THEN Command(q, b) ELSE q) /\ cells' = cells
  BY <1>0 DEF Arrives, Send, Selected, Quiet
<1> HIDE DEF q
<1>2. /\ ram' \in Ram /\ ram'.size = ram.size /\ ram'.ena = ram.ena
      /\ ram'.mode = ram.mode /\ ram'.data \in {Stuff, ram.mode}
      /\ ram'.state \in {"IDLE", "WMODE", "WRITE", "READ", "RMODE", "SINK"}
      /\ ram'.state \in {"WRITE", "READ"} => ram'.ppos = 0 /\ ram'.addr = 0
      /\ ~ram.ena => ram'.state = "IDLE" /\ ram'.data = Stuff
  <2> HIDE DEF b
  <2>1. CASE ~ram.ena
    BY <1>0, <1>1, <2>1
  <2>2. CASE ram.ena
    <3>1. ram' = Command(q, b)
      BY <1>1, <2>2
    <3>2. CASE b = WriteMode
      <4>1. ram' = [q EXCEPT !.state = "WMODE"]
        BY <3>1, <3>2 DEF Command, WriteMode, WriteData, ReadData, ReadMode
      <4> QED BY <1>0, <2>2, <4>1 DEF Ram, RamState
    <3>3. CASE b = WriteData
      <4>1. ram' = [q EXCEPT !.state = "WRITE", !.ppos = 0, !.addr = 0]
        BY <3>1, <3>3 DEF Command, WriteMode, WriteData, ReadData, ReadMode
      <4>2. ram' \in Ram
        BY <1>0, <4>1, Fields
      <4>3. /\ ram'.size = q.size /\ ram'.ena = q.ena /\ ram'.mode = q.mode
            /\ ram'.data = q.data /\ ram'.ppos = 0 /\ ram'.addr = 0
            /\ ram'.state = "WRITE"
        BY <1>0, <4>1 DEF Ram
      <4> QED BY <1>0, <2>2, <4>2, <4>3
    <3>4. CASE b = ReadData
      <4>1. ram' = [q EXCEPT !.state = "READ", !.ppos = 0, !.addr = 0]
        BY <3>1, <3>4 DEF Command, WriteMode, WriteData, ReadData, ReadMode
      <4>2. ram' \in Ram
        BY <1>0, <4>1, Fields
      <4>3. /\ ram'.size = q.size /\ ram'.ena = q.ena /\ ram'.mode = q.mode
            /\ ram'.data = q.data /\ ram'.ppos = 0 /\ ram'.addr = 0
            /\ ram'.state = "READ"
        BY <1>0, <4>1 DEF Ram
      <4> QED BY <1>0, <2>2, <4>2, <4>3
    <3>5. CASE b = ReadMode
      <4>1. ram' = [q EXCEPT !.state = "RMODE", !.data = q.mode]
        BY <3>1, <3>5 DEF Command, WriteMode, WriteData, ReadData, ReadMode
      <4>2. ram' \in Ram
        BY <1>0, <4>1, Fields
      <4>3. /\ ram'.size = q.size /\ ram'.ena = q.ena /\ ram'.mode = q.mode
            /\ ram'.data = q.mode /\ ram'.state = "RMODE"
        BY <1>0, <4>1 DEF Ram
      <4> QED BY <1>0, <2>2, <4>2, <4>3
    <3>6. CASE b \notin {WriteMode, WriteData, ReadData, ReadMode}
      BY <1>0, <3>1, <3>6, <2>2 DEF Command, Ram, RamState
    <3> QED BY <3>2, <3>3, <3>4, <3>5, <3>6
  <2> QED BY <2>1, <2>2
<1>3. Sound(ram')
  <2>1. ram.size \in Sizes /\ AddrBytes(ram.size) \in {2, 3}
    BY InvFacts DEF AddrBytes
  <2>2. Span(AddrBytes(ram.size)) \in Nat
    BY <2>1, Units DEF Span, Weight
  <2> QED BY <1>2, <2>1, <2>2 DEF Sound
<1>8. ASSUME ram.ena
      PROVE  /\ ram'.data = IF b = 5 THEN ram.mode ELSE Stuff
             /\ b = 1 => ram'.state = "WMODE"
             /\ b = 2 => ram'.state = "WRITE"
             /\ b = 3 => ram'.state = "READ"
             /\ b = 5 => ram'.state = "RMODE"
             /\ b \notin {1, 2, 3, 5} => ram'.state = "SINK"
  <2> HIDE DEF b
  <2>1. ram' = Command(q, b)
    BY <1>1, <1>8
  <2>2. b = 1 => ram' = [q EXCEPT !.state = "WMODE"]
    BY <2>1 DEF Command, WriteMode, WriteData, ReadData, ReadMode
  <2>3. b = 2 => ram' = [q EXCEPT !.state = "WRITE", !.ppos = 0, !.addr = 0]
    BY <2>1 DEF Command, WriteMode, WriteData, ReadData, ReadMode
  <2>4. b = 3 => ram' = [q EXCEPT !.state = "READ", !.ppos = 0, !.addr = 0]
    BY <2>1 DEF Command, WriteMode, WriteData, ReadData, ReadMode
  <2>5. b = 5 => ram' = [q EXCEPT !.state = "RMODE", !.data = q.mode]
    BY <2>1 DEF Command, WriteMode, WriteData, ReadData, ReadMode
  <2>6. b \notin {1, 2, 3, 5} => ram' = [q EXCEPT !.state = "SINK"]
    BY <2>1 DEF Command, WriteMode, WriteData, ReadData, ReadMode
  <2> QED BY <1>0, <2>2, <2>3, <2>4, <2>5, <2>6 DEF Ram
<1>4. Memory!Arrived /\ SentOf(tran) = b
  BY <1>2, Arrival
<1>5. StreamOf(ram) = Memory!Waiting
  BY Stages DEF StreamOf
<1>6. Memory!Ignore \/ Memory!Command
  <2> HIDE DEF b
  <2>1. CASE ~ram.ena
    <3>1. StreamOf(ram') = StreamOf(ram) /\ ram'.data = Memory!None
      BY <1>2, <1>5, <2>1, Stages DEF StreamOf, Memory!None, Stuff
    <3> QED BY <1>1, <1>2, <1>4, <2>1, <3>1 DEF Memory!Ignore
  <2>2. CASE ram.ena
    <3>1. /\ Stuff = Memory!None
          /\ StreamOf(ram') = CASE b = 1 -> Memory!SetMode
                               [] b = 2 -> Memory!Stream("write", Memory!Bytes, 0)
                               [] b = 3 -> Memory!Stream("read", Memory!Bytes, 0)
                               [] OTHER -> Memory!Deaf
      <4>1. AddrBytes(ram.size) - 0 = AddrBytes(ram.size)
        BY DEF AddrBytes
      <4>2. CASE b \in {2, 3}
        <5>1. /\ ram'.ppos = 0 /\ ram'.addr = 0 /\ AddrBytes(ram'.size) = Memory!Bytes
              /\ ram'.state = IF b = 2 THEN "WRITE" ELSE "READ"
          BY <1>2, <1>8, <2>2, <4>2, Stages
        <5> QED BY <4>1, <4>2, <5>1, Stages, <1>2 DEF StreamOf, Stage, Memory!Stream, Memory!None, Stuff
      <4>3. CASE b \notin {2, 3}
        <5>1. ram'.state = IF b = 1 THEN "WMODE" ELSE IF b = 5 THEN "RMODE" ELSE "SINK"
          BY <1>8, <2>2, <4>3
        <5> QED BY <4>3, <5>1, Stages DEF StreamOf, Memory!None, Stuff
      <4> QED BY <4>2, <4>3
    <3>2. ram'.data = IF b = 5 THEN ram.mode ELSE Memory!None
      BY <1>8, <2>2, <3>1
    <3> QED BY <1>1, <1>2, <1>4, <1>5, <2>2, <3>1, <3>2 DEF Memory!Command
  <2> QED BY <2>1, <2>2
<1>7. cells' \in [0 .. ram.size - 1 -> Value]
  BY <1>1, InvFacts
<1> QED BY <1>2, <1>3, <1>6, <1>7 DEF Answered, Memory!Next

\* What Send does to a chip that is selected and does not read.
LEMMA Heard ==
  ASSUME Inv, Arrives, ram.state \notin {"READB", "IDLE"}
  PROVE  ram.ena /\ ram' = Selected(Quiet, tran.tx)
<1>1. ram.ena
  BY InvFacts DEF Sound
<1> QED BY <1>1 DEF Arrives, Send, Quiet

\* A byte of an address; the last one starts the stream.
LEMMA AddressTaken ==
  ASSUME Inv, Arrives, ram.state \in {"READ", "WRITE"}
  PROVE  Answered
<1> DEFINE b == tran.tx
           q == Quiet
           n == Addressed(q, b)
<1>0. q \in Ram /\ q.state = ram.state /\ q.mode = ram.mode /\ q.ena = ram.ena
      /\ q.size = ram.size /\ q.data = Stuff /\ Sound(q) /\ ram.ena
  BY QuietFacts, Heard
<1>1. b \in 0 .. Radix - 1
  <2>1. Fits(ram, tran.tx) /\ tran.tx \in 0 .. 255
    BY InvFacts DEF Arrives
  <2>2. tran.tx < Radix
    BY <2>1 DEF Fits
  <2> QED BY <2>1, <2>2, Types
<1>2. /\ n \in Ram /\ n.size = q.size /\ n.ena = q.ena /\ n.state = q.state
      /\ n.mode = q.mode /\ n.data = q.data
      /\ n.addr = q.addr + b * Weight(AddrBytes(q.size) - 1 - q.ppos)
      /\ ~Complete(q) => Sound(n) /\ n.ppos = q.ppos + 1
  BY <1>0, <1>1, AddressSound
<1>3. cells' = cells
  BY DEF Arrives, Send
<1>4. ram.size \in Sizes /\ At(n) \in 0 .. ram.size - 1
      /\ cells[At(n)] \in Value /\ cells[At(n)] \in 0 .. 255
  <2>1. ram.size \in Sizes /\ cells \in [0 .. ram.size - 1 -> Value]
    BY InvFacts
  <2>2. At(n) \in 0 .. ram.size - 1
    BY <1>0, <1>2, <2>1, Addresses
  <2> QED BY ZenonT(60), <2>1, <2>2, Units
<1> DEFINE kind == IF ram.state = "READ" THEN "read" ELSE "write"
           left == AddrBytes(ram.size) - ram.ppos
<1>5. /\ StreamOf(ram) = Memory!Stream(kind, left, ram.addr)
      /\ left \in 1 .. 3 /\ (Complete(q) <=> left = 1)
      /\ n.addr = ram.addr + b * Memory!Place(left)
  <2>1. q.ppos = ram.ppos /\ q.addr = ram.addr /\ ram.ppos \in Int
    BY QuietFacts, InvFacts DEF Ram
  <2>2. ram.ppos \in 0 .. AddrBytes(ram.size) - 1 /\ AddrBytes(ram.size) \in {2, 3}
    BY InvFacts DEF Sound, AddrBytes
  <2>3. left \in 1 .. 3 /\ (Complete(q) <=> left = 1)
    BY <1>0, <2>1, <2>2 DEF Complete
  <2>4. Memory!Place(left) = Weight(AddrBytes(ram.size) - 1 - ram.ppos)
    BY <2>2 DEF Memory!Place, Weight, Bank
  <2>5. StreamOf(ram) = Memory!Stream(kind, left, ram.addr)
    BY DEF StreamOf, Stage, Memory!Stream
  <2> HIDE DEF n, q, left
  <2> QED BY <1>0, <1>2, <2>1, <2>3, <2>4, <2>5
<1>6. Memory!Stream(kind, left, ram.addr).kind = kind
      /\ Memory!Stream(kind, left, ram.addr).left = left
      /\ Memory!Stream(kind, left, ram.addr).at = ram.addr
  BY DEF Memory!Stream
<1> HIDE DEF n, q
<1>7. CASE ~Complete(q)
  <2>1. ram' = n
    <3>1. CASE ram.state = "READ"
      BY <1>0, <1>2, <1>7, <3>1, Heard DEF Selected, ReadAddress, n, q
    <3>2. CASE ram.state = "WRITE"
      <4>1. ram' = [n EXCEPT !.state = n.state]
        BY <1>0, <1>2, <1>7, <3>2, Heard DEF Selected, WriteAddress, n, q
      <4> QED BY <1>2, <4>1 DEF Ram
    <3> QED BY <3>1, <3>2
  <2>2. StreamOf(ram') = Memory!Stream(kind, left - 1, n.addr)
    <3>1. ram'.state = ram.state /\ ram'.addr = n.addr /\ ram'.size = ram.size
          /\ ram'.ppos = ram.ppos + 1
      BY <1>0, <1>2, <1>7, <2>1, QuietFacts DEF q
    <3>2. AddrBytes(ram.size) - (ram.ppos + 1) = left - 1
      <4>1. ram.ppos \in Int /\ AddrBytes(ram.size) \in Int
        BY InvFacts DEF Ram, AddrBytes
      <4> QED BY <4>1
    <3> HIDE DEF left
    <3> QED BY <3>1, <3>2 DEF StreamOf, Stage, Memory!Stream
  <2>3. Memory!Addressing
    <3>1. Memory!Arrived /\ SentOf(tran) = b
      BY <1>0, <1>2, <2>1, Arrival
    <3>2. ram'.mode = ram.mode /\ ram'.data = Memory!None
      BY <1>0, <1>2, <2>1 DEF Memory!None, Stuff
    <3>3. left > 1 /\ left > 0
      BY <1>5, <1>7
    <3> HIDE DEF left, kind, b
    <3> QED BY <1>3, <1>5, <1>6, <2>2, <3>1, <3>2, <3>3 DEF Memory!Addressing
  <2>4. cells' \in [0 .. ram.size - 1 -> Value]
    BY <1>3, InvFacts
  <2> QED BY <1>0, <1>2, <1>7, <2>1, <2>3, <2>4 DEF Answered, Memory!Next
<1>8. CASE Complete(q)
  <2>1. ram' = IF ram.state = "READ"
               THEN [n EXCEPT !.state = "READB", !.data = cells[At(n)]]
               ELSE [n EXCEPT !.state = "WRITEB"]
    BY <1>0, <1>8, Heard DEF Selected, ReadAddress, WriteAddress, n, q
  <2>2. ram' \in Ram
    <3>1. CASE ram.state = "READ"
      <4>1. ram' = [n EXCEPT !.state = "READB", !.data = cells[At(n)]]
        BY <2>1, <3>1
      <4> QED BY <1>2, <1>4, <4>1 DEF Ram, RamState
    <3>2. CASE ram.state # "READ"
      <4>1. ram' = [n EXCEPT !.state = "WRITEB"]
        BY <2>1, <3>2
      <4> QED BY <1>2, <4>1 DEF Ram, RamState
    <3> QED BY <3>1, <3>2
  <2>3. /\ ram'.size = ram.size /\ ram'.ena = ram.ena /\ ram'.mode = ram.mode
        /\ ram'.addr = n.addr
        /\ ram'.state = IF ram.state = "READ" THEN "READB" ELSE "WRITEB"
        /\ ram'.data = IF ram.state = "READ" THEN cells[At(n)] ELSE Stuff
    BY <1>0, <1>2, <2>1 DEF Ram
  <2>4. Sound(ram')
    BY <1>0, <1>4, <2>3 DEF Sound
  <2>5. At(n) = At(ram') /\ At(n) = n.addr % ram.size
    BY <1>0, <1>2, <2>3 DEF At
  <2>6. StreamOf(ram') = Memory!Stream(kind, 0, At(n))
    BY <2>3, <2>5 DEF StreamOf, Stage, Memory!Stream
  <2>7. Memory!Stream(kind, 0, At(n)).at = At(n)
    BY DEF Memory!Stream
  <2>8. Memory!Addressing
    <3>1. Memory!Arrived /\ SentOf(tran) = b
      BY <2>3, Arrival
    <3>2. ram'.data = IF kind = "read" THEN cells[At(n)] ELSE Memory!None
      BY <2>3 DEF Memory!None, Stuff
    <3>3. left = 1 /\ left > 0
      BY <1>5, <1>8
    <3> HIDE DEF left, kind, b
    <3> QED BY <1>3, <1>5, <1>6, <2>3, <2>5, <2>6, <2>7, <3>1, <3>2, <3>3
            DEF Memory!Addressing
  <2>9. cells' \in [0 .. ram.size - 1 -> Value]
    BY <1>3, InvFacts
  <2> QED BY <2>2, <2>3, <2>4, <2>8, <2>9 DEF Answered, Memory!Next
<1> QED BY <1>7, <1>8

\* A byte that is written.
LEMMA DataWritten ==
  ASSUME Inv, Arrives, ram.state = "WRITEB"
  PROVE  Answered
<1> DEFINE b == tran.tx
           q == Quiet
           a == WriteNext(q)
<1>0. q \in Ram /\ q.state = ram.state /\ q.mode = ram.mode /\ q.ena = ram.ena
      /\ q.size = ram.size /\ q.data = Stuff /\ q.addr = ram.addr /\ ram.ena
  BY QuietFacts, Heard
<1>1. ram \in Ram /\ ram.size \in Sizes /\ b \in Value
      /\ At(ram) \in 0 .. ram.size - 1 /\ cells \in [0 .. ram.size - 1 -> Value]
  BY InvFacts DEF Arrives, Fits
<1>2. cells' = [cells EXCEPT ![At(ram)] = b]
  BY <1>0 DEF Arrives, Send
<1>3. cells' \in [0 .. ram.size - 1 -> Value]
  BY <1>1, <1>2
<1>4. a \in 0 .. AddrMod - 1 /\ a % ram.size = Follow(ram, At(ram))
  <2>1. a = WriteNext(ram)
    BY <1>0 DEF WriteNext, NextInPage
  <2> QED BY <1>1, <2>1, WriteFollows
<1>5. ram' = [q EXCEPT !.addr = a]
  BY <1>0, Heard DEF Selected
<1> HIDE DEF a, q
<1>6. /\ ram' \in Ram /\ ram'.size = ram.size /\ ram'.ena = ram.ena
      /\ ram'.mode = ram.mode /\ ram'.state = "WRITEB" /\ ram'.addr = a
      /\ ram'.data = Stuff
  BY <1>0, <1>4, <1>5 DEF Ram
<1>7. At(ram') = Follow(ram, At(ram))
  BY <1>4, <1>6 DEF At
<1>8. Sound(ram')
  BY <1>0, <1>1, <1>6 DEF Sound
<1>9. Memory!Write
  <2>1. Follow(ram, At(ram)) = Memory!Following(At(ram))
    BY DEF Follow, Memory!Following, NextInPage, SeqMode, PageMode
  <2>2. StreamOf(ram) = Memory!Stream("write", 0, At(ram))
    BY DEF StreamOf, Stage, Memory!Stream
  <2>3. StreamOf(ram') = Memory!Stream("write", 0, At(ram'))
    BY <1>6 DEF StreamOf, Stage, Memory!Stream
  <2>4. /\ StreamOf(ram).kind = "write" /\ StreamOf(ram).left = 0
        /\ StreamOf(ram).at = At(ram) /\ ram'.data = Memory!None
    BY <1>6, <2>2 DEF Memory!Stream, Memory!None, Stuff
  <2>5. Memory!Arrived /\ SentOf(tran) = b
    BY <1>6, Arrival
  <2> HIDE DEF b
  <2> QED BY <1>2, <1>6, <1>7, <2>1, <2>3, <2>4, <2>5 DEF Memory!Write
<1> QED BY <1>3, <1>6, <1>8, <1>9 DEF Answered, Memory!Next

\* The mode is read or written, or bytes sink.
LEMMA ModesSent ==
  ASSUME Inv, Arrives, ram.state \in {"RMODE", "WMODE", "SINK"}
  PROVE  Answered
<1> DEFINE b == tran.tx
           q == Quiet
<1>0. q \in Ram /\ q.state = ram.state /\ q.mode = ram.mode /\ q.ena = ram.ena
      /\ q.size = ram.size /\ q.data = Stuff /\ Sound(q) /\ ram.ena
  BY QuietFacts, Heard
<1>1. cells' = cells /\ cells' \in [0 .. ram.size - 1 -> Value]
  BY InvFacts DEF Arrives, Send
<1>2. ram.state = "WMODE" => b \in Modes
  BY InvFacts DEF Arrives, Fits
<1>3. ram' = Selected(q, b)
  BY Heard
<1> HIDE DEF q
<1>4. /\ ram' \in Ram /\ ram'.size = ram.size /\ ram'.ena = ram.ena
      /\ ram'.state = "SINK" /\ ram'.data = Stuff
      /\ ram'.mode = IF ram.state = "WMODE" THEN (b \div 64) * 64 ELSE ram.mode
  <2>1. CASE ram.state = "RMODE"
    <3>1. ram' = [q EXCEPT !.state = "SINK"]
      BY <1>0, <1>3, <2>1 DEF Selected
    <3> QED BY <1>0, <2>1, <3>1 DEF Ram, RamState
  <2>2. CASE ram.state = "WMODE"
    <3>1. ram' = [q EXCEPT !.state = "SINK", !.mode = (b \div 64) * 64]
      BY <1>0, <1>3, <2>2 DEF Selected
    <3>2. (b \div 64) * 64 \in Modes
      BY <1>2, <2>2 DEF Modes, ByteMode, SeqMode, PageMode, Unused
    <3> QED BY <1>0, <2>2, <3>1, <3>2 DEF Ram, RamState, Modes
  <2>3. CASE ram.state = "SINK"
    BY <1>0, <1>3, <2>3 DEF Selected
  <2> QED BY <2>1, <2>2, <2>3
<1>5. Sound(ram')
  BY <1>0, <1>4, InvFacts DEF Sound
<1>6. Memory!Arrived /\ SentOf(tran) = b
  BY <1>4, Arrival
<1>7. StreamOf(ram) = IF ram.state = "WMODE" THEN Memory!SetMode ELSE Memory!Deaf
  BY Stages DEF StreamOf
<1>8. StreamOf(ram') = Memory!Deaf
  BY <1>4, Stages DEF StreamOf
<1>9. Memory!SetMode # Memory!Deaf
  <2>1. Memory!SetMode.kind = "mode" /\ Memory!Deaf.kind = "deaf"
    BY DEF Memory!SetMode, Memory!Deaf, Memory!Stream
  <2> QED BY <2>1
<1>10. b \in Modes => (b \div 64) * 64 = b - (b % 64)
  BY DEF Modes, ByteMode, SeqMode, PageMode, Unused
<1>11. Memory!Modal
  <2> HIDE DEF b
  <2>1. ram'.data = Memory!None
    BY <1>4 DEF Memory!None, Stuff
  <2> QED BY <1>1, <1>2, <1>4, <1>6, <1>7, <1>8, <1>9, <1>10, <2>1 DEF Memory!Modal
<1> QED BY <1>1, <1>4, <1>5, <1>11 DEF Answered, Memory!Next

\* A byte in any state.
LEMMA Sends ==
  ASSUME Inv, Arrives
  PROVE  Answered
<1>1. ram.state \in {"READB", "IDLE", "READ", "WRITE", "WRITEB", "RMODE", "WMODE", "SINK"}
  BY InvFacts DEF Ram, RamState
<1> QED BY <1>1, ReadsOn, Commanded, AddressTaken, DataWritten, ModesSent
-----------------------------------------------------------------------------
(* The bus.                                                                *)

\* The start.
LEMMA InitInv == Init => Inv /\ Memory!Init
<1> SUFFICES ASSUME Init PROVE Inv /\ Memory!Init
  OBVIOUS
<1> USE DEF Init, InitRam
<1>1. PICK n \in Banks : ram = Started(n) /\ cells = [a \in 0 .. ram.size - 1 |-> 0]
  OBVIOUS
<1>2. Granted(n) \in {p \in PowersOfTwo : p <= MaxBanks}
  <2>1. n \in 0 .. 255
    BY SpiBusAssumption DEF SpiBusAssumption
  <2>2. \E p \in PowersOfTwo : p >= n /\ \A o \in PowersOfTwo : o >= n => p <= o
    <3>1. CASE n <= 1
      BY <2>1, <3>1 DEF PowersOfTwo
    <3>2. CASE n > 1 /\ n <= 8
      <4>1. n \in 2 .. 8
        BY <2>1, <3>2
      <4> QED BY <4>1 DEF PowersOfTwo
    <3>3. CASE n > 8 /\ n <= 16
      BY <2>1, <3>3 DEF PowersOfTwo
    <3>4. CASE n > 16 /\ n <= 32
      BY <2>1, <3>4 DEF PowersOfTwo
    <3>5. CASE n > 32 /\ n <= 64
      BY <2>1, <3>5 DEF PowersOfTwo
    <3>6. CASE n > 64 /\ n <= 128
      BY <2>1, <3>6 DEF PowersOfTwo
    <3>7. CASE n > 128
      BY <2>1, <3>7 DEF PowersOfTwo
    <3> QED BY <2>1, <3>1, <3>2, <3>3, <3>4, <3>5, <3>6, <3>7
  <2>3. Rounded(n) \in PowersOfTwo
    BY <2>2 DEF Rounded
  <2>4. \A p \in PowersOfTwo : p \in Nat
    BY DEF PowersOfTwo
  <2>5. MaxBanks \in PowersOfTwo
    BY SpiRamAssumption DEF SpiRamAssumption
  <2> QED BY <2>3, <2>4, <2>5 DEF Granted
<1>3. ram.size = Granted(n) * Bank /\ ram.size \in Sizes
  BY <1>1, <1>2 DEF Started, Sizes
<1>4. ram.size \in Nat \ {0} /\ ram.size \in {p * Bank : p \in PowersOfTwo}
  BY <1>3, SizeFacts
<1>5. /\ ram.ena = FALSE /\ ram.mode = SeqMode /\ ram.state = "IDLE" /\ ram.ppos = 0
      /\ ram.addr = 0 /\ ram.data = Stuff
  BY <1>1 DEF Started
<1>6. ram \in Ram
  <2>1. ram = [ena |-> FALSE, mode |-> SeqMode, state |-> "IDLE", ppos |-> 0,
               addr |-> 0, data |-> Stuff, size |-> ram.size]
    BY <1>1, <1>3 DEF Started
  <2>2. 0 \in 0 .. AddrMod - 1 /\ Stuff \in 0 .. 255
    BY Types DEF Stuff
  <2> DEFINE n0 == ram.size
  <2>3. [ena |-> FALSE, mode |-> SeqMode, state |-> "IDLE", ppos |-> 0,
         addr |-> 0, data |-> Stuff, size |-> n0] \in Ram
    <3> HIDE DEF n0, Init
    <3>1. n0 \in {p * Bank : p \in PowersOfTwo}
      BY <1>4 DEF n0
    <3> QED BY <2>2, <3>1 DEF Ram, RamState
  <2> QED BY <2>1, <2>3
<1>7. cells \in [0 .. ram.size - 1 -> Value] /\ cells \in [0 .. ram.size - 1 -> 0 .. 255]
  BY <1>1, Units
<1>8. TypeOK
  BY <1>6, <1>7 DEF TypeOK, RamTypeOK, NoTransfer, Stuff
<1>9. Inv
  BY <1>3, <1>5, <1>7, <1>8 DEF Inv, Sound, NoTransfer
<1>10. Memory!Init
  BY <1>1, <1>4, <1>5, <1>7, Stages
   DEF Memory!Init, Memory!None, Memory!NoByte, StreamOf, SentOf, NoTransfer,
                SeqMode, Stuff
<1> QED BY <1>9, <1>10

\* The bytes of the devices, wired together, are a byte,
LEMMA WiredRange ==
  \A x, y : And(x, y) \in 0 .. 255
<1> TAKE x, y
<1> DEFINE Both(p) == IF (x \div p) % 2 = 1 /\ (y \div p) % 2 = 1 THEN p ELSE 0
<1>1. \A p : Both(p) \in {0, p}
  OBVIOUS
<1> HIDE DEF Both
<1>2. Both(1) + Both(2) + Both(4) + Both(8) + Both(16) + Both(32) + Both(64) + Both(128)
        \in 0 .. 255
  <2>1. /\ Both(1) \in {0, 1} /\ Both(2) \in {0, 2} /\ Both(4) \in {0, 4}
        /\ Both(8) \in {0, 8} /\ Both(16) \in {0, 16} /\ Both(32) \in {0, 32}
        /\ Both(64) \in {0, 64} /\ Both(128) \in {0, 128}
    BY <1>1
  <2> QED BY <2>1
<1> QED BY <1>2 DEF And, Both

\* and that of the other one if one of them is off the bus.
LEMMA WiredAlone ==
  ASSUME NEW x \in 0 .. 255
  PROVE  And(x, Stuff) = x
<1> DEFINE Bit(p) == (x \div p) % 2
           Both(p) == IF (x \div p) % 2 = 1 /\ (Stuff \div p) % 2 = 1 THEN p ELSE 0
<1>1. /\ Both(1) = Bit(1) /\ Both(2) = 2 * Bit(2) /\ Both(4) = 4 * Bit(4)
      /\ Both(8) = 8 * Bit(8) /\ Both(16) = 16 * Bit(16) /\ Both(32) = 32 * Bit(32)
      /\ Both(64) = 64 * Bit(64) /\ Both(128) = 128 * Bit(128)
  BY DEF Stuff
<1>2. x = Bit(1) + 2 * Bit(2) + 4 * Bit(4) + 8 * Bit(8) + 16 * Bit(16) + 32 * Bit(32)
            + 64 * Bit(64) + 128 * Bit(128)
  OBVIOUS
<1> HIDE DEF Bit
<1>3. And(x, Stuff) = Both(1) + Both(2) + Both(4) + Both(8) + Both(16) + Both(32)
                        + Both(64) + Both(128)
  BY DEF And
<1> HIDE DEF Both
<1> QED BY <1>1, <1>2, <1>3

\* The start of a transfer keeps the invariant.
LEMMA TransferStarted ==
  ASSUME Inv, NEW b \in Meaning(ram), StartTransfer(b)
  PROVE  Inv' /\ [Memory!Next]_(Memory!mvars)
<1>1. CASE tran.busy
  <2>1. UNCHANGED <<ram, cells, sd, tran>>
    BY <1>1 DEF StartTransfer
  <2> QED BY <2>1 DEF Inv, TypeOK, RamTypeOK, Sound, Fits, Memory!mvars, StreamOf, At,
                      SentOf
<1>2. CASE ~tran.busy
  <2>1. b \in 0 .. 255 /\ Fits(ram, b)
    <3>1. ram \in Ram /\ Sound(ram) /\ Value \subseteq 0 .. 255 /\ Radix \in 1 .. 256
      BY InvFacts, Units
    <3>2. CASE ram.ena
      BY <3>1, <3>2 DEF Meaning, Fits, Modes, ByteMode, SeqMode, PageMode, Unused,
                        WriteMode, WriteData, ReadData, ReadMode
    <3>3. CASE ~ram.ena
      <4>1. ram.state = "IDLE"
        BY <3>1, <3>3 DEF Sound
      <4>2. b \in {WriteData, ReadData} \union Value
        BY <3>3 DEF Meaning
      <4> QED BY <3>1, <4>1, <4>2 DEF Fits, WriteData, ReadData
    <3> QED BY <3>2, <3>3
  <2>2. Recv \in 0 .. 255
    BY WiredRange DEF Recv
  <2>3. tran' = [busy |-> TRUE, rx |-> Recv, tx |-> b] /\ UNCHANGED <<ram, cells, sd>>
    BY <1>2 DEF StartTransfer
  <2> HIDE DEF Recv
  <2>4. TypeOK'
    BY <2>1, <2>2, <2>3 DEF Inv, TypeOK, RamTypeOK
  <2>5. Inv'
    BY <2>1, <2>3, <2>4 DEF Inv, Sound, Fits
  <2>6. SentOf(tran) = Memory!NoByte /\ SentOf(tran') \in 0 .. Memory!NoByte
    BY <1>2, <2>1, <2>3 DEF SentOf, Memory!NoByte
  <2>7. Memory!Sending
    BY <2>3, <2>6 DEF Memory!Sending, StreamOf, At
  <2> QED BY <2>5, <2>7 DEF Memory!Next
<1> QED BY <1>1, <1>2

\* Its end does, and is a step of the memory.
LEMMA TransferEnded ==
  ASSUME Inv, NEW d \in SdByte, EndTransfer(d)
  PROVE  Inv' /\ Memory!Next
<1>1. Answered
  BY Sends DEF EndTransfer, Arrives
<1>2. d \in 0 .. 255
  BY SpiBusAssumption DEF SpiBusAssumption
<1>3. tran' = NoTransfer /\ sd' = d
  BY DEF EndTransfer
<1>4. \A S \in SUBSET Int : Value \subseteq 0 .. 255 /\ cells' \in [S -> Value]
                              => cells' \in [S -> 0 .. 255]
  OBVIOUS
<1>5. cells' \in [0 .. ram.size - 1 -> 0 .. 255]
  BY <1>1, Units DEF Answered
<1>6. TypeOK'
  <2>1. ram' \in Ram /\ ram'.size = ram.size
    BY <1>1 DEF Answered
  <2>2. cells' \in [0 .. ram'.size - 1 -> 0 .. 255]
    BY <1>5, <2>1
  <2>3. sd' \in 0 .. 255 /\ tran' \in [busy : BOOLEAN, rx : 0 .. 255, tx : 0 .. 255]
    BY <1>2, <1>3 DEF NoTransfer
  <2> QED BY <2>1, <2>2, <2>3 DEF TypeOK, RamTypeOK
<1> QED BY <1>1, <1>3, <1>6 DEF Inv, Answered, NoTransfer

\* So is a change of the chip select.
LEMMA Deselection ==
  ASSUME Inv, NEW ena \in BOOLEAN, SelectRam(ena)
  PROVE  Inv' /\ (Memory!Next \/ UNCHANGED Memory!mvars)
<1> DEFINE s == IF ram.ena /\ ~ena THEN "IDLE" ELSE ram.state
<1>0. ram \in Ram /\ Sound(ram) /\ (tran.busy => Fits(ram, tran.tx))
  BY InvFacts
<1>1. ram' = [ram EXCEPT !.ena = ena, !.state = s]
      /\ UNCHANGED <<cells, sd, tran>>
  BY DEF SelectRam, CsSet
<1>2. s \in RamState
  BY <1>0 DEF RamState, Ram
<1> HIDE DEF s
<1>3. /\ ram' \in Ram /\ ram'.ena = ena /\ ram'.state = s /\ ram'.size = ram.size
      /\ ram'.addr = ram.addr /\ ram'.ppos = ram.ppos /\ ram'.mode = ram.mode
      /\ ram'.data = ram.data
  BY <1>0, <1>1, <1>2 DEF Ram
<1>4. s = "IDLE" \/ (s = ram.state /\ (ena \/ ~ram.ena))
  BY DEF s
<1>5. Sound(ram') /\ (tran'.busy => Fits(ram', tran'.tx))
  BY <1>0, <1>1, <1>3, <1>4 DEF Sound, Fits
<1>6. Inv'
  BY <1>1, <1>3, <1>5 DEF Inv, TypeOK, RamTypeOK
<1>7. Memory!Next \/ UNCHANGED Memory!mvars
  <2>1. StreamOf(ram') = IF ram.ena /\ ~ena THEN Memory!Waiting ELSE StreamOf(ram)
    BY <1>3, Stages DEF StreamOf, At, s
  <2>2. SentOf(tran') = SentOf(tran)
    BY <1>1 DEF SentOf
  <2> QED BY <1>1, <1>3, <2>1, <2>2 DEF Memory!Next, Memory!Select
<1> QED BY <1>6, <1>7

\* Every step keeps the invariant and is one of the memory, or none.
LEMMA NextInv ==
  Inv /\ [Next]_vars => Inv' /\ [Memory!Next]_(Memory!mvars)
<1> SUFFICES ASSUME Inv, [Next]_vars
             PROVE  Inv' /\ (Memory!Next \/ UNCHANGED Memory!mvars)
  OBVIOUS
<1>1. ASSUME NEW b \in Meaning(ram), StartTransfer(b)
      PROVE  Inv' /\ (Memory!Next \/ UNCHANGED Memory!mvars)
  BY <1>1, TransferStarted
<1>2. ASSUME NEW d \in SdByte, EndTransfer(d)
      PROVE  Inv' /\ Memory!Next
  BY <1>2, TransferEnded
<1>3. ASSUME NEW ena \in BOOLEAN, SelectRam(ena)
      PROVE  Inv' /\ (Memory!Next \/ UNCHANGED Memory!mvars)
  BY <1>3, Deselection
<1>4. CASE Watchdog
  <2>1. tran' = NoTransfer /\ UNCHANGED <<ram, cells, sd>>
    BY <1>4 DEF Watchdog
  <2>2. Memory!Next
    <3>1. SentOf(tran') = Memory!NoByte /\ Memory!NoByte \in 0 .. Memory!NoByte
      BY <2>1 DEF SentOf, Memory!NoByte, NoTransfer
    <3>2. Memory!Sending
      BY <2>1, <3>1 DEF Memory!Sending, StreamOf, At
    <3> QED BY <3>2 DEF Memory!Next
  <2>3. /\ RamTypeOK' /\ Sound(ram)' /\ sd' \in 0 .. 255
        /\ (cells \in [0 .. ram.size - 1 -> Value])'
    BY <2>1 DEF Inv, TypeOK, RamTypeOK, Sound
  <2>4. tran' \in [busy : BOOLEAN, rx : 0 .. 255, tx : 0 .. 255] /\ ~tran'.busy
    BY <2>1 DEF NoTransfer
  <2>5. Inv'
    BY <2>3, <2>4 DEF Inv, TypeOK
  <2> QED BY <2>2, <2>5
<1>5. CASE UNCHANGED vars
  BY <1>5 DEF vars, Inv, TypeOK, RamTypeOK, Sound, Fits, Memory!mvars, StreamOf, At,
              SentOf
<1> QED BY <1>1, <1>2, <1>3, <1>4, <1>5 DEF Next

\* The conjunction that the theorems below follow from: the counter and the
\* address bytes still to come fit the chip, and a byte under way fits the state
\* in which it is received (cu_spir.c:156-265, cu_avr.c).
THEOREM Invariance == Spec => []Inv
<1>1. Init => Inv
  BY InitInv
<1>2. Inv /\ [Next]_vars => Inv'
  BY NextInv
<1> QED BY <1>1, <1>2, PTL DEF Spec

\* The address counter, the mode and the cells stay in their ranges for every
\* size of the chip, whatever bytes and chip selects come (cu_spir.c).
THEOREM RamTypeCorrect == Spec => []TypeOK
<1>1. Inv => TypeOK
  BY DEF Inv
<1> QED BY <1>1, Invariance, PTL

\* Every chip is a serial memory: reads and writes go to the cells from the
\* address that the program sent on, byte by byte, for every number of banks,
\* page size and width of the counter (cu_spir.c:139-265).
THEOREM SerialMemoryRefined == Spec => ImplementsSerialMemory
<1>1. Init => Memory!Init
  BY InitInv
<1>2. Inv /\ [Next]_vars => [Memory!Next]_(Memory!mvars)
  BY NextInv
<1> QED BY <1>1, <1>2, Invariance, PTL DEF Spec, Memory!Spec, ImplementsSerialMemory

\* Bytes for the SD card leave a deselected RAM alone, and once one of them has
\* gone by the RAM leaves the bus alone (cu_spir.c:139-148, 177-181).
THEOREM DeselectedSafe == Spec => DeselectedUntouched
<1>1. ASSUME Inv, [Next]_vars, ~ram.ena
      PROVE  /\ cells' = cells /\ ram'.mode = ram.mode /\ ram'.state = "IDLE"
             /\ ram.data = Stuff \/ (\E d \in SdByte : EndTransfer(d)) => ram'.data = Stuff
  <2>1. ram \in Ram /\ ram.state = "IDLE"
    BY <1>1, InvFacts DEF Sound
  <2>2. ASSUME NEW d \in SdByte, EndTransfer(d)
        PROVE  ram' = Quiet /\ cells' = cells
    BY <1>1, <2>1, <2>2 DEF EndTransfer, Send, Quiet
  <2>3. ASSUME NEW ena \in BOOLEAN, SelectRam(ena)
        PROVE  /\ cells' = cells /\ ram'.mode = ram.mode
               /\ ram'.state = "IDLE" /\ ram'.data = ram.data
    BY <1>1, <2>1, <2>3 DEF SelectRam, CsSet, Ram
  <2>4. Quiet.mode = ram.mode /\ Quiet.state = "IDLE" /\ Quiet.data = Stuff
    BY <1>1, <2>1, QuietFacts
  <2>5. CASE (\E b \in Meaning(ram) : StartTransfer(b)) \/ Watchdog \/ UNCHANGED vars
    <3>1. UNCHANGED <<ram, cells>>
      BY <2>5 DEF StartTransfer, Watchdog, vars
    <3>2. ASSUME NEW d \in SdByte, EndTransfer(d)
          PROVE  ram'.data = Stuff
      BY <2>2, <2>4, <3>2
    <3> QED BY <2>1, <3>1, <3>2
  <2>6. CASE \E d \in SdByte : EndTransfer(d)
    <3>1. ram' = Quiet /\ cells' = cells
      BY <2>2, <2>6
    <3> QED BY <2>4, <3>1
  <2>7. CASE \E ena \in BOOLEAN : SelectRam(ena)
    <3>1. /\ cells' = cells /\ ram'.mode = ram.mode
          /\ ram'.state = "IDLE" /\ ram'.data = ram.data
      BY <2>3, <2>7
    <3>2. ASSUME NEW d \in SdByte, EndTransfer(d)
          PROVE  ram'.data = Stuff
      BY <2>2, <2>4, <3>2
    <3> QED BY <3>1, <3>2
  <2> QED BY <1>1, <2>5, <2>6, <2>7 DEF Next
<1>2. ASSUME Inv', ram'.data = Stuff
      PROVE  Recv' = sd'
  <2>1. sd' \in 0 .. 255
    BY <1>2 DEF Inv, TypeOK
  <2>2. And(sd', Stuff) = sd'
    BY <2>1, WiredAlone
  <2>3. Recv' = And(sd', ram'.data)
    BY DEF Recv, And
  <2> QED BY <1>2, <2>2, <2>3
<1>3. Inv /\ [Next]_vars => Inv'
  BY NextInv
<1>4. Inv /\ [Next]_vars
        => [~ram.ena =>
              /\ cells' = cells /\ ram'.mode = ram.mode /\ ram'.state = "IDLE"
              /\ ram.data = Stuff \/ (\E d \in SdByte : EndTransfer(d)) => Recv' = sd']_vars
  BY <1>1, <1>2, <1>3
<1> QED BY <1>4, Invariance, PTL DEF Spec, DeselectedUntouched
=============================================================================
