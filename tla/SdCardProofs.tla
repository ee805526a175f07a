---------------------------- MODULE SdCardProofs ----------------------------
(***************************************************************************)
(* SdCard's invariants for every length, time and argument set. The proof  *)
(* follows cu_spisd_send: what the transfer machine, the command machine   *)
(* and the card state machine do to a card record, one lemma each, and     *)
(* then the three in a row.                                                *)
(***************************************************************************)
EXTENDS SdCard, ModularArith

MaxPos == BlockLen + ReadPrep + 2

\* The constants, as numbers.
LEMMA Lengths ==
  /\ BlockLen \in Nat \ {0} /\ ArgLen \in Nat \ {0} /\ InitClocks \in Nat \ {0}
  /\ ClockMod \in Nat \ {0} /\ SectorMod \in Nat \ {0}
  /\ ReadPrep \in Nat /\ CmdWait \in Nat
  /\ InitTime \in Nat /\ WriteTime \in Nat
  BY SdCardAssumption DEF SdCardAssumption

\* A remainder is below its modulus.
LEMMA ModRange ==
  ASSUME NEW x \in Int, NEW n \in Nat \ {0}
  PROVE  x % n \in Nat /\ x % n < n
  OBVIOUS

\* Setting one field of a card to a value of its type gives a card.
LEMMA Fields ==
  \A c \in Card :
    /\ \A x \in BOOLEAN : /\ [c EXCEPT !.ena = x] \in Card
                          /\ [c EXCEPT !.crc = x] \in Card
                          /\ [c EXCEPT !.app = x] \in Card
    /\ \A x \in State : [c EXCEPT !.state = x] \in Card
    /\ \A x \in Phase : [c EXCEPT !.phase = x] \in Card
    /\ \A x \in PStat : [c EXCEPT !.pstat = x] \in Card
    /\ \A x \in Out   : [c EXCEPT !.data = x] \in Card
    /\ \A x \in SUBSET R1Flag : [c EXCEPT !.r1 = x] \in Card
    /\ \A x \in Nat : /\ [c EXCEPT !.left = x] \in Card
                      /\ [c EXCEPT !.evcnt = x] \in Card
                      /\ [c EXCEPT !.code = x] \in Card
                      /\ [c EXCEPT !.crarg = x] \in Card
                      /\ [c EXCEPT !.ppos = x] \in Card
                      /\ [c EXCEPT !.paddr = x] \in Card
  BY DEF Card

\* The fields of a card.
LEMMA Types ==
  ASSUME NEW c \in Card
  PROVE  /\ c.ena \in BOOLEAN /\ c.crc \in BOOLEAN /\ c.app \in BOOLEAN
         /\ c.state \in State /\ c.phase \in Phase /\ c.pstat \in PStat
         /\ c.data \in Out /\ c.r1 \in SUBSET R1Flag
         /\ c.left \in Nat /\ c.evcnt \in Nat /\ c.code \in Nat
         /\ c.crarg \in Nat /\ c.ppos \in Nat /\ c.paddr \in Nat
         /\ c.ppos + 1 \in Nat /\ c.evcnt + 1 \in Nat
  BY DEF Card

-----------------------------------------------------------------------------
(***************************************************************************)
(* TransferAgrees, and what is left of it when a transfer has just ended   *)
(* and the card state machine has not seen it yet.                         *)
(***************************************************************************)
Agrees(c) ==
  /\ c.state \in Reading <=> c.pstat \in ReadStat
  /\ c.pstat \in W24Stat => c.state = "CMD24"
  /\ c.pstat \in W25Stat => c.state = "CMD25"
  /\ c.state \in Writing <=> c.pstat \in WriteStat \union {"WBUSY"}

Nearly(c) ==
  /\ c.state \in Reading => c.pstat \in ReadStat \union {"IDLE"}
  /\ c.state = "CMD24" => c.pstat \in W24Stat \union {"WBUSY", "IDLE"}
  /\ c.state = "CMD25" => c.pstat \in W25Stat \union {"WBUSY", "IDLE"}
  /\ c.state \notin Reading \union Writing => c.pstat = "IDLE"

Positioned(c) ==
  /\ c.pstat \in DataStat => c.ppos < BlockLen
  /\ c.pstat \in EdgeStat => c.ppos <= 1
  /\ c.pstat = "RPREP" => c.ppos <= ReadPrep
  /\ c.ppos <= MaxPos
  /\ c.left < ClockMod

\* The fields the transfer machine leaves alone.
SameCommand(c, d) ==
  /\ d.ena = c.ena /\ d.crc = c.crc /\ d.state = c.state /\ d.evcnt = c.evcnt
  /\ d.phase = c.phase /\ d.code = c.code /\ d.app = c.app
  /\ d.crarg = c.crarg /\ d.r1 = c.r1

\* What a step of the transfer machine may do to a card.
Transferred(c, d) ==
  /\ d \in Card /\ Nearly(d) /\ Positioned(d) /\ SameCommand(c, d)
  /\ d.pstat \in WriteStat => c.pstat \in WriteStat

BlockMoved(c, s, d) ==
  /\ d \in Card /\ SameCommand(c, d) /\ d.left = c.left
  /\ d.pstat = IF c.ppos + 1 = BlockLen THEN s ELSE c.pstat
  /\ d.ppos = IF c.ppos + 1 = BlockLen THEN 0 ELSE c.ppos + 1

\* A byte of a block moves the position, or ends the block.
LEMMA BlockByteFields ==
  ASSUME NEW c \in Card, NEW s \in PStat
  PROVE  BlockMoved(c, s, BlockByte(c, s))
<1> DEFINE d == BlockByte(c, s)
<1>1. d = IF c.ppos + 1 = BlockLen THEN [c EXCEPT !.pstat = s, !.ppos = 0]
          ELSE [c EXCEPT !.ppos = @ + 1]
  BY DEF BlockByte, Move
<1> HIDE DEF d
<1>2. c.ppos + 1 \in Nat
  BY Types
<1>3. d \in Card
  BY <1>1, <1>2, Fields
<1>4. BlockMoved(c, s, d)
  BY <1>1, <1>3 DEF Card, SameCommand, BlockMoved
<1> QED BY <1>4 DEF d

\* What the transfer machine establishes for the command machine.
LEMMA TransferInv ==
  ASSUME NEW c \in Card, Agrees(c), Positioned(c), NEW b, NEW crcOk \in BOOLEAN
  PROVE  Transferred(c, TransferStep(c, b, crcOk))
<1> DEFINE d == TransferStep(c, b, crcOk)
<1> SUFFICES Transferred(c, d)
  OBVIOUS
<1> HIDE DEF d
<1> USE DEF ReadStat, W24Stat, W25Stat
<1>t. /\ c.ppos \in Nat /\ c.ppos + 1 \in Nat /\ c.left \in Nat
        /\ c.data \in Out
  BY Types
<1>m. WriteTime % ClockMod \in Nat /\ WriteTime % ClockMod < ClockMod
  BY ModRange, Lengths
<1>v. Verdict(c, crcOk) \in Out
  BY DEF Verdict, Out
<1>1. CASE c.pstat = "RPREP"
  <2>n. "RDATA" \in PStat /\ "token" \in Out
    BY DEF PStat, WriteStat, Out
  <2>1. d = IF c.ppos >= ReadPrep
            THEN [c EXCEPT !.pstat = "RDATA", !.ppos = 0, !.data = "token"]
            ELSE [c EXCEPT !.ppos = @ + 1]
    BY <1>1 DEF d, TransferStep, ReadStep, Move
  <2>2. d \in Card
    BY <2>1, <2>n, <1>t, Fields
  <2>3. SameCommand(c, d)
    BY <2>1, <1>1 DEF Card, SameCommand
  <2>4. /\ d.left = c.left
        /\ d.pstat = IF c.ppos >= ReadPrep THEN "RDATA" ELSE "RPREP"
        /\ d.ppos = IF c.ppos >= ReadPrep THEN 0 ELSE c.ppos + 1
    BY <2>1, <1>1 DEF Card
  <2>5. Positioned(d)
    BY <2>4, <1>1, <1>t, <1>m, Lengths DEF Positioned, DataStat, EdgeStat, MaxPos
  <2>6. Nearly(d) /\ (d.pstat \in WriteStat => c.pstat \in WriteStat)
    BY <2>3, <2>4, <1>1 DEF SameCommand, Agrees, Nearly, Reading, Writing, WriteStat
  <2> QED BY <2>2, <2>3, <2>5, <2>6 DEF Transferred
<1>2. CASE c.pstat = "RDATA"
  <2> DEFINE e == BlockByte(c, "RCRC")
  <2>n. "RCRC" \in PStat /\ "block" \in Out
    BY DEF PStat, WriteStat, Out
  <2>1. d = [e EXCEPT !.data = "block"]
    BY <1>2 DEF d, TransferStep, ReadStep
  <2>2. BlockMoved(c, "RCRC", e)
    BY <2>n, BlockByteFields
  <2> HIDE DEF e
  <2>4. d \in Card
    BY <2>1, <2>2, <2>n, Fields DEF BlockMoved
  <2>3. /\ d \in Card /\ SameCommand(c, d) /\ d.left = e.left
        /\ d.pstat = e.pstat /\ d.ppos = e.ppos
    BY <2>1, <2>2, <2>4 DEF Card, SameCommand, BlockMoved
  <2>5. Positioned(d)
    BY <2>2, <2>3, <1>2, <1>t, Lengths DEF Positioned, DataStat, EdgeStat, MaxPos, BlockMoved
  <2>6. Nearly(d) /\ (d.pstat \in WriteStat => c.pstat \in WriteStat)
    BY <2>2, <2>3, <1>2 DEF SameCommand, Agrees, Nearly, Reading, Writing, WriteStat, BlockMoved
  <2> QED BY <2>3, <2>5, <2>6 DEF Transferred
<1>3. CASE c.pstat = "RCRC"
  <2>n. "RCRC" \in PStat /\ "IDLE" \in PStat /\ "crc" \in Out
    BY DEF PStat, WriteStat, Out
  <2>1. d = [c EXCEPT !.data = "crc",
                   !.pstat = IF c.ppos = 0 THEN "RCRC" ELSE "IDLE",
                   !.ppos = @ + 1]
    BY <1>3 DEF d, TransferStep, ReadStep
  <2>2. d \in Card
    BY <2>1, <2>n, <1>t, Fields
  <2>3. SameCommand(c, d)
    BY <2>1, <1>3 DEF Card, SameCommand
  <2>4. /\ d.left = c.left
        /\ d.pstat = IF c.ppos = 0 THEN "RCRC" ELSE "IDLE"
        /\ d.ppos = c.ppos + 1
    BY <2>1, <1>3 DEF Card
  <2>5. Positioned(d)
    BY <2>4, <1>3, <1>t, <1>m, Lengths DEF Positioned, DataStat, EdgeStat, MaxPos
  <2>6. Nearly(d) /\ (d.pstat \in WriteStat => c.pstat \in WriteStat)
    BY <2>3, <2>4, <1>3 DEF SameCommand, Agrees, Nearly, Reading, Writing, WriteStat
  <2> QED BY <2>2, <2>3, <2>5, <2>6 DEF Transferred
<1>4. CASE c.pstat = "W24PREP"
  <2>n. "W24DATA" \in PStat
    BY DEF PStat, WriteStat
  <2>1. d = IF c.ppos = 0 THEN [c EXCEPT !.ppos = 1]
            ELSE IF b = ReadToken THEN [c EXCEPT !.pstat = "W24DATA", !.ppos = 0]
            ELSE c
    BY <1>4 DEF d, TransferStep, Write24Step, Move
  <2>2. d \in Card
    BY <2>1, <2>n, Fields
  <2>3. SameCommand(c, d)
    BY <2>1, <1>4 DEF Card, SameCommand
  <2>4. /\ d.left = c.left
        /\ d.pstat \in {"W24DATA", "W24PREP"}
        /\ d.ppos = IF c.ppos = 0 THEN 1 ELSE IF b = ReadToken THEN 0 ELSE c.ppos
        /\ d.pstat = "W24DATA" => d.ppos = 0
    BY <2>1, <1>4 DEF Card
  <2>5. Positioned(d)
    BY <2>4, <1>4, <1>t, <1>m, Lengths DEF Positioned, DataStat, EdgeStat, MaxPos
  <2>6. Nearly(d) /\ (d.pstat \in WriteStat => c.pstat \in WriteStat)
    BY <2>3, <2>4, <1>4 DEF SameCommand, Agrees, Nearly, Reading, Writing, WriteStat
  <2> QED BY <2>2, <2>3, <2>5, <2>6 DEF Transferred
<1>5. CASE c.pstat = "W24DATA"
  <2> DEFINE e == BlockByte(c, "W24CRC")
  <2>n. "W24CRC" \in PStat
    BY DEF PStat, WriteStat
  <2>1. d = e
    BY <1>5 DEF d, TransferStep, Write24Step
  <2>2. BlockMoved(c, "W24CRC", e)
    BY <2>n, BlockByteFields
  <2> HIDE DEF e
  <2>4. d \in Card
    BY <2>1, <2>2, <2>n, Fields DEF BlockMoved
  <2>3. /\ d \in Card /\ SameCommand(c, d) /\ d.left = e.left
        /\ d.pstat = e.pstat /\ d.ppos = e.ppos
    BY <2>1, <2>2, <2>4 DEF Card, SameCommand, BlockMoved
  <2>5. Positioned(d)
    BY <2>2, <2>3, <1>5, <1>t, Lengths DEF Positioned, DataStat, EdgeStat, MaxPos, BlockMoved
  <2>6. Nearly(d) /\ (d.pstat \in WriteStat => c.pstat \in WriteStat)
    BY <2>2, <2>3, <1>5 DEF SameCommand, Agrees, Nearly, Reading, Writing, WriteStat, BlockMoved
  <2> QED BY <2>3, <2>5, <2>6 DEF Transferred
<1>6. CASE c.pstat = "W24CRC"
  <2>n. "WBUSY" \in PStat
    BY DEF PStat, WriteStat
  <2>1. d = IF c.ppos = 0 THEN [c EXCEPT !.ppos = 1]
            ELSE [c EXCEPT !.pstat = "WBUSY", !.ppos = @ + 1,
                           !.left = WriteTime % ClockMod,
                           !.data = Verdict(c, crcOk)]
    BY <1>6 DEF d, TransferStep, Write24Step
  <2>2. d \in Card
    BY <2>1, <2>n, <1>t, <1>m, <1>v, Fields
  <2>3. SameCommand(c, d)
    BY <2>1, <1>6 DEF Card, SameCommand
  <2>4. /\ d.left = IF c.ppos = 0 THEN c.left ELSE WriteTime % ClockMod
        /\ d.pstat = IF c.ppos = 0 THEN "W24CRC" ELSE "WBUSY"
        /\ d.ppos = IF c.ppos = 0 THEN 1 ELSE c.ppos + 1
    BY <2>1, <1>6 DEF Card
  <2>5. Positioned(d)
    BY <2>4, <1>6, <1>t, <1>m, Lengths DEF Positioned, DataStat, EdgeStat, MaxPos
  <2>6. Nearly(d) /\ (d.pstat \in WriteStat => c.pstat \in WriteStat)
    BY <2>3, <2>4, <1>6 DEF SameCommand, Agrees, Nearly, Reading, Writing, WriteStat
  <2> QED BY <2>2, <2>3, <2>5, <2>6 DEF Transferred
<1>7. CASE c.pstat = "W25PREP"
  <2>n. "W25DATA" \in PStat /\ "WBUSY" \in PStat
    BY DEF PStat, WriteStat
  <2>1. d = IF c.ppos = 0 THEN [c EXCEPT !.ppos = 1]
            ELSE IF b = MultiToken THEN [c EXCEPT !.pstat = "W25DATA", !.ppos = 0]
            ELSE IF b = StopToken
                 THEN [c EXCEPT !.pstat = "WBUSY", !.left = WriteTime % ClockMod]
            ELSE c
    BY <1>7 DEF d, TransferStep, Write25Step, Move
  <2>2. d \in Card
    BY <2>1, <2>n, <1>m, Fields
  <2>3. SameCommand(c, d)
    BY <2>1, <1>7 DEF Card, SameCommand
  <2>4. /\ d.left = c.left \/ d.left = WriteTime % ClockMod
        /\ \/ d.pstat = "W25DATA" /\ d.ppos = 0
           \/ d.pstat \in {"W25PREP", "WBUSY"} /\ d.ppos \in {c.ppos, 1}
    BY <2>1, <1>7 DEF Card
  <2>5. Positioned(d)
    BY <2>4, <1>7, <1>t, <1>m, Lengths DEF Positioned, DataStat, EdgeStat, MaxPos
  <2>6. Nearly(d) /\ (d.pstat \in WriteStat => c.pstat \in WriteStat)
    BY <2>3, <2>4, <1>7 DEF SameCommand, Agrees, Nearly, Reading, Writing, WriteStat
  <2> QED BY <2>2, <2>3, <2>5, <2>6 DEF Transferred
<1>8. CASE c.pstat = "W25DATA"
  <2> DEFINE e == BlockByte(c, "W25CRC")
  <2>n. "W25CRC" \in PStat
    BY DEF PStat, WriteStat
  <2>1. d = e
    BY <1>8 DEF d, TransferStep, Write25Step
  <2>2. BlockMoved(c, "W25CRC", e)
    BY <2>n, BlockByteFields
  <2> HIDE DEF e
  <2>4. d \in Card
    BY <2>1, <2>2, <2>n, Fields DEF BlockMoved
  <2>3. /\ d \in Card /\ SameCommand(c, d) /\ d.left = e.left
        /\ d.pstat = e.pstat /\ d.ppos = e.ppos
    BY <2>1, <2>2, <2>4 DEF Card, SameCommand, BlockMoved
  <2>5. Positioned(d)
    BY <2>2, <2>3, <1>8, <1>t, Lengths DEF Positioned, DataStat, EdgeStat, MaxPos, BlockMoved
  <2>6. Nearly(d) /\ (d.pstat \in WriteStat => c.pstat \in WriteStat)
    BY <2>2, <2>3, <1>8 DEF SameCommand, Agrees, Nearly, Reading, Writing, WriteStat, BlockMoved
  <2> QED BY <2>3, <2>5, <2>6 DEF Transferred
<1>9. CASE c.pstat = "W25CRC"
  <2>n. "W25PREP" \in PStat
    BY DEF PStat, WriteStat
  <2>1. d = IF c.ppos = 0 THEN [c EXCEPT !.ppos = 1]
            ELSE [c EXCEPT !.pstat = "W25PREP", !.ppos = 0,
                           !.data = Verdict(c, crcOk)]
    BY <1>9 DEF d, TransferStep, Write25Step, Move
  <2>2. d \in Card
    BY <2>1, <2>n, <1>v, Fields
  <2>3. SameCommand(c, d)
    BY <2>1, <1>9 DEF Card, SameCommand
  <2>4. /\ d.left = c.left
        /\ d.pstat \in {"W25CRC", "W25PREP"} /\ d.ppos \in {0, 1}
    BY <2>1, <1>9 DEF Card
  <2>5. Positioned(d)
    BY <2>4, <1>9, <1>t, <1>m, Lengths DEF Positioned, DataStat, EdgeStat, MaxPos
  <2>6. Nearly(d) /\ (d.pstat \in WriteStat => c.pstat \in WriteStat)
    BY <2>3, <2>4, <1>9 DEF SameCommand, Agrees, Nearly, Reading, Writing, WriteStat
  <2> QED BY <2>2, <2>3, <2>5, <2>6 DEF Transferred
<1>10. CASE c.pstat = "WBUSY"
  <2>n. "IDLE" \in PStat /\ "busy" \in Out
    BY DEF PStat, WriteStat, Out
  <2>1. d = IF Past(c) THEN [c EXCEPT !.pstat = "IDLE"]
            ELSE [c EXCEPT !.data = IF c.ena THEN "busy" ELSE @]
    BY <1>10 DEF d, TransferStep, BusyStep
  <2>2. d \in Card
    BY <2>1, <2>n, <1>t, Fields
  <2>3. SameCommand(c, d)
    BY <2>1, <1>10 DEF Card, SameCommand
  <2>4. /\ d.left = c.left
        /\ d.pstat \in {"WBUSY", "IDLE"} /\ d.ppos = c.ppos
    BY <2>1, <1>10 DEF Card
  <2>5. Positioned(d)
    BY <2>4, <1>10, <1>t, <1>m, Lengths DEF Positioned, DataStat, EdgeStat, MaxPos
  <2>6. Nearly(d) /\ (d.pstat \in WriteStat => c.pstat \in WriteStat)
    BY <2>3, <2>4, <1>10 DEF SameCommand, Agrees, Nearly, Reading, Writing, WriteStat
  <2> QED BY <2>2, <2>3, <2>5, <2>6 DEF Transferred
<1>11. CASE c.pstat = "IDLE"
  <2>1. d = c
    BY <1>11 DEF d, TransferStep, WriteStat
  <2> QED BY <2>1, <1>11 DEF Transferred, Agrees, Nearly, SameCommand, Reading, Writing, WriteStat
<1> QED
  BY <1>1, <1>2, <1>3, <1>4, <1>5, <1>6, <1>7, <1>8, <1>9, <1>10, <1>11, Types
  DEF PStat, WriteStat
-----------------------------------------------------------------------------
(***************************************************************************)
(* The command machine: what holds of it between bytes, and the ways one   *)
(* byte may move it.                                                       *)
(***************************************************************************)
Talking(c) ==
  /\ c.phase = "recv" => c.evcnt <= ArgLen
  /\ c.phase = "resp" => c.evcnt <= CmdWait
  /\ c.phase # "none" => c.ena /\ c.pstat \notin WriteStat /\ c.state \notin StartUp
  /\ c.phase = "extra" /\ c.crarg = OcrReady => c.state = "AVAIL"
  /\ c.code < 64

\* The fields the command machine leaves alone.
SameTransfer(c, d) ==
  /\ d.ena = c.ena /\ d.crc = c.crc /\ d.state = c.state /\ d.left = c.left
  /\ d.pstat = c.pstat /\ d.ppos = c.ppos /\ d.paddr = c.paddr

PhaseStep(c, d) ==
  /\ d.phase = "recv" => \/ d.evcnt = 0
                         \/ c.phase = "recv" /\ c.evcnt < ArgLen /\ d.evcnt = c.evcnt + 1
  /\ d.phase = "resp" => \/ c.phase = "recv" /\ c.evcnt >= ArgLen /\ d.evcnt = 0
                         \/ c.phase = "resp" /\ c.evcnt < CmdWait /\ d.evcnt = c.evcnt + 1
  /\ d.phase = "extra" => c.phase = "extra" /\ d.crarg = c.crarg
  /\ c.phase = "resp" /\ c.evcnt >= CmdWait => d.phase = "none"
  /\ d.code < 64

Commanded(c, d) == d \in Card /\ SameTransfer(c, d) /\ PhaseStep(c, d)

\* Waiting for a command keeps the transfer.
LEMMA AwaitFields ==
  ASSUME NEW c \in Card, c.code < 64, NEW b \in Byte
  PROVE  /\ AwaitStep(c, b) \in Card
         /\ SameTransfer(c, AwaitStep(c, b))
         /\ AwaitStep(c, b).code < 64
         /\ \/ AwaitStep(c, b).phase = "recv" /\ AwaitStep(c, b).evcnt = 0
            \/ AwaitStep(c, b) = c
<1> DEFINE d == AwaitStep(c, b)
<1>1. CASE IsCommand(b)
  <2>1. d = [c EXCEPT !.phase = "recv", !.code = b - 64,
                      !.crarg = 0, !.evcnt = 0, !.r1 = {}]
    BY <1>1 DEF AwaitStep
  <2>2. b - 64 \in Nat /\ b - 64 < 64 /\ "recv" \in Phase /\ {} \in SUBSET R1Flag
    BY <1>1 DEF IsCommand, Phase
  <2> HIDE DEF d
  <2>3. d \in Card
    BY ZenonT(60), <2>1, <2>2, Fields
  <2>4. SameTransfer(c, d) /\ d.code = b - 64 /\ d.phase = "recv" /\ d.evcnt = 0
    BY <2>1 DEF Card, SameTransfer
  <2> QED BY <2>2, <2>3, <2>4 DEF d
<1>2. CASE ~IsCommand(b)
  BY <1>2 DEF AwaitStep, SameTransfer
<1> QED BY <1>1, <1>2

\* Dropping a command keeps the transfer.
LEMMA NoCommandFields ==
  ASSUME NEW c \in Card
  PROVE  /\ NoCommand(c) \in Card /\ SameTransfer(c, NoCommand(c))
         /\ NoCommand(c).phase = "none" /\ NoCommand(c).code = 0
<1>1. "none" \in Phase
  BY DEF Phase
<1>2. NoCommand(c) \in Card
  BY <1>1, Fields DEF NoCommand
<1> QED BY <1>2 DEF NoCommand, Card, SameTransfer

\* More response bytes keep the transfer.
LEMMA ExtraFields ==
  ASSUME NEW c \in Card, NEW arg \in Nat, NEW from \in Nat
  PROVE  /\ Extra(c, arg, from) \in Card /\ SameTransfer(c, Extra(c, arg, from))
         /\ Extra(c, arg, from).phase = "extra" /\ Extra(c, arg, from).code = 0
         /\ Extra(c, arg, from).crarg = arg
<1>1. "extra" \in Phase
  BY DEF Phase
<1>2. Extra(c, arg, from) \in Card
  BY <1>1, Fields DEF Extra
<1> QED BY <1>2 DEF Extra, Card, SameTransfer

\* What the command machine establishes for the state machine.
LEMMA CommandInv ==
  ASSUME NEW c \in Card, Talking(c), NEW b \in Byte, NEW crcOk \in BOOLEAN
  PROVE  Commanded(c, CommandStep(c, b, crcOk))
<1> DEFINE d == CommandStep(c, b, crcOk)
<1> SUFFICES Commanded(c, d)
  OBVIOUS
<1>t. c.evcnt \in Nat /\ c.evcnt + 1 \in Nat /\ c.crarg \in Nat /\ c.code < 64
  BY Types DEF Talking
<1>1. CASE c.phase = "extra"
  <2> DEFINE e == ExtraStep(c)
  <2>1. d = AwaitStep(e, b)
    BY <1>1 DEF CommandStep
  <2>2. /\ e \in Card /\ SameTransfer(c, e) /\ e.code = 0
        /\ \/ e.phase = "none"
           \/ e.phase = "extra" /\ e.crarg = c.crarg
    <3>1. CASE c.evcnt < ArgLen
      <4> DEFINE x == Extra(c, c.crarg, c.evcnt + 1)
      <4>1. e = [x EXCEPT !.data = "extra"]
        BY <3>1 DEF ExtraStep
      <4>2. /\ x \in Card /\ SameTransfer(c, x) /\ x.code = 0
            /\ x.phase = "extra" /\ x.crarg = c.crarg
        BY <1>t, ExtraFields
      <4>3. "extra" \in Out
        BY DEF Out
      <4> HIDE DEF x, e
      <4>4. e \in Card
        BY <4>1, <4>2, <4>3, Fields
      <4> QED BY <4>1, <4>2, <4>4 DEF Card, SameTransfer
    <3>2. CASE ~(c.evcnt < ArgLen)
      BY <3>2, NoCommandFields DEF ExtraStep
    <3> QED BY <3>1, <3>2
  <2> HIDE DEF e
  <2>3. /\ d \in Card /\ SameTransfer(e, d) /\ d.code < 64
        /\ \/ d.phase = "recv" /\ d.evcnt = 0
           \/ d = e
    BY <2>1, <2>2, AwaitFields
  <2> HIDE DEF d
  <2> QED BY <1>1, <2>2, <2>3 DEF Commanded, SameTransfer, PhaseStep
<1>2. CASE c.phase = "none"
  <2>1. d = AwaitStep(c, b)
    BY <1>2 DEF CommandStep
  <2>2. /\ d \in Card /\ SameTransfer(c, d) /\ d.code < 64
        /\ \/ d.phase = "recv" /\ d.evcnt = 0
           \/ d = c
    BY <2>1, <1>t, AwaitFields
  <2> HIDE DEF d
  <2> QED BY <1>2, <2>2 DEF Commanded, PhaseStep
<1>3. CASE c.phase = "recv"
  <2>1. CASE c.evcnt < ArgLen
    <3> DEFINE a == c.crarg * 256 + b
               n == c.evcnt + 1
    <3>1. d = [c EXCEPT !.crarg = a, !.evcnt = n]
      BY <1>3, <2>1 DEF CommandStep, ReceiveStep
    <3>2. a \in Nat /\ n \in Nat
      BY <1>t, SdCardAssumption DEF SdCardAssumption
    <3> HIDE DEF d, a, n
    <3>3. d \in Card
      BY <3>1, <3>2, Fields
    <3>4. SameTransfer(c, d) /\ d.phase = "recv" /\ d.evcnt = n /\ d.code = c.code
      BY <3>1, <1>3 DEF Card, SameTransfer
    <3> QED BY <3>3, <3>4, <1>3, <2>1, <1>t DEF Commanded, PhaseStep, n
  <2>2. CASE ~(c.evcnt < ArgLen)
    <3> DEFINE r == c.r1 \union IF c.crc /\ ~crcOk THEN {"CRC"} ELSE {}
    <3>1. d = [c EXCEPT !.phase = "resp", !.evcnt = 0, !.data = "stuff", !.r1 = r]
      BY <1>3, <2>2 DEF CommandStep, ReceiveStep
    <3>2. r \in SUBSET R1Flag /\ "resp" \in Phase /\ "stuff" \in Out
      BY Types DEF R1Flag, Phase, Out
    <3> HIDE DEF d, r
    <3>3. d \in Card
      BY <3>1, <3>2, Fields
    <3>4. SameTransfer(c, d) /\ d.phase = "resp" /\ d.evcnt = 0 /\ d.code = c.code
      BY <3>1 DEF Card, SameTransfer
    <3> QED BY <3>3, <3>4, <1>3, <2>2, <1>t, Lengths DEF Commanded, PhaseStep
  <2> QED BY <2>1, <2>2
<1>4. CASE c.phase = "resp"
  <2>1. CASE c.evcnt < CmdWait
    <3>1. d = [c EXCEPT !.evcnt = @ + 1, !.data = "stuff"]
      BY <1>4, <2>1 DEF CommandStep, RespondStep
    <3>2. "stuff" \in Out
      BY DEF Out
    <3> HIDE DEF d
    <3>3. d \in Card
      BY <3>1, <3>2, <1>t, Fields
    <3>4. SameTransfer(c, d) /\ d.phase = "resp" /\ d.evcnt = c.evcnt + 1 /\ d.code = c.code
      BY <3>1, <1>4 DEF Card, SameTransfer
    <3> QED BY <3>3, <3>4, <1>4, <2>1, <1>t, Lengths DEF Commanded, PhaseStep
  <2>2. CASE ~(c.evcnt < CmdWait) /\ c.code = 55
    <3> DEFINE r == c.r1 \union IF c.state \in Idling THEN {"IDLE"} ELSE {}
    <3>1. d = [c EXCEPT !.phase = "none", !.code = 0, !.app = TRUE, !.data = "r1",
                        !.r1 = r]
      BY <1>4, <2>2 DEF CommandStep, RespondStep
    <3>2. r \in SUBSET R1Flag /\ "none" \in Phase /\ "r1" \in Out
      BY Types DEF R1Flag, Phase, Out
    <3> HIDE DEF d, r
    <3>3. d \in Card
      BY <3>1, <3>2, Fields
    <3>4. SameTransfer(c, d) /\ d.phase = "none" /\ d.code = 0
      BY <3>1 DEF Card, SameTransfer
    <3> QED BY <3>3, <3>4 DEF Commanded, PhaseStep
  <2>3. CASE ~(c.evcnt < CmdWait) /\ c.code # 55
    <3>1. d = NoCommand(c)
      BY <1>4, <2>3 DEF CommandStep, RespondStep
    <3> QED BY <3>1, NoCommandFields DEF Commanded, PhaseStep
  <2> QED BY <2>1, <2>2, <2>3
<1> QED
  BY <1>1, <1>2, <1>3, <1>4, Types DEF Phase
-----------------------------------------------------------------------------
(***************************************************************************)
(* The card states. A card is quiet when it is selected, moves no data and *)
(* receives no command; the commands without a transfer keep it quiet.     *)
(***************************************************************************)
Settled(c) == c \in Card /\ Agrees(c) /\ Positioned(c) /\ Talking(c)

Quiet(c) ==
  /\ c \in Card /\ c.ena /\ c.pstat = "IDLE" /\ c.code < 64
  /\ c.ppos <= MaxPos /\ c.left < ClockMod
  /\ c.state \in Idling \union {"AVAIL"}
  /\ c.phase \in {"none", "extra"}
  /\ c.phase = "extra" /\ c.crarg = OcrReady => c.state = "AVAIL"

Fresh(c) == Quiet(c) /\ c.phase = "none"

\* The idle states find the transfer machine idle.
LEMMA IdleAlready ==
  ASSUME NEW c \in Card, c.pstat = "IDLE"
  PROVE  [c EXCEPT !.pstat = "IDLE"] = c
  BY DEF Card

\* A quiet card is settled,
LEMMA QuietSettled ==
  ASSUME NEW c, Quiet(c)
  PROVE  Settled(c)
<1>1. Agrees(c)
  BY DEF Quiet, Agrees, Idling, Reading, Writing, ReadStat, WriteStat, W24Stat, W25Stat
<1>2. Positioned(c)
  BY DEF Quiet, Positioned, DataStat, EdgeStat
<1>3. Talking(c)
  BY DEF Quiet, Talking, WriteStat, W24Stat, W25Stat, StartUp, Idling
<1> QED BY <1>1, <1>2, <1>3 DEF Settled, Quiet

\* Reporting a status, or changing the CRC option, leaves the card as it is.
LEMMA ReportFields ==
  ASSUME NEW c \in Card
  PROVE  /\ Illegal(c) \in Card /\ Idles(c) \in Card /\ R1(c) \in Card
         /\ [c EXCEPT !.r1 = R1Flag] \in Card
         /\ \A x \in BOOLEAN : [c EXCEPT !.crc = x] \in Card
<1>1. /\ c.r1 \union {"ILL"} \in SUBSET R1Flag /\ c.r1 \union {"IDLE"} \in SUBSET R1Flag
      /\ "r1" \in Out
  BY Types DEF R1Flag, Out
<1> QED BY <1>1, Fields DEF Illegal, Idles, R1

\* stays quiet whatever its response reports,
LEMMA QuietReports ==
  ASSUME NEW c, Quiet(c)
  PROVE  /\ Quiet(Illegal(c)) /\ Quiet(Idles(c)) /\ Quiet(R1(c))
         /\ Quiet([c EXCEPT !.r1 = R1Flag])
         /\ \A x \in BOOLEAN : Quiet([c EXCEPT !.crc = x])
<1>1. c \in Card
  BY DEF Quiet
<1>2. Quiet(Illegal(c))
  BY <1>1, ReportFields DEF Quiet, Illegal, Card
<1>3. Quiet(Idles(c))
  BY <1>1, ReportFields DEF Quiet, Idles, Card
<1>4. Quiet(R1(c))
  BY <1>1, ReportFields DEF Quiet, R1, Card
<1>5. Quiet([c EXCEPT !.r1 = R1Flag])
  BY <1>1, ReportFields DEF Quiet, Card
<1>6. ASSUME NEW x \in BOOLEAN PROVE Quiet([c EXCEPT !.crc = x])
  BY <1>1, ReportFields DEF Quiet, Card
<1> QED BY <1>2, <1>3, <1>4, <1>5, <1>6

\* and with more response bytes, if they do not claim readiness.
LEMMA QuietExtra ==
  ASSUME NEW c, Quiet(c), NEW arg \in Nat, NEW from \in Nat,
         arg = OcrReady => c.state = "AVAIL"
  PROVE  Quiet(Extra(c, arg, from))
<1> DEFINE d == Extra(c, arg, from)
<1>1. /\ d \in Card /\ SameTransfer(c, d) /\ d.phase = "extra" /\ d.code = 0
      /\ d.crarg = arg
  BY ZenonT(60), ExtraFields DEF Quiet
<1> HIDE DEF d
<1>2. Quiet(d)
  BY <1>1 DEF Quiet, SameTransfer
<1> QED BY <1>2 DEF d

\* A card that has just been asked may change its state,
LEMMA FreshState ==
  ASSUME NEW c, Fresh(c), NEW s \in Idling \union {"AVAIL"}
  PROVE  Fresh([c EXCEPT !.state = s])
<1>1. c \in Card /\ s \in State
  BY DEF Fresh, Quiet, State
<1>2. [c EXCEPT !.state = s] \in Card
  BY <1>1, Fields
<1> QED BY <1>1, <1>2 DEF Fresh, Quiet, Card

\* also to initialising.
LEMMA FreshStartInit ==
  ASSUME NEW c, Fresh(c)
  PROVE  Fresh(StartInit(c))
<1> DEFINE n == InitTime % ClockMod
           d == [c EXCEPT !.state = "IINIT"]
<1>1. n \in Nat /\ n < ClockMod
  BY ModRange, Lengths
<1>2. Fresh(d)
  BY FreshState DEF Idling
<1>3. StartInit(c) = [d EXCEPT !.left = n]
  BY DEF StartInit
<1> HIDE DEF n, d
<1>4. d \in Card /\ [d EXCEPT !.left = n] \in Card
  BY <1>1, <1>2, Fields DEF Fresh, Quiet
<1>5. Fresh([d EXCEPT !.left = n])
  BY <1>1, <1>2, <1>4 DEF Fresh, Quiet, Card
<1> QED BY <1>3, <1>5

\* The responses, apart from the one that claims readiness.
LEMMA ExtraArgs ==
  /\ 0 \in Nat /\ ArgLen - 1 \in Nat
  /\ CheckArg \in Nat /\ OcrBusy \in Nat /\ OcrReady \in Nat
  /\ 0 # OcrReady /\ CheckArg # OcrReady /\ OcrBusy # OcrReady
  BY SdCardAssumption DEF SdCardAssumption

\* Commands before the card is idle leave it quiet.
LEMMA NativeQuiet ==
  ASSUME NEW c, Fresh(c), NEW ran
  PROVE  Quiet(NativeCommand(c, ran))
<1>1. CASE Is(ran, 0)
  <2> DEFINE d == [c EXCEPT !.state = "IDLE"]
             e == [d EXCEPT !.crc = FALSE]
  <2>1. Quiet(d)
    BY FreshState DEF Idling, Fresh
  <2>2. Quiet(e)
    BY <2>1, QuietReports
  <2>3. Quiet(Idles(e))
    BY <2>2, QuietReports
  <2> QED BY <1>1, <2>3 DEF NativeCommand
<1>2. CASE ~Is(ran, 0)
  BY <1>2, QuietReports DEF NativeCommand, Fresh
<1> QED BY <1>1, <1>2

\* So do those of an idle card,
LEMMA IdleQuiet ==
  ASSUME NEW c, Fresh(c), NEW ran
  PROVE  Quiet(IdleCommand(c, ran))
<1> USE DEF IdleCommand
<1>1. Quiet([c EXCEPT !.state = "IDLE"])
  BY FreshState DEF Idling, Fresh
<1>2. Quiet(StartInit(c))
  BY FreshStartInit DEF Fresh
<1>3. Quiet(Extra([c EXCEPT !.state = "VERIFIED"], CheckArg, 0))
  BY FreshState, QuietExtra, ExtraArgs DEF Idling, Fresh
<1>4. Quiet([c EXCEPT !.r1 = R1Flag]) /\ Quiet(Illegal(c))
  BY QuietReports DEF Fresh
<1>5. Quiet(Extra(c, OcrBusy, 0))
  BY QuietExtra, ExtraArgs DEF Fresh
<1>6. Quiet([c EXCEPT !.crc = (c.crarg % 2 # 0)])
  BY QuietReports DEF Fresh
<1>7. Quiet(Extra(StartInit(c), OcrBusy, 0))
  BY FreshStartInit, QuietExtra, ExtraArgs DEF Fresh
<1> QED BY <1>1, <1>2, <1>3, <1>4, <1>5, <1>6, <1>7

\* and those while it initialises.
LEMMA InitQuiet ==
  ASSUME NEW c, Fresh(c), NEW ran
  PROVE  Quiet(InitCommand(c, ran))
<1>1. Quiet(Idles([c EXCEPT !.state = "IDLE"]))
  BY FreshState, QuietReports DEF Idling, Fresh
<1>2. Quiet(Extra([c EXCEPT !.state = "AVAIL"], OcrReady, 0))
  <2> DEFINE d == [c EXCEPT !.state = "AVAIL"]
  <2>1. Quiet(d) /\ d.state = "AVAIL"
    BY FreshState DEF Fresh, Quiet, Card
  <2> HIDE DEF d
  <2>2. Quiet(Extra(d, OcrReady, 0))
    BY <2>1, QuietExtra, ExtraArgs
  <2> QED BY <2>2 DEF d
<1>3. Quiet(Idles(Extra(c, OcrBusy, 0)))
  BY QuietExtra, QuietReports, ExtraArgs DEF Fresh
<1>4. Quiet(Idles(Illegal(c)))
  BY QuietReports DEF Fresh
<1> QED BY <1>1, <1>2, <1>3, <1>4 DEF InitCommand

\* A transfer command of the available card: it starts at the first byte.
Begun(c) ==
  /\ c \in Card /\ c.code < 64 /\ c.left < ClockMod /\ c.ppos = 0
  /\ c.phase = "none"
  /\ \/ c.state \in Reading /\ c.pstat = "RPREP"
     \/ c.state = "CMD24" /\ c.pstat = "W24PREP"
     \/ c.state = "CMD25" /\ c.pstat = "W25PREP"

\* A transfer begins at the first byte of its block.
LEMMA BeginBegun ==
  ASSUME NEW c, Fresh(c), NEW s, NEW p,
         <<s, p>> \in {<<"CMD17", "RPREP">>, <<"CMD18", "RPREP">>,
                       <<"CMD24", "W24PREP">>, <<"CMD25", "W25PREP">>}
  PROVE  Begun(Begin(c, s, p))
<1> DEFINE a == c.crarg \div BlockLen
           d == [c EXCEPT !.state = s, !.pstat = p, !.ppos = 0, !.paddr = a]
<1>1. c \in Card /\ s \in State /\ p \in PStat
  BY DEF Fresh, Quiet, State, Reading, Writing, PStat, ReadStat, WriteStat, W24Stat, W25Stat
<1>2. c.crarg \in Nat /\ BlockLen \in Nat \ {0}
  BY <1>1, Types, Lengths
<1>3. a \in Nat
  BY <1>2
<1>4. Begin(c, s, p) = d
  BY DEF Begin
<1> HIDE DEF a
<1>5. d \in Card
  BY <1>1, <1>3, Fields
<1>6. /\ d.state = s /\ d.pstat = p /\ d.ppos = 0
      /\ d.code = c.code /\ d.left = c.left /\ d.phase = c.phase
  BY <1>1 DEF Card
<1> HIDE DEF d
<1>7. Begun(d)
  BY <1>5, <1>6 DEF Begun, Fresh, Quiet, Reading
<1> QED BY <1>4, <1>7

\* A card that begins a transfer is settled.
LEMMA BegunSettled ==
  ASSUME NEW c, Begun(c)
  PROVE  Settled(c)
<1>1. Agrees(c)
  BY DEF Begun, Agrees, Reading, Writing, ReadStat, WriteStat, W24Stat, W25Stat
<1>2. Positioned(c)
  BY Lengths DEF Begun, Positioned, DataStat, EdgeStat, MaxPos
<1>3. Talking(c)
  BY DEF Begun, Talking
<1> QED BY <1>1, <1>2, <1>3 DEF Settled, Begun

\* A command of an available card leaves it quiet or begins a transfer.
LEMMA AvailOutcome ==
  ASSUME NEW c, Fresh(c), c.state = "AVAIL", NEW ran
  PROVE  Quiet(AvailCommand(c, ran)) \/ Begun(AvailCommand(c, ran))
<1>1. Quiet(Idles([c EXCEPT !.state = "IDLE"]))
  BY FreshState, QuietReports DEF Idling, Fresh
<1>2. Quiet(Extra(c, 0, ArgLen - 1)) /\ Quiet(Extra(c, OcrReady, 0))
  BY QuietExtra, ExtraArgs DEF Fresh
<1>3. /\ Begun(Begin(c, "CMD17", "RPREP")) /\ Begun(Begin(c, "CMD18", "RPREP"))
      /\ Begun(Begin(c, "CMD24", "W24PREP")) /\ Begun(Begin(c, "CMD25", "W25PREP"))
  BY BeginBegun
<1>4. Quiet([c EXCEPT !.crc = (c.crarg % 2 # 0)])
  BY QuietReports DEF Fresh
<1>5. Quiet(Illegal(c)) /\ Quiet(c)
  BY QuietReports DEF Fresh
<1> QED BY <1>1, <1>2, <1>3, <1>4, <1>5 DEF AvailCommand

\* Sending the response changes nothing else.
LEMMA R1Settled ==
  ASSUME NEW c, Settled(c)
  PROVE  Settled(R1(c)) /\ R1(c).phase = c.phase /\ R1(c).evcnt = c.evcnt
<1> DEFINE d == R1(c)
<1>1. c \in Card /\ d \in Card
  BY ReportFields DEF Settled
<1>2. /\ SameTransfer(c, d) /\ d.phase = c.phase /\ d.evcnt = c.evcnt
      /\ d.code = c.code /\ d.crarg = c.crarg
  BY <1>1 DEF R1, Card, SameTransfer
<1> HIDE DEF d
<1>3. Settled(d)
  BY <1>1, <1>2 DEF Settled, SameTransfer, Agrees, Positioned, Talking
<1> QED BY <1>2, <1>3 DEF d

\* Outside transfers nothing moves.
LEMMA StillSettled ==
  ASSUME NEW c \in Card, Nearly(c), Positioned(c), Talking(c),
         c.state \notin Reading \union Writing
  PROVE  Settled(c) /\ c.pstat = "IDLE"
BY DEF Settled, Nearly, Agrees, ReadStat, WriteStat, W24Stat, W25Stat

\* What the card state machine may do with a card.
Stated(c, d) ==
  /\ Settled(d)
  /\ d.phase \in {"recv", "resp"} => d.phase = c.phase /\ d.evcnt = c.evcnt

\* Before the initial clocks,
LEMMA UninitInv ==
  ASSUME NEW c, Settled(c), c.state = "UNINIT", NEW b, NEW timely \in BOOLEAN
  PROVE  Stated(c, UninitStep(c, b, timely))
<1> DEFINE d == [c EXCEPT !.state = "NINIT", !.evcnt = 1, !.data = "stuff"]
<1>1. c \in Card /\ "NINIT" \in State /\ 1 \in Nat /\ "stuff" \in Out
  BY DEF Settled, State, StartUp, Out
<1>2. d \in Card
  BY <1>1, Fields
<1>3. /\ d.state = "NINIT" /\ d.pstat = c.pstat /\ d.ppos = c.ppos
      /\ d.left = c.left /\ d.code = c.code /\ d.phase = c.phase
  BY <1>1 DEF Card
<1> HIDE DEF d
<1>4. c.phase = "none"
  BY DEF Settled, Talking, StartUp
<1>5. Stated(c, d)
  BY <1>2, <1>3, <1>4 DEF Stated, Settled, Agrees, Positioned, Talking, Reading, Writing
<1>6. Stated(c, c)
  BY DEF Stated
<1> QED BY <1>5, <1>6 DEF UninitStep, d

\* during them,
LEMMA NinitInv ==
  ASSUME NEW c, Settled(c), c.state = "NINIT", NEW b, NEW timely \in BOOLEAN
  PROVE  Stated(c, NinitStep(c, b, timely))
<1> DEFINE n == c.evcnt + 1
           d1 == [c EXCEPT !.state = "UNINIT"]
           d2 == [c EXCEPT !.evcnt = n]
           e  == NoCommand(c)
           d3 == [e EXCEPT !.evcnt = n, !.state = "NATIVE", !.crc = TRUE]
<1>1. c \in Card /\ c.phase = "none"
  BY DEF Settled, Talking, StartUp
<1>2. "UNINIT" \in State /\ "NATIVE" \in State
  BY DEF State, StartUp, Idling
<1>3. n \in Nat
  BY <1>1, Types
<1>4. NinitStep(c, b, timely) \in {d1, d2, [e EXCEPT !.evcnt = c.evcnt + 1,
                                                  !.state = "NATIVE", !.crc = TRUE]}
  <2>1. NoCommand(c).evcnt = c.evcnt
    BY <1>1 DEF NoCommand, Card
  <2> QED BY <2>1 DEF NinitStep
<1>5. e \in Card /\ SameTransfer(c, e) /\ e.phase = "none" /\ e.code = 0
  BY <1>1, NoCommandFields
<1> HIDE DEF e
<1>6. NinitStep(c, b, timely) \in {d1, d2, d3}
  BY <1>4
<1> HIDE DEF n
<1>7. d1 \in Card /\ d2 \in Card
  BY <1>1, <1>2, <1>3, Fields
<1>8. d3 \in Card
  BY <1>2, <1>3, <1>5, Fields
<1>9. Stated(c, d1)
  <2>1. /\ d1.state = "UNINIT" /\ d1.pstat = c.pstat /\ d1.ppos = c.ppos
        /\ d1.left = c.left /\ d1.code = c.code /\ d1.phase = "none"
    BY <1>1 DEF Card
  <2> HIDE DEF d1
  <2> QED BY <1>7, <2>1 DEF Stated, Settled, Agrees, Positioned, Talking, Reading, Writing
<1>10. Stated(c, d2)
  <2>1. /\ d2.state = c.state /\ d2.pstat = c.pstat /\ d2.ppos = c.ppos
        /\ d2.left = c.left /\ d2.code = c.code /\ d2.phase = "none"
    BY <1>1 DEF Card
  <2> HIDE DEF d2
  <2> QED BY <1>7, <2>1 DEF Stated, Settled, Agrees, Positioned, Talking
<1>11. Stated(c, d3)
  <2>1. /\ d3.state = "NATIVE" /\ d3.pstat = e.pstat /\ d3.ppos = e.ppos
        /\ d3.left = e.left /\ d3.code = 0 /\ d3.phase = "none"
    BY <1>5 DEF Card
  <2> HIDE DEF d3
  <2> QED
    BY <1>5, <1>8, <2>1
    DEF Stated, Settled, Agrees, Positioned, Talking, Reading, Writing, SameTransfer
<1> QED BY <1>6, <1>9, <1>10, <1>11

\* in a read
LEMMA ReadingInv ==
  ASSUME NEW c \in Card, Nearly(c), Positioned(c), Talking(c), c.state \in Reading,
         NEW ran, ran.end => c.phase = "none" /\ c.ena
  PROVE  Stated(c, ReadingStep(c, ran))
<1> DEFINE e == NextRead(c)
           a == (c.paddr + 1) % SectorMod
<1>1. /\ a \in Nat
      /\ "AVAIL" \in State /\ "RPREP" \in PStat /\ "IDLE" \in PStat /\ 0 \in Nat
  <2>1. c.paddr + 1 \in Int /\ SectorMod \in Nat \ {0}
    BY Types, Lengths
  <2>2. a \in Nat
    BY <2>1, ModRange
  <2> QED BY <2>2 DEF State, PStat, ReadStat
<1>2. e = IF c.pstat # "IDLE" THEN c
          ELSE IF c.state = "CMD17" THEN [c EXCEPT !.state = "AVAIL"]
          ELSE [c EXCEPT !.pstat = "RPREP", !.ppos = 0, !.paddr = a]
  BY DEF NextRead, Move
<1> HIDE DEF e, a
<1>3. e \in Card
  BY <1>1, <1>2, Fields
<1>4. /\ e.ena = c.ena /\ e.left = c.left /\ e.code = c.code /\ e.phase = c.phase
      /\ e.evcnt = c.evcnt /\ e.crarg = c.crarg
      /\ \/ c.pstat # "IDLE" /\ e.state = c.state /\ e.pstat = c.pstat /\ e.ppos = c.ppos
         \/ e.state = "AVAIL" /\ e.pstat = "IDLE" /\ e.ppos = c.ppos
         \/ e.state = c.state /\ e.pstat = "RPREP" /\ e.ppos = 0
  BY <1>2 DEF Card
<1>5. Settled(e)
  <2>1. Agrees(e)
    BY <1>4 DEF Nearly, Agrees, Reading, Writing, ReadStat, WriteStat, W24Stat, W25Stat
  <2>2. Positioned(e)
    BY <1>4, Lengths DEF Positioned, DataStat, EdgeStat, MaxPos
  <2>3. Talking(e)
    BY <1>4 DEF Talking, Nearly, Reading, ReadStat, WriteStat, W24Stat, W25Stat, StartUp
  <2> QED BY <1>3, <2>1, <2>2, <2>3 DEF Settled
<1>6. Stated(c, e)
  BY <1>4, <1>5 DEF Stated
<1>7. CASE Is(ran, 12)
  <2> DEFINE x == [e EXCEPT !.state = "AVAIL", !.pstat = "IDLE"]
  <2>1. x \in Card
    BY <1>1, <1>3, Fields
  <2>2. Quiet(x)
    <3>1. e.ena /\ e.phase = "none"
      BY <1>4, <1>7 DEF Is
    <3>2. e.code < 64 /\ e.ppos <= MaxPos /\ e.left < ClockMod
      BY <1>5 DEF Settled, Talking, Positioned
    <3> QED BY <1>3, <2>1, <3>1, <3>2 DEF Quiet, Card
  <2>3. x.state = "AVAIL"
    BY <1>3 DEF Card
  <2> HIDE DEF x
  <2>4. Quiet(R1(x))
    BY <2>2, QuietReports
  <2>5. Quiet(Extra(R1(x), 0, 0))
    BY <2>4, QuietExtra, ExtraArgs
  <2>6. ReadingStep(c, ran) = Extra(R1(x), 0, 0)
    BY <1>7 DEF ReadingStep, StopRead, e, x
  <2>7. Extra(R1(x), 0, 0).phase \in {"none", "extra"}
    BY <2>5 DEF Quiet
  <2> QED BY <2>5, <2>6, <2>7, QuietSettled DEF Stated
<1>8. CASE ~Is(ran, 12)
  BY <1>6, <1>8 DEF ReadingStep, e
<1> QED BY <1>7, <1>8

\* and in a write the state machine settles the card.
LEMMA WritingInv ==
  ASSUME NEW c \in Card, Nearly(c), Positioned(c), Talking(c), c.state \in Writing
  PROVE  Stated(c, WritingStep(c))
<1> DEFINE d == WritingStep(c)
<1>1. d = [c EXCEPT !.state = IF c.pstat = "IDLE" THEN "AVAIL" ELSE c.state]
  BY DEF WritingStep
<1>2. "AVAIL" \in State /\ c.state \in State
  BY Types DEF State
<1> HIDE DEF d
<1>3. d \in Card
  BY <1>1, <1>2, Fields
<1>4. /\ d.ena = c.ena /\ d.left = c.left /\ d.code = c.code /\ d.phase = c.phase
      /\ d.evcnt = c.evcnt /\ d.crarg = c.crarg /\ d.pstat = c.pstat /\ d.ppos = c.ppos
      /\ d.state = IF c.pstat = "IDLE" THEN "AVAIL" ELSE c.state
  BY <1>1 DEF Card
<1>5. Agrees(d)
  BY <1>4 DEF Nearly, Agrees, Reading, Writing, ReadStat, WriteStat, W24Stat, W25Stat
<1>6. Positioned(d)
  BY <1>4 DEF Positioned
<1>7. Talking(d)
  BY <1>4 DEF Talking, StartUp
<1>8. Stated(c, d)
  BY <1>3, <1>4, <1>5, <1>6, <1>7 DEF Stated, Settled
<1> QED BY <1>8 DEF d

\* What leaves the card quiet settles it.
LEMMA QuietStated ==
  ASSUME NEW c, NEW d, Quiet(d)
  PROVE  Stated(c, R1(d))
<1>1. Quiet(R1(d))
  BY QuietReports
<1>2. Settled(R1(d))
  BY <1>1, QuietSettled
<1> QED BY <1>1, <1>2 DEF Stated, Quiet

\* What the state machine establishes: a settled card.
LEMMA StateInv ==
  ASSUME NEW c \in Card, Nearly(c), Positioned(c), Talking(c),
         NEW ran, ran.end \in BOOLEAN,
         ran.end => c.phase = "none" /\ c.ena /\ c.state \notin StartUp,
         NEW b, NEW timely \in BOOLEAN
  PROVE  Stated(c, StateStep(c, ran, b, timely))
<1> DEFINE heard == timely /\ ran.end
           d == StateStep(c, ran, b, timely)
<1>q. ASSUME c.state \notin Reading \union Writing
      PROVE  /\ Settled(c) /\ [c EXCEPT !.pstat = "IDLE"] = c
             /\ Stated(c, c)
  BY <1>q, StillSettled, IdleAlready DEF Stated
<1>f. ASSUME ran.end, c.state \in Idling \union {"AVAIL"}
      PROVE  Fresh(c) /\ Quiet(c)
  <2>1. c.pstat = "IDLE"
    BY <1>f DEF Nearly, Reading, Writing, Idling
  <2> QED BY <1>f, <2>1 DEF Fresh, Quiet, Positioned, Talking
<1>1. CASE c.state = "UNINIT"
  <2>1. Settled(c) /\ d = UninitStep(c, b, timely)
    BY <1>1, <1>q DEF StateStep, Reading, Writing, Idling
  <2> QED BY <1>1, <2>1, UninitInv
<1>2. CASE c.state = "NINIT"
  <2>1. Settled(c) /\ d = NinitStep(c, b, timely)
    BY <1>2, <1>q DEF StateStep, Reading, Writing, Idling
  <2> QED BY <1>2, <2>1, NinitInv
<1>3. CASE c.state \in Idling /\ ~heard
  <2>1. Stated(c, c) /\ d = c
    BY <1>3, <1>q DEF StateStep, Reading, Writing, Idling
  <2> QED BY <2>1
<1>4. CASE c.state = "NATIVE" /\ heard
  <2>1. d = R1(IF c.r1 = {} THEN NativeCommand(c, ran) ELSE c)
    BY <1>4, <1>q DEF StateStep, Reading, Writing, Idling
  <2>2. Fresh(c) /\ Quiet(c)
    BY <1>4, <1>f DEF Idling
  <2> HIDE DEF d
  <2>3. Stated(c, d)
    BY <2>1, <2>2, NativeQuiet, QuietStated
  <2> QED BY <2>3 DEF d
<1>5. CASE c.state \in {"IDLE", "VERIFIED"} /\ heard
  <2>1. d = R1(Idles(IF c.r1 = {} THEN IdleCommand(c, ran) ELSE c))
    BY <1>5, <1>q DEF StateStep, Reading, Writing, Idling
  <2>2. Fresh(c) /\ Quiet(c)
    BY <1>5, <1>f DEF Idling
  <2> HIDE DEF d
  <2>3. Stated(c, d)
    BY <2>1, <2>2, IdleQuiet, QuietReports, QuietStated
  <2> QED BY <2>3 DEF d
<1>6. CASE c.state = "IINIT" /\ heard
  <2>1. d = R1(IF c.r1 = {} THEN InitCommand(c, ran) ELSE c)
    BY <1>6, <1>q DEF StateStep, Reading, Writing, Idling
  <2>2. Fresh(c) /\ Quiet(c)
    BY <1>6, <1>f DEF Idling
  <2> HIDE DEF d
  <2>3. Stated(c, d)
    BY <2>1, <2>2, InitQuiet, QuietStated
  <2> QED BY <2>3 DEF d
<1>7. CASE c.state = "AVAIL" /\ ran.end
  <2>1. d = R1(IF c.r1 = {} THEN AvailCommand(c, ran) ELSE c)
    BY <1>7 DEF StateStep, Reading, Writing, Idling
  <2>2. Fresh(c) /\ Quiet(c)
    BY <1>7, <1>f
  <2> HIDE DEF d
  <2>3. CASE c.r1 = {} /\ Begun(AvailCommand(c, ran))
    <3> DEFINE a == AvailCommand(c, ran)
    <3>1. Settled(R1(a)) /\ R1(a).phase = "none"
      BY <2>3, BegunSettled, R1Settled DEF Begun
    <3>2. Stated(c, R1(a))
      BY <3>1 DEF Stated
    <3>3. d = R1(a)
      BY <2>1, <2>3
    <3> QED BY <3>2, <3>3 DEF d
  <2>4. CASE ~(c.r1 = {} /\ Begun(AvailCommand(c, ran)))
    <3>1. Stated(c, d)
      BY <1>7, <2>1, <2>2, <2>4, AvailOutcome, QuietStated
    <3> QED BY <3>1 DEF d
  <2> QED BY <2>3, <2>4
<1>8. CASE c.state = "AVAIL" /\ ~ran.end
  <2>1. Stated(c, c) /\ d = c
    BY <1>8, <1>q DEF StateStep, Reading, Writing, Idling
  <2> QED BY <2>1
<1>9. CASE c.state \in Reading
  <2>1. d = ReadingStep(c, ran)
    BY <1>9 DEF StateStep, Reading, Writing, Idling
  <2> QED BY <1>9, <2>1, ReadingInv
<1>10. CASE c.state \in Writing
  <2>1. d = WritingStep(c)
    BY <1>10 DEF StateStep, Reading, Writing, Idling
  <2> QED BY <1>10, <2>1, WritingInv
<1> QED
  BY <1>1, <1>2, <1>3, <1>4, <1>5, <1>6, <1>7, <1>8, <1>9, <1>10, Types
  DEF State, StartUp, Idling
-----------------------------------------------------------------------------
(***************************************************************************)
(* The inductive invariant.                                                *)
(***************************************************************************)
IInv ==
  /\ Settled(sd)
  /\ since \in 0 .. MaxSince
  /\ age \in 0 .. ClockMod
  /\ FrameContiguous

\* The start,
LEMMA InitInv == Init => IInv
<1> SUFFICES ASSUME Init PROVE IInv
  OBVIOUS
<1>1. AfterReset(0, 0) \in Card
  BY DEF AfterReset, Card, State, StartUp, Phase, Out, PStat
<1>2. Settled(sd)
  BY <1>1, Lengths
  DEF Init, AfterReset, Settled, Agrees, Positioned, Talking, Reading, Writing,
      ReadStat, WriteStat, W24Stat, W25Stat, DataStat, EdgeStat, MaxPos
<1>3. since \in 0 .. MaxSince /\ age \in 0 .. ClockMod
  BY Lengths DEF Init, MaxSince
<1>4. FrameContiguous
  BY DEF Init, AfterReset, FrameContiguous
<1> QED BY <1>2, <1>3, <1>4 DEF IInv

\* a reset,
LEMMA ResetInv ==
  ASSUME IInv, Reset
  PROVE  IInv'
<1>1. sd \in Card /\ sd.ppos <= MaxPos
  BY DEF IInv, Settled, Positioned
<1>2. AfterReset(sd.ppos, sd.paddr) \in Card
  BY <1>1, Types DEF AfterReset, Card, State, StartUp, Phase, Out, PStat
<1>3. Settled(sd')
  BY <1>1, <1>2, Lengths
  DEF Reset, AfterReset, Settled, Agrees, Positioned, Talking, Reading, Writing,
      ReadStat, WriteStat, W24Stat, W25Stat, DataStat, EdgeStat
<1>4. since' \in 0 .. MaxSince /\ age' \in 0 .. ClockMod
  BY Lengths DEF Reset, MaxSince
<1>5. FrameContiguous'
  BY DEF Reset, AfterReset, FrameContiguous
<1> QED BY <1>3, <1>4, <1>5 DEF IInv

\* a selection
LEMMA CsSetInv ==
  ASSUME IInv, CsSet
  PROVE  IInv'
<1>1. sd \in Card /\ (~sd.ena => sd.phase = "none") /\ sd.ena \in BOOLEAN
  BY Types DEF IInv, Settled, Talking
<1>2. sd' \in Card
  <2>1. "none" \in Phase
    BY DEF Phase
  <2> QED BY <1>1, <2>1, Fields DEF CsSet
<1>3. /\ sd'.state = sd.state /\ sd'.pstat = sd.pstat /\ sd'.ppos = sd.ppos
      /\ sd'.left = sd.left /\ sd'.phase = "none" /\ sd'.code \in {0, sd.code}
  BY <1>1 DEF CsSet, Card
<1>4. Settled(sd')
  BY <1>2, <1>3 DEF IInv, Settled, Agrees, Positioned, Talking
<1>5. since' \in 0 .. MaxSince /\ age' \in 0 .. ClockMod
  BY Lengths DEF CsSet, MaxSince, IInv
<1>6. FrameContiguous'
  BY <1>3 DEF FrameContiguous
<1> QED BY <1>4, <1>5, <1>6 DEF IInv

\* A byte comes after some cycles, which bring the deadline nearer.
Aged(c, e, d) ==
  /\ d.left = (c.left - e) % ClockMod
  /\ SameCommand(c, d) /\ d.pstat = c.pstat /\ d.ppos = c.ppos /\ d.paddr = c.paddr

\* The three machines in their order, and what the first two hand to the third.
LEMMA SendParts ==
  ASSUME IInv, NEW b \in Byte, NEW e \in Gap, NEW crcOk \in BOOLEAN,
         NEW timely \in BOOLEAN, Send(b, e, crcOk, timely)
  PROVE  \E c0 \in Card, c1 \in Card, c2 \in Card : \E ran :
           /\ Aged(sd, e, c0)
           /\ c1 = TransferStep(c0, b, crcOk) /\ Transferred(c0, c1)
           /\ IF Listening(c0) THEN Commanded(c1, c2) ELSE c2 = c1
           /\ ~Listening(c0) => c1.phase = "none"
           /\ Nearly(c2) /\ Positioned(c2) /\ Talking(c2)
           /\ ran.end \in BOOLEAN
           /\ ran.end => c2.phase = "none" /\ c2.ena /\ c2.state \notin StartUp
           /\ sd' = StateStep(c2, ran, b, timely)
<1> DEFINE l  == (sd.left - e) % ClockMod
           c0 == [sd EXCEPT !.data = "stuff", !.left = l]
           c1 == TransferStep(c0, b, crcOk)
           c2 == IF Listening(c0) THEN CommandStep(c1, b, crcOk) ELSE c1
           ran == Ran(c0)
<1>1. sd \in Card /\ Agrees(sd) /\ Positioned(sd) /\ Talking(sd)
  BY DEF IInv, Settled
<1>2. l \in Nat /\ l < ClockMod /\ "stuff" \in Out
  <2>1. sd.left - e \in Int /\ ClockMod \in Nat \ {0}
    BY <1>1, Types, SdCardAssumption DEF SdCardAssumption
  <2> QED BY <2>1, ModRange DEF Out
<1>3. sd' = StateStep(c2, ran, b, timely)
  BY DEF Send, Sent
<1> HIDE DEF l
<1>4. c0 \in Card
  BY <1>1, <1>2, Fields
<1>5. /\ SameCommand(sd, c0) /\ c0.pstat = sd.pstat /\ c0.ppos = sd.ppos
      /\ c0.left = l /\ c0.paddr = sd.paddr
  BY <1>1 DEF Card, SameCommand
<1> HIDE DEF c0
<1>6. Agrees(c0) /\ Positioned(c0) /\ Talking(c0)
  BY <1>1, <1>2, <1>5 DEF SameCommand, Agrees, Positioned, Talking
<1>7. Transferred(c0, c1)
  BY <1>4, <1>6, TransferInv
<1> HIDE DEF c1
<1>8. Talking(c1)
  BY <1>6, <1>7 DEF Transferred, SameCommand, Talking
<1>9. IF Listening(c0) THEN Commanded(c1, c2) ELSE c2 = c1
  BY <1>7, <1>8, CommandInv DEF Transferred
<1> HIDE DEF c2
<1>10. c2 \in Card /\ Nearly(c2) /\ Positioned(c2)
  BY <1>7, <1>9 DEF Transferred, Commanded, SameTransfer, Nearly, Positioned
<1>11. ~Listening(c0) => c1.phase = "none"
  BY <1>6, <1>7 DEF Listening, Talking, Transferred, SameCommand
<1>12. Talking(c2)
  <2>1. CASE ~Listening(c0)
    BY <1>8, <1>9, <2>1
  <2>2. CASE Listening(c0)
    <3>1. c1.ena /\ c1.pstat \notin WriteStat /\ c1.state \notin StartUp
      BY <1>7, <2>2 DEF Listening, Transferred, SameCommand
    <3>2. Commanded(c1, c2)
      BY <1>9, <2>2
    <3>3. c1.evcnt \in Nat /\ c2.evcnt \in Nat
      BY <1>7, <1>10, Types DEF Transferred
    <3>4. /\ c2.phase = "recv" => c2.evcnt <= ArgLen
          /\ c2.phase = "resp" => c2.evcnt <= CmdWait
      BY <3>2, <3>3, Lengths DEF Commanded, PhaseStep
    <3>5. c2.phase = "extra" /\ c2.crarg = OcrReady => c2.state = "AVAIL"
      BY <1>8, <3>2 DEF Commanded, PhaseStep, SameTransfer, Talking
    <3> QED
      BY <3>1, <3>2, <3>4, <3>5 DEF Commanded, PhaseStep, SameTransfer, Talking
  <2> QED BY <2>1, <2>2
<1>13. /\ ran.end \in BOOLEAN
       /\ ran.end => c2.phase = "none" /\ c2.ena /\ c2.state \notin StartUp
  <2>1. ran.end <=> Listening(c0) /\ Answers(c0)
    BY DEF Ran
  <2>2. ASSUME Listening(c0), Answers(c0)
        PROVE  c2.phase = "none" /\ c2.ena /\ c2.state \notin StartUp
    BY <1>7, <1>9, <2>2
    DEF Listening, Answers, Transferred, SameCommand, Commanded, PhaseStep, SameTransfer
  <2>3. ran.end \in BOOLEAN
    BY <1>4, Types DEF Ran, Listening, Answers
  <2> QED BY <2>1, <2>2, <2>3
<1>14. Aged(sd, e, c0)
  BY <1>5 DEF Aged, l
<1>15. c1 = TransferStep(c0, b, crcOk)
  BY DEF c1
<1> HIDE DEF ran
<1> QED
  BY <1>3, <1>4, <1>7, <1>9, <1>10, <1>11, <1>12, <1>13, <1>14, <1>15 DEF Transferred

\* and a byte keep the invariant.
LEMMA SendInv ==
  ASSUME IInv, NEW b \in Byte, NEW e \in Gap, NEW crcOk \in BOOLEAN,
         NEW timely \in BOOLEAN, Send(b, e, crcOk, timely)
  PROVE  IInv'
<1>1. PICK c0 \in Card, c1 \in Card, c2 \in Card : \E ran :
        /\ Aged(sd, e, c0) /\ Transferred(c0, c1)
        /\ IF Listening(c0) THEN Commanded(c1, c2) ELSE c2 = c1
        /\ ~Listening(c0) => c1.phase = "none"
        /\ Nearly(c2) /\ Positioned(c2) /\ Talking(c2)
        /\ ran.end \in BOOLEAN
        /\ ran.end => c2.phase = "none" /\ c2.ena /\ c2.state \notin StartUp
        /\ sd' = StateStep(c2, ran, b, timely)
  BY SendParts
<1>2. Stated(c2, sd')
  <2>1. PICK ran :
          /\ ran.end \in BOOLEAN
          /\ ran.end => c2.phase = "none" /\ c2.ena /\ c2.state \notin StartUp
          /\ sd' = StateStep(c2, ran, b, timely)
    BY <1>1
  <2> QED BY <1>1, <2>1, StateInv
<1>3. Settled(sd')
  BY <1>2 DEF Stated
<1>4. since \in Nat /\ since <= MaxSince /\ MaxSince = ArgLen + CmdWait + 2
       /\ age \in Nat /\ age <= ClockMod /\ e \in Nat
  BY Lengths, SdCardAssumption DEF IInv, MaxSince, SdCardAssumption
<1>5. since' \in 0 .. MaxSince /\ age' \in 0 .. ClockMod
  BY <1>4, Lengths DEF Send, Least
<1>6. FrameContiguous'
  <2>1. /\ sd.evcnt \in Nat /\ sd'.evcnt \in Nat /\ c2.evcnt \in Nat
        /\ c1.phase = sd.phase /\ c1.evcnt = sd.evcnt
    BY <1>1, <1>3, Types DEF IInv, Settled, Aged, Transferred, SameCommand
  <2>2. /\ sd'.phase \in {"recv", "resp"} => c2.phase = sd'.phase /\ c2.evcnt = sd'.evcnt
        /\ c2.phase # "none" => PhaseStep(c1, c2)
    BY <1>1, <1>2 DEF Stated, Commanded
  <2>3. since' = IF sd'.phase = "recv" /\ sd'.evcnt = 0 THEN 0
                 ELSE IF since + 1 < MaxSince THEN since + 1 ELSE MaxSince
    BY DEF Send, Least
  <2>4. /\ sd.phase = "recv" => since = sd.evcnt /\ since <= ArgLen
        /\ sd.phase = "resp" => since = ArgLen + 1 + sd.evcnt
    BY DEF IInv, FrameContiguous
  <2>5. ASSUME sd'.phase = "recv" PROVE since' = sd'.evcnt /\ since' <= ArgLen
    BY <1>4, <2>1, <2>2, <2>3, <2>4, <2>5, Lengths DEF PhaseStep
  <2>6. ASSUME sd'.phase = "resp" PROVE since' = ArgLen + 1 + sd'.evcnt
    BY <1>4, <2>1, <2>2, <2>3, <2>4, <2>6, Lengths DEF PhaseStep
  <2> QED BY <2>5, <2>6 DEF FrameContiguous
<1> QED BY <1>3, <1>5, <1>6 DEF IInv

\* Every step does.
LEMMA StepInv == IInv /\ [Next]_vars => IInv'
<1> SUFFICES ASSUME IInv, [Next]_vars PROVE IInv'
  OBVIOUS
<1>1. CASE \E b \in Byte, e \in Gap, crcOk, timely \in BOOLEAN :
             Send(b, e, crcOk, timely)
  BY <1>1, SendInv
<1>2. CASE CsSet
  BY <1>2, CsSetInv
<1>3. CASE Reset
  BY <1>3, ResetInv
<1>4. CASE UNCHANGED vars
  BY <1>4 DEF vars, IInv, FrameContiguous
<1> QED BY <1>1, <1>2, <1>3, <1>4 DEF Next
-----------------------------------------------------------------------------
\* The strengthening of the safety properties of SdCard holds after any sequence
\* of bytes, selections and resets (IInv).
THEOREM Invariance == Spec => []IInv
BY InitInv, StepInv, PTL DEF Spec

\* Every field of the card keeps its type and its bounds (TypeOK).
THEOREM TypeCorrect == Spec => []TypeOK
<1>1. IInv => TypeOK
  BY DEF IInv, Settled, Positioned, Talking, TypeOK, MaxPos
<1> QED BY <1>1, Invariance, PTL

\* The card state machine and the transfer machine of cu_spisd_send never
\* disagree on whether a block is under way (TransferAgrees).
THEOREM TransfersAgree == Spec => []TransferAgrees
<1>1. IInv => TransferAgrees
  BY DEF IInv, Settled, Agrees, TransferAgrees
<1> QED BY <1>1, Invariance, PTL

\* The media is never accessed outside the sector of the transfer (InSector).
THEOREM AccessInSector == Spec => []InSector
<1>1. IInv => InSector
  BY DEF IInv, Settled, Positioned, InSector
<1> QED BY <1>1, Invariance, PTL

\* A command frame is made of consecutive bytes (FrameContiguous).
THEOREM FramesContiguous == Spec => []FrameContiguous
<1>1. IInv => FrameContiguous
  BY DEF IInv
<1> QED BY <1>1, Invariance, PTL

\* A card reporting a finished power up is available (OcrTruthful).
THEOREM OcrIsTruthful == Spec => []OcrTruthful
<1>1. IInv => OcrTruthful
  BY DEF IInv, Settled, Talking, OcrTruthful
<1> QED BY <1>1, Invariance, PTL
-----------------------------------------------------------------------------
(***************************************************************************)
(* What the three machines do to the fields that the deadline and the      *)
(* block device depend on: the state, the transfer with its position, the  *)
(* sector, and the time left.                                              *)
(***************************************************************************)
ByteMoved(c, s, d) ==
  /\ d.pstat = IF c.ppos + 1 = BlockLen THEN s ELSE c.pstat
  /\ d.ppos = IF c.ppos + 1 = BlockLen THEN 0 ELSE c.ppos + 1

TransferMoves(c, d) ==
  /\ d.paddr = c.paddr
  /\ d.left = IF c.pstat # "WBUSY" /\ d.pstat = "WBUSY"
              THEN WriteTime % ClockMod ELSE c.left
  /\ c.pstat = "RPREP" => d.pstat = "RPREP" \/ (d.pstat = "RDATA" /\ d.ppos = 0)
  /\ c.pstat = "RDATA" => ByteMoved(c, "RCRC", d)
  /\ c.pstat = "RCRC" => d.pstat \in {"RCRC", "IDLE"}
  /\ c.pstat = "W24PREP" => d.pstat = "W24PREP" \/ (d.pstat = "W24DATA" /\ d.ppos = 0)
  /\ c.pstat = "W24DATA" => ByteMoved(c, "W24CRC", d)
  /\ c.pstat = "W24CRC" => d.pstat \in {"W24CRC", "WBUSY"}
  /\ c.pstat = "W25PREP" =>
       d.pstat \in {"W25PREP", "WBUSY"} \/ (d.pstat = "W25DATA" /\ d.ppos = 0)
  /\ c.pstat = "W25DATA" => ByteMoved(c, "W25CRC", d)
  /\ c.pstat = "W25CRC" => d.pstat \in {"W25CRC", "W25PREP"}
  /\ c.pstat = "WBUSY" => d.pstat = "WBUSY" \/ (d.pstat = "IDLE" /\ Past(c))
  /\ c.pstat = "IDLE" => d.pstat = "IDLE"

\* The transfer machine goes through a block in its order.
LEMMA TransferFields ==
  ASSUME NEW c \in Card, NEW b, NEW crcOk \in BOOLEAN
  PROVE  TransferMoves(c, TransferStep(c, b, crcOk))
<1> DEFINE d == TransferStep(c, b, crcOk)
<1> SUFFICES TransferMoves(c, d)
  OBVIOUS
<1> USE DEF ReadStat, W24Stat, W25Stat
<1>1. CASE c.pstat = "RPREP"
  <2>1. d = IF c.ppos >= ReadPrep
            THEN [c EXCEPT !.pstat = "RDATA", !.ppos = 0, !.data = "token"]
            ELSE [c EXCEPT !.ppos = @ + 1]
    BY <1>1 DEF TransferStep, ReadStep, Move
  <2> HIDE DEF d
  <2>2. /\ d.paddr = c.paddr /\ d.left = c.left
        /\ d.pstat = "RPREP" \/ (d.pstat = "RDATA" /\ d.ppos = 0)
    <3>1. CASE c.ppos >= ReadPrep
      BY <1>1, <2>1, <3>1 DEF Card
    <3>2. CASE ~(c.ppos >= ReadPrep)
      BY <1>1, <2>1, <3>2 DEF Card
    <3> QED BY <3>1, <3>2
  <2> QED BY <1>1, <2>2 DEF TransferMoves
<1>2. CASE c.pstat = "RDATA"
  <2>1. d = IF c.ppos + 1 = BlockLen
            THEN [c EXCEPT !.pstat = "RCRC", !.ppos = 0, !.data = "block"]
            ELSE [c EXCEPT !.ppos = @ + 1, !.data = "block"]
    BY <1>2 DEF TransferStep, ReadStep, BlockByte, Move
  <2> HIDE DEF d
  <2> QED BY <1>2, <2>1 DEF TransferMoves, ByteMoved, Card
<1>3. CASE c.pstat = "RCRC"
  <2>1. d = [c EXCEPT !.data = "crc",
                      !.pstat = IF c.ppos = 0 THEN "RCRC" ELSE "IDLE",
                      !.ppos = @ + 1]
    BY <1>3 DEF TransferStep, ReadStep
  <2> HIDE DEF d
  <2> QED BY <1>3, <2>1 DEF TransferMoves, Card
<1>4. CASE c.pstat = "W24PREP"
  <2>1. d = IF c.ppos = 0 THEN [c EXCEPT !.ppos = 1]
            ELSE IF b = ReadToken THEN [c EXCEPT !.pstat = "W24DATA", !.ppos = 0]
            ELSE c
    BY <1>4 DEF TransferStep, Write24Step, Move
  <2> HIDE DEF d
  <2>2. /\ d.paddr = c.paddr /\ d.left = c.left
        /\ d.pstat = "W24PREP" \/ (d.pstat = "W24DATA" /\ d.ppos = 0)
    <3>1. CASE c.ppos = 0
      BY <1>4, <2>1, <3>1 DEF Card
    <3>2. CASE c.ppos # 0 /\ b = ReadToken
      BY <1>4, <2>1, <3>2 DEF Card
    <3>3. CASE c.ppos # 0 /\ b # ReadToken
      BY <1>4, <2>1, <3>3 DEF Card
    <3> QED BY <3>1, <3>2, <3>3
  <2> QED BY <1>4, <2>2 DEF TransferMoves
<1>5. CASE c.pstat = "W24DATA"
  <2>1. d = IF c.ppos + 1 = BlockLen
            THEN [c EXCEPT !.pstat = "W24CRC", !.ppos = 0] ELSE [c EXCEPT !.ppos = @ + 1]
    BY <1>5 DEF TransferStep, Write24Step, BlockByte, Move
  <2> HIDE DEF d
  <2> QED BY <1>5, <2>1 DEF TransferMoves, ByteMoved, Card
<1>6. CASE c.pstat = "W24CRC"
  <2>1. d = IF c.ppos = 0 THEN [c EXCEPT !.ppos = 1]
            ELSE [c EXCEPT !.pstat = "WBUSY", !.ppos = @ + 1,
                           !.left = WriteTime % ClockMod,
                           !.data = Verdict(c, crcOk)]
    BY <1>6 DEF TransferStep, Write24Step
  <2> HIDE DEF d
  <2> QED BY <1>6, <2>1 DEF TransferMoves, Card
<1>7. CASE c.pstat = "W25PREP"
  <2>1. d = IF c.ppos = 0 THEN [c EXCEPT !.ppos = 1]
            ELSE IF b = MultiToken THEN [c EXCEPT !.pstat = "W25DATA", !.ppos = 0]
            ELSE IF b = StopToken
                 THEN [c EXCEPT !.pstat = "WBUSY", !.left = WriteTime % ClockMod]
            ELSE c
    BY <1>7 DEF TransferStep, Write25Step, Move
  <2> HIDE DEF d
  <2>2. /\ d.paddr = c.paddr
        /\ \/ d.left = c.left /\ d.pstat = "W25PREP"
           \/ d.left = c.left /\ d.pstat = "W25DATA" /\ d.ppos = 0
           \/ d.left = WriteTime % ClockMod /\ d.pstat = "WBUSY"
    BY <1>7, <2>1 DEF Card
  <2>3. d.left = IF c.pstat # "WBUSY" /\ d.pstat = "WBUSY"
                 THEN WriteTime % ClockMod ELSE c.left
    BY <1>7, <2>2
  <2>4. d.pstat \in {"W25PREP", "WBUSY"} \/ (d.pstat = "W25DATA" /\ d.ppos = 0)
    BY <2>2
  <2> QED BY <1>7, <2>2, <2>3, <2>4 DEF TransferMoves
<1>8. CASE c.pstat = "W25DATA"
  <2>1. d = IF c.ppos + 1 = BlockLen
            THEN [c EXCEPT !.pstat = "W25CRC", !.ppos = 0] ELSE [c EXCEPT !.ppos = @ + 1]
    BY <1>8 DEF TransferStep, Write25Step, BlockByte, Move
  <2> HIDE DEF d
  <2> QED BY <1>8, <2>1 DEF TransferMoves, ByteMoved, Card
<1>9. CASE c.pstat = "W25CRC"
  <2>1. d = IF c.ppos = 0 THEN [c EXCEPT !.ppos = 1]
            ELSE [c EXCEPT !.pstat = "W25PREP", !.ppos = 0,
                           !.data = Verdict(c, crcOk)]
    BY <1>9 DEF TransferStep, Write25Step, Move
  <2> HIDE DEF d
  <2> QED BY <1>9, <2>1 DEF TransferMoves, Card
<1>10. CASE c.pstat = "WBUSY"
  <2>1. d = IF Past(c) THEN [c EXCEPT !.pstat = "IDLE"]
            ELSE [c EXCEPT !.data = IF c.ena THEN "busy" ELSE @]
    BY <1>10 DEF TransferStep, BusyStep
  <2> HIDE DEF d
  <2>2. /\ d.paddr = c.paddr /\ d.left = c.left
        /\ d.pstat = "WBUSY" \/ (d.pstat = "IDLE" /\ Past(c))
    <3>1. CASE Past(c)
      BY <1>10, <2>1, <3>1 DEF Card
    <3>2. CASE ~Past(c)
      BY <1>10, <2>1, <3>2 DEF Card
    <3> QED BY <3>1, <3>2
  <2> QED BY <1>10, <2>2 DEF TransferMoves
<1>11. CASE c.pstat = "IDLE"
  <2>1. d = c
    BY <1>11 DEF TransferStep
  <2> HIDE DEF d
  <2> QED BY <1>11, <2>1 DEF TransferMoves
<1> QED
  BY <1>1, <1>2, <1>3, <1>4, <1>5, <1>6, <1>7, <1>8, <1>9, <1>10, <1>11, Types
  DEF PStat, WriteStat

\* The fields of a card that place it.
SamePlace(c, d) ==
  /\ d.state = c.state /\ d.left = c.left
  /\ d.pstat = c.pstat /\ d.ppos = c.ppos /\ d.paddr = c.paddr

\* Responses do not move the card.
LEMMA ReportsStay ==
  ASSUME NEW c \in Card
  PROVE  /\ SamePlace(c, Illegal(c)) /\ SamePlace(c, Idles(c)) /\ SamePlace(c, R1(c))
         /\ SamePlace(c, [c EXCEPT !.r1 = R1Flag])
         /\ \A x \in BOOLEAN : SamePlace(c, [c EXCEPT !.crc = x])
         /\ \A arg \in Nat, from \in Nat : SamePlace(c, Extra(c, arg, from))
<1>1. /\ SamePlace(c, Illegal(c)) /\ SamePlace(c, Idles(c)) /\ SamePlace(c, R1(c))
      /\ SamePlace(c, [c EXCEPT !.r1 = R1Flag])
      /\ \A x \in BOOLEAN : SamePlace(c, [c EXCEPT !.crc = x])
  BY DEF SamePlace, Illegal, Idles, R1, Card
<1>2. \A arg \in Nat, from \in Nat : SamePlace(c, Extra(c, arg, from))
  BY ExtraFields DEF SameTransfer, SamePlace
<1> QED BY <1>1, <1>2

\* The deadline is set when the initialisation starts, and only then, and the
\* initialisation ends when it is past.
StateTimes(c, d) ==
  /\ d.state = "IINIT" =>
       d.left = IF c.state = "IINIT" THEN c.left ELSE InitTime % ClockMod
  /\ c.state = "IINIT" /\ d.state = "AVAIL" => Past(c)
  /\ d.pstat = "WBUSY" => c.pstat = "WBUSY" /\ d.left = c.left

Resting(c) == c.pstat = "IDLE" /\ c.state \in StartUp \union Idling \union {"AVAIL"}

Starting(c) ==
  \/ c.state \in Reading /\ c.pstat = "RPREP"
  \/ c.state = "CMD24" /\ c.pstat = "W24PREP"
  \/ c.state = "CMD25" /\ c.pstat = "W25PREP"

\* What the card state machine does to a transfer.
StateMoves(c, d) ==
  /\ c.state \in StartUp \union Idling => Resting(d)
  /\ c.state = "AVAIL" => Resting(d) \/ Starting(d)
  /\ c.state \in Reading =>
       \/ d.state = "AVAIL" /\ d.pstat = "IDLE"
       \/ c.pstat # "IDLE" /\ SamePlace(c, d)
       \/ /\ c.pstat = "IDLE" /\ c.state = "CMD18"
          /\ d.state = "CMD18" /\ d.pstat = "RPREP"
          /\ d.paddr = (c.paddr + 1) % SectorMod
  /\ c.state \in Writing =>
       /\ d.state = IF c.pstat = "IDLE" THEN "AVAIL" ELSE c.state
       /\ d.pstat = c.pstat /\ d.ppos = c.ppos /\ d.paddr = c.paddr

Moves(c, d) == StateTimes(c, d) /\ StateMoves(c, d)

\* Being placed the same, a card moves the same.
LEMMA MovesSame ==
  ASSUME NEW c, NEW d, NEW e, Moves(c, d), SamePlace(d, e)
  PROVE  Moves(c, e)
BY DEF Moves, StateTimes, StateMoves, SamePlace, Resting, Starting

\* A card at rest that stays where it is.
LEMMA MovesNot ==
  ASSUME NEW c, Resting(c)
  PROVE  Moves(c, c)
BY DEF Moves, StateTimes, StateMoves, SamePlace, Resting, Starting, StartUp, Idling,
       Reading, Writing

\* A card at rest that changes its state, but not to initialising nor to being
\* available,
LEMMA MovesState ==
  ASSUME NEW c \in Card, Resting(c), NEW s \in StartUp \union Idling, s # "IINIT"
  PROVE  Moves(c, [c EXCEPT !.state = s])
<1> DEFINE d == [c EXCEPT !.state = s]
<1>1. d.state = s /\ d.left = c.left /\ d.pstat = "IDLE"
  BY DEF Card, Resting
<1> HIDE DEF d
<1>2. Moves(c, d)
  BY <1>1 DEF Moves, StateTimes, StateMoves, Resting, StartUp, Idling, Reading, Writing
<1> QED BY <1>2 DEF d

\* or that starts initialising.
LEMMA MovesInit ==
  ASSUME NEW c \in Card, Resting(c), c.state # "IINIT"
  PROVE  Moves(c, StartInit(c))
<1> DEFINE d == StartInit(c)
<1>1. d.state = "IINIT" /\ d.left = InitTime % ClockMod /\ d.pstat = "IDLE"
  BY DEF Card, Resting, StartInit
<1> HIDE DEF d
<1>2. Moves(c, d)
  BY <1>1 DEF Moves, StateTimes, StateMoves, Resting, StartUp, Idling, Reading, Writing
<1> QED BY <1>2 DEF d

\* Placed the same as well when it reports something on top.
LEMMA MovesReport ==
  ASSUME NEW c, NEW d \in Card, Moves(c, d)
  PROVE  /\ Moves(c, Illegal(d)) /\ Moves(c, Idles(d)) /\ Moves(c, R1(d))
         /\ Moves(c, [d EXCEPT !.r1 = R1Flag])
         /\ \A x \in BOOLEAN : Moves(c, [d EXCEPT !.crc = x])
         /\ \A arg \in Nat, from \in Nat : Moves(c, Extra(d, arg, from))
<1>1. Moves(c, Illegal(d)) /\ Moves(c, Idles(d)) /\ Moves(c, R1(d))
  BY ReportsStay, MovesSame
<1>2. Moves(c, [d EXCEPT !.r1 = R1Flag])
  BY ReportsStay, MovesSame
<1>3. \A x \in BOOLEAN : Moves(c, [d EXCEPT !.crc = x])
  BY ReportsStay, MovesSame
<1>4. \A arg \in Nat, from \in Nat : Moves(c, Extra(d, arg, from))
  BY ReportsStay, MovesSame
<1> QED BY <1>1, <1>2, <1>3, <1>4

\* A command before the card is idle moves it to idle or nowhere.
LEMMA NativeMoves ==
  ASSUME NEW c \in Card, Resting(c), NEW ran
  PROVE  Moves(c, NativeCommand(c, ran))
<1>1. CASE Is(ran, 0)
  <2> DEFINE d == [c EXCEPT !.state = "IDLE"]
             e == [d EXCEPT !.crc = FALSE]
  <2>1. d \in Card /\ e \in Card /\ Moves(c, d)
    <3>1. "IDLE" \in State /\ "IDLE" \in Idling
      BY DEF State, Idling
    <3>2. d \in Card
      BY <3>1, Fields
    <3>3. e \in Card
      BY <3>2, Fields
    <3> QED BY <3>1, <3>2, <3>3, MovesState
  <2> HIDE DEF d
  <2>2. Moves(c, e)
    BY <2>1, MovesReport
  <2> HIDE DEF e
  <2>3. Moves(c, Idles(e))
    BY <2>1, <2>2, MovesReport
  <2> QED BY <1>1, <2>3 DEF NativeCommand, d, e
<1>2. CASE ~Is(ran, 0)
  BY <1>2, MovesNot, MovesReport DEF NativeCommand
<1> QED BY <1>1, <1>2

\* An idle card is verified, or starts initialising,
LEMMA IdleMoves ==
  ASSUME NEW c \in Card, Resting(c), c.state \in {"IDLE", "VERIFIED"}, NEW ran
  PROVE  Moves(c, IdleCommand(c, ran))
<1> DEFINE v == [c EXCEPT !.state = "VERIFIED"]
           i == StartInit(c)
<1>1. Moves(c, [c EXCEPT !.state = "IDLE"])
  BY MovesState DEF Idling
<1>2. Moves(c, Extra(v, CheckArg, 0))
  <2>1. "VERIFIED" \in State /\ "VERIFIED" \in Idling
    BY DEF State, Idling
  <2>2. v \in Card /\ Moves(c, v)
    BY <2>1, Fields, MovesState
  <2> HIDE DEF v
  <2> QED BY <2>2, MovesReport, ExtraArgs
<1>3. Moves(c, i) /\ Moves(c, Extra(i, OcrBusy, 0))
  <2>1. InitTime % ClockMod \in Nat /\ "IINIT" \in State
    BY ModRange, Lengths DEF State, Idling
  <2>2. i \in Card
    BY <2>1, Fields DEF StartInit
  <2>3. Moves(c, i)
    BY MovesInit
  <2> HIDE DEF i
  <2> QED BY <2>2, <2>3, MovesReport, ExtraArgs
<1>4. Moves(c, Extra(c, OcrBusy, 0))
  BY MovesNot, MovesReport, ExtraArgs
<1>5. Moves(c, [c EXCEPT !.r1 = R1Flag]) /\ Moves(c, Illegal(c))
  BY MovesNot, MovesReport
<1>6. Moves(c, [c EXCEPT !.crc = (c.crarg % 2 # 0)])
  BY MovesNot, MovesReport
<1> QED BY <1>1, <1>2, <1>3, <1>4, <1>5, <1>6 DEF IdleCommand

\* and an initialising card becomes available when its time has passed.
LEMMA InitMoves ==
  ASSUME NEW c \in Card, Resting(c), c.state = "IINIT", NEW ran
  PROVE  Moves(c, InitCommand(c, ran))
<1> DEFINE a == [c EXCEPT !.state = "AVAIL"]
           s == [c EXCEPT !.state = "IDLE"]
           x == Extra(c, OcrBusy, 0)
<1>1. Moves(c, Idles(s))
  <2>1. "IDLE" \in State /\ "IDLE" \in Idling
    BY DEF State, Idling
  <2>2. s \in Card /\ Moves(c, s)
    BY <2>1, Fields, MovesState
  <2> HIDE DEF s
  <2> QED BY <2>2, MovesReport
<1>2. ASSUME Past(c) PROVE Moves(c, Extra(a, OcrReady, 0))
  <2>1. "AVAIL" \in State
    BY DEF State
  <2>2. a \in Card
    BY <2>1, Fields
  <2>3. a.state = "AVAIL" /\ a.pstat = "IDLE"
    BY DEF Card, Resting
  <2> HIDE DEF a
  <2>4. Moves(c, a)
    BY <1>2, <2>3
    DEF Moves, StateTimes, StateMoves, Resting, StartUp, Idling, Reading, Writing
  <2> QED BY <2>2, <2>4, MovesReport, ExtraArgs
<1>3. Moves(c, Idles(x))
  <2>1. x \in Card /\ Moves(c, x)
    BY MovesNot, MovesReport, ExtraFields, ExtraArgs
  <2> HIDE DEF x
  <2> QED BY <2>1, MovesReport
<1>4. Moves(c, Idles(Illegal(c)))
  <2>1. Illegal(c) \in Card /\ Moves(c, Illegal(c))
    BY MovesNot, MovesReport, ReportFields
  <2> QED BY <2>1, MovesReport
<1> QED BY <1>1, <1>2, <1>3, <1>4 DEF InitCommand

\* Only the available card starts a transfer.
LEMMA AvailMoves ==
  ASSUME NEW c \in Card, Resting(c), c.state = "AVAIL", NEW ran
  PROVE  Moves(c, AvailCommand(c, ran))
<1> DEFINE s == [c EXCEPT !.state = "IDLE"]
<1>1. Moves(c, Idles(s))
  <2>1. "IDLE" \in State /\ "IDLE" \in Idling
    BY DEF State, Idling
  <2>2. s \in Card /\ Moves(c, s)
    BY <2>1, Fields, MovesState
  <2> HIDE DEF s
  <2> QED BY <2>2, MovesReport
<1>2. Moves(c, c) /\ Moves(c, Illegal(c))
  BY MovesNot, MovesReport
<1>3. Moves(c, Extra(c, 0, ArgLen - 1)) /\ Moves(c, Extra(c, OcrReady, 0))
  BY MovesNot, MovesReport, ExtraArgs
<1>4. Moves(c, [c EXCEPT !.crc = (c.crarg % 2 # 0)])
  BY MovesNot, MovesReport
<1>5. ASSUME NEW st, NEW p,
             <<st, p>> \in {<<"CMD17", "RPREP">>, <<"CMD18", "RPREP">>,
                            <<"CMD24", "W24PREP">>, <<"CMD25", "W25PREP">>}
      PROVE  Moves(c, Begin(c, st, p))
  <2> DEFINE d == Begin(c, st, p)
  <2>1. d.state = st /\ d.pstat = p
    BY DEF Begin, Card
  <2> HIDE DEF d
  <2>2. Starting(d) /\ d.state # "IINIT" /\ d.pstat # "WBUSY"
    BY <1>5, <2>1 DEF Starting, Reading
  <2>3. Moves(c, d)
    BY <2>2 DEF Moves, StateTimes, StateMoves, StartUp, Idling, Reading, Writing
  <2> QED BY <2>3 DEF d
<1>6. /\ Moves(c, Begin(c, "CMD17", "RPREP")) /\ Moves(c, Begin(c, "CMD18", "RPREP"))
      /\ Moves(c, Begin(c, "CMD24", "W24PREP")) /\ Moves(c, Begin(c, "CMD25", "W25PREP"))
  BY <1>5
<1> QED BY <1>1, <1>2, <1>3, <1>4, <1>6 DEF AvailCommand

\* A read goes on, with the next sector after a block, or ends.
LEMMA ReadingMoves ==
  ASSUME NEW c \in Card, c.state \in Reading, NEW ran
  PROVE  Moves(c, ReadingStep(c, ran))
<1> DEFINE e == NextRead(c)
           a == (c.paddr + 1) % SectorMod
<1>1. /\ a \in Nat
      /\ "AVAIL" \in State /\ "RPREP" \in PStat /\ "IDLE" \in PStat /\ 0 \in Nat
  <2>1. c.paddr + 1 \in Int /\ SectorMod \in Nat \ {0}
    BY Types, Lengths
  <2>2. a \in Nat
    BY <2>1, ModRange
  <2> QED BY <2>2 DEF State, PStat, ReadStat
<1>2. e = IF c.pstat # "IDLE" THEN c
          ELSE IF c.state = "CMD17" THEN [c EXCEPT !.state = "AVAIL"]
          ELSE [c EXCEPT !.pstat = "RPREP", !.ppos = 0, !.paddr = a]
  BY DEF NextRead, Move
<1> HIDE DEF e
<1>3. e \in Card
  BY <1>1, <1>2, Fields
<1>4. \/ c.pstat # "IDLE" /\ e = c
      \/ e.state = "AVAIL" /\ e.pstat = "IDLE"
      \/ /\ c.pstat = "IDLE" /\ c.state = "CMD18"
         /\ e.state = "CMD18" /\ e.pstat = "RPREP" /\ e.paddr = a
  BY <1>2 DEF Card, Reading
<1>5. CASE Is(ran, 12)
  <2> DEFINE x == [e EXCEPT !.state = "AVAIL", !.pstat = "IDLE"]
  <2>1. x \in Card /\ x.state = "AVAIL" /\ x.pstat = "IDLE"
    BY <1>1, <1>3, Fields DEF Card
  <2>2. ReadingStep(c, ran) = Extra(R1(x), 0, 0)
    BY <1>5 DEF ReadingStep, StopRead, e, x
  <2> HIDE DEF x
  <2>3. Moves(c, x)
    BY <2>1 DEF Moves, StateTimes, StateMoves, StartUp, Idling, Reading, Writing
  <2>4. R1(x) \in Card /\ Moves(c, R1(x))
    BY <2>1, <2>3, ReportFields, MovesReport
  <2>5. 0 \in Nat
    OBVIOUS
  <2> DEFINE y == R1(x)
  <2>6. \A arg \in Nat, from \in Nat : Moves(c, Extra(y, arg, from))
    BY <2>4, MovesReport
  <2> QED BY <2>2, <2>5, <2>6
<1>6. CASE ~Is(ran, 12)
  <2>1. ReadingStep(c, ran) = e
    BY <1>6 DEF ReadingStep, e
  <2>2. e.state # "IINIT"
    BY <1>4 DEF Reading
  <2>3. StateTimes(c, e)
    BY <1>4, <2>2 DEF StateTimes, Reading
  <2>4. StateMoves(c, e)
    BY <1>4 DEF StateMoves, SamePlace, StartUp, Idling, Reading, Writing
  <2> QED BY <2>1, <2>3, <2>4 DEF Moves
<1> QED BY <1>5, <1>6

\* A write ends when the card is no longer busy.
LEMMA WritingMoves ==
  ASSUME NEW c \in Card, c.state \in Writing
  PROVE  Moves(c, WritingStep(c))
<1> DEFINE d == WritingStep(c)
<1>1. /\ d.state = IF c.pstat = "IDLE" THEN "AVAIL" ELSE c.state
      /\ d.pstat = c.pstat /\ d.ppos = c.ppos /\ d.paddr = c.paddr /\ d.left = c.left
  BY DEF Card, WritingStep
<1> HIDE DEF d
<1>2. Moves(c, d)
  BY <1>1 DEF Moves, StateTimes, StateMoves, StartUp, Idling, Reading, Writing
<1> QED BY <1>2 DEF d

\* The initial clocks keep the card at rest.
LEMMA StartMoves ==
  ASSUME NEW c \in Card, Resting(c), NEW b, NEW timely \in BOOLEAN
  PROVE  /\ c.state = "UNINIT" => Moves(c, UninitStep(c, b, timely))
         /\ c.state = "NINIT" => Moves(c, NinitStep(c, b, timely))
<1>1. ASSUME NEW d, d.pstat = "IDLE", d.state \in {"UNINIT", "NINIT", "NATIVE"}
      PROVE  Resting(c) => Moves(c, d)
  BY <1>1 DEF Moves, StateTimes, StateMoves, Resting, StartUp, Idling, Reading, Writing
<1>2. ASSUME c.state = "UNINIT" PROVE Moves(c, UninitStep(c, b, timely))
  <2> DEFINE d == UninitStep(c, b, timely)
  <2>1. d.pstat = "IDLE" /\ d.state \in {"UNINIT", "NINIT"}
    BY <1>2 DEF UninitStep, Resting, Card
  <2> HIDE DEF d
  <2>2. Moves(c, d)
    BY <1>1, <2>1
  <2> QED BY <2>2 DEF d
<1>3. ASSUME c.state = "NINIT" PROVE Moves(c, NinitStep(c, b, timely))
  <2> DEFINE d == NinitStep(c, b, timely)
             n == NoCommand(c)
  <2>1. n \in Card /\ n.pstat = "IDLE"
    BY NoCommandFields DEF SameTransfer, Resting
  <2>2. d.pstat = "IDLE" /\ d.state \in {"UNINIT", "NINIT", "NATIVE"}
    <3>1. \/ d = [c EXCEPT !.state = "UNINIT"]
          \/ d = [c EXCEPT !.evcnt = @ + 1]
          \/ d = [n EXCEPT !.evcnt = @ + 1, !.state = "NATIVE", !.crc = TRUE]
      BY DEF NinitStep
    <3> HIDE DEF d, n
    <3> QED BY <1>3, <2>1, <3>1 DEF Resting, Card
  <2> HIDE DEF d
  <2>3. Moves(c, d)
    BY <1>1, <2>2
  <2> QED BY <2>3 DEF d
<1> QED BY <1>2, <1>3

\* The card state machine as a whole.
LEMMA StateFields ==
  ASSUME NEW c \in Card, Nearly(c), Positioned(c), Talking(c),
         NEW ran, ran.end \in BOOLEAN,
         ran.end => c.phase = "none" /\ c.ena /\ c.state \notin StartUp,
         NEW b, NEW timely \in BOOLEAN
  PROVE  Moves(c, StateStep(c, ran, b, timely))
<1> DEFINE heard == timely /\ ran.end
           d == StateStep(c, ran, b, timely)
<1>r. ASSUME c.state \notin Reading \union Writing
      PROVE  Resting(c) /\ [c EXCEPT !.pstat = "IDLE"] = c /\ Moves(c, c)
  <2>1. Resting(c)
    BY <1>r, Types DEF Nearly, Resting, State
  <2>2. [c EXCEPT !.pstat = "IDLE"] = c
    BY <2>1, IdleAlready DEF Resting
  <2> QED BY <2>1, <2>2, MovesNot
<1>f. ASSUME ran.end, c.state \in Idling \union {"AVAIL"}
      PROVE  Fresh(c) /\ Resting(c) /\ Moves(c, c)
  <2>1. Resting(c) /\ Moves(c, c)
    BY <1>f, <1>r DEF Idling, Reading, Writing
  <2> QED BY <1>f, <2>1 DEF Fresh, Quiet, Positioned, Talking, Resting
<1>e. ASSUME NEW n \in Card, Moves(c, n) PROVE Moves(c, R1(n)) /\ Moves(c, R1(Idles(n)))
  <2>1. Moves(c, R1(n)) /\ Moves(c, Idles(n))
    BY <1>e, MovesReport
  <2>2. Idles(n) \in Card
    BY ReportFields
  <2> QED BY <2>1, <2>2, MovesReport
<1>1. CASE c.state = "UNINIT"
  <2>1. Resting(c) /\ d = UninitStep(c, b, timely)
    BY <1>1, <1>r DEF StateStep, Reading, Writing, Idling
  <2> QED BY <1>1, <2>1, StartMoves
<1>2. CASE c.state = "NINIT"
  <2>1. Resting(c) /\ d = NinitStep(c, b, timely)
    BY <1>2, <1>r DEF StateStep, Reading, Writing, Idling
  <2> QED BY <1>2, <2>1, StartMoves
<1>3. CASE c.state \in Idling /\ ~heard
  <2>1. Moves(c, c) /\ d = c
    BY <1>3, <1>r DEF StateStep, Reading, Writing, Idling
  <2> QED BY <2>1
<1>4. CASE c.state = "NATIVE" /\ heard
  <2> DEFINE n == IF c.r1 = {} THEN NativeCommand(c, ran) ELSE c
  <2>1. d = R1(n)
    BY <1>4, <1>r DEF StateStep, Reading, Writing, Idling
  <2>2. Fresh(c) /\ Resting(c) /\ Moves(c, c)
    BY <1>4, <1>f DEF Idling
  <2>3. n \in Card /\ Moves(c, n)
    BY <2>2, NativeQuiet, NativeMoves DEF Quiet
  <2> HIDE DEF n
  <2> QED BY <2>1, <2>3, <1>e
<1>5. CASE c.state \in {"IDLE", "VERIFIED"} /\ heard
  <2> DEFINE n == IF c.r1 = {} THEN IdleCommand(c, ran) ELSE c
  <2>1. d = R1(Idles(n))
    BY <1>5, <1>r DEF StateStep, Reading, Writing, Idling
  <2>2. Fresh(c) /\ Resting(c) /\ Moves(c, c)
    BY <1>5, <1>f DEF Idling
  <2>3. n \in Card /\ Moves(c, n)
    BY <1>5, <2>2, IdleQuiet, IdleMoves DEF Quiet
  <2> HIDE DEF n
  <2> QED BY <2>1, <2>3, <1>e
<1>6. CASE c.state = "IINIT" /\ heard
  <2> DEFINE n == IF c.r1 = {} THEN InitCommand(c, ran) ELSE c
  <2>1. d = R1(n)
    BY <1>6, <1>r DEF StateStep, Reading, Writing, Idling
  <2>2. Fresh(c) /\ Resting(c) /\ Moves(c, c)
    BY <1>6, <1>f DEF Idling
  <2>3. n \in Card /\ Moves(c, n)
    BY <1>6, <2>2, InitQuiet, InitMoves DEF Quiet
  <2> HIDE DEF n
  <2> QED BY <2>1, <2>3, <1>e
<1>7. CASE c.state = "AVAIL" /\ ran.end
  <2> DEFINE n == IF c.r1 = {} THEN AvailCommand(c, ran) ELSE c
  <2>1. d = R1(n)
    BY <1>7 DEF StateStep, Reading, Writing, Idling
  <2>2. Fresh(c) /\ Resting(c) /\ Moves(c, c)
    BY <1>7, <1>f
  <2>3. n \in Card /\ Moves(c, n)
    BY <1>7, <2>2, AvailOutcome, AvailMoves DEF Quiet, Begun
  <2> HIDE DEF n
  <2> QED BY <2>1, <2>3, <1>e
<1>8. CASE c.state = "AVAIL" /\ ~ran.end
  <2>1. Moves(c, c) /\ d = c
    BY <1>8, <1>r DEF StateStep, Reading, Writing, Idling
  <2> QED BY <2>1
<1>9. CASE c.state \in Reading
  <2>1. d = ReadingStep(c, ran)
    BY <1>9 DEF StateStep, Reading, Writing, Idling
  <2> QED BY <1>9, <2>1, ReadingMoves
<1>10. CASE c.state \in Writing
  <2>1. d = WritingStep(c)
    BY <1>10 DEF StateStep, Reading, Writing, Idling
  <2> QED BY <1>10, <2>1, WritingMoves
<1> QED
  BY <1>1, <1>2, <1>3, <1>4, <1>5, <1>6, <1>7, <1>8, <1>9, <1>10, Types
  DEF State, StartUp, Idling
-----------------------------------------------------------------------------
(***************************************************************************)
(* The fields through the three machines in a row.                         *)
(***************************************************************************)
\* What one byte does to the card, for the deadline and the block device: c is the
\* card after the cycles before the byte, d the card that the state machine finds.
LEMMA SendFields ==
  ASSUME IInv, NEW b \in Byte, NEW e \in Gap, NEW crcOk \in BOOLEAN,
         NEW timely \in BOOLEAN, Send(b, e, crcOk, timely)
  PROVE  \E c \in Card, d \in Card :
           /\ Aged(sd, e, c) /\ Transferred(c, d) /\ TransferMoves(c, d)
           /\ Moves(d, sd')
<1>1. PICK c0 \in Card, c1 \in Card, c2 \in Card : \E ran :
        /\ Aged(sd, e, c0)
        /\ c1 = TransferStep(c0, b, crcOk) /\ Transferred(c0, c1)
        /\ IF Listening(c0) THEN Commanded(c1, c2) ELSE c2 = c1
        /\ Nearly(c2) /\ Positioned(c2) /\ Talking(c2)
        /\ ran.end \in BOOLEAN
        /\ ran.end => c2.phase = "none" /\ c2.ena /\ c2.state \notin StartUp
        /\ sd' = StateStep(c2, ran, b, timely)
  BY SendParts
<1>2. TransferMoves(c0, c1)
  BY <1>1, TransferFields
<1>3. SamePlace(c1, c2)
  BY <1>1 DEF Commanded, SameTransfer, SamePlace
<1>4. Moves(c2, sd')
  <2>1. PICK ran :
          /\ ran.end \in BOOLEAN
          /\ ran.end => c2.phase = "none" /\ c2.ena /\ c2.state \notin StartUp
          /\ sd' = StateStep(c2, ran, b, timely)
    BY <1>1
  <2> QED BY <1>1, <2>1, StateFields
<1>5. Moves(c1, sd')
  BY <1>3, <1>4 DEF Moves, StateTimes, StateMoves, SamePlace, Past
<1> QED BY <1>1, <1>2, <1>5

-----------------------------------------------------------------------------
(***************************************************************************)
(* Deadlines. As long as the age does not saturate, the time left is what  *)
(* the age has left of the time the card was to wait, and wraps below zero *)
(* once that is over; a time below half the range of the cycle counter is  *)
(* then told apart from its end.                                           *)
(***************************************************************************)
Waits(time) == age < ClockMod => sd.left = (time - age) % ClockMod

Timed ==
  /\ sd.state = "IINIT" => Waits(InitTime)
  /\ sd.pstat = "WBUSY" => Waits(WriteTime)

\* Counting down from a remainder.
LEMMA CountDown ==
  ASSUME NEW m \in Nat \ {0}, NEW x \in Int, NEW e \in Int
  PROVE  ((x % m) - e) % m = (x - e) % m
<1> DEFINE d == x \div m
           q == m * (0 - d)
<1>1. d \in Int /\ x % m = x - m * d /\ m * d \in Int
  BY DivMod, Distribute
<1>2. m * (0 - d) = m * 0 - m * d /\ m * 0 = 0
  BY <1>1, Distribute
<1>3. 0 - d \in Int /\ x - e \in Int
  BY <1>1
<1>4. (m * (0 - d) + (x - e)) % m = (x - e) % m
  BY <1>3, ModShift
<1> HIDE DEF d
<1>5. m * (0 - d) + (x - e) = (x % m) - e
  BY <1>1, <1>2
<1> QED BY <1>4, <1>5

\* A deadline that is behind was waited for.
LEMMA WaitedOut ==
  ASSUME NEW t \in Nat, 2 * t < ClockMod, NEW a \in Nat, NEW c,
         a < ClockMod => c.left = (t - a) % ClockMod, Past(c), a <= ClockMod
  PROVE  a > t
<1>1. ClockMod \in Nat \ {0}
  BY Lengths
<1>2. ASSUME a <= t PROVE FALSE
  <2>1. a < ClockMod /\ t - a \in 0 .. ClockMod - 1
    BY <1>1, <1>2
  <2>2. c.left = t - a
    BY <1>1, <2>1, ModSmall
  <2> QED BY <1>1, <1>2, <2>2 DEF Past
<1> QED BY <1>2

\* The age and the time left go on together,
LEMMA AgedWaits ==
  ASSUME IInv, NEW e \in Nat, NEW t \in Nat, Waits(t), NEW c, Aged(sd, e, c)
  PROVE  /\ Least(age + e, ClockMod) \in Nat /\ Least(age + e, ClockMod) <= ClockMod
         /\ Least(age + e, ClockMod) < ClockMod =>
              c.left = (t - Least(age + e, ClockMod)) % ClockMod
<1>1. ClockMod \in Nat \ {0} /\ age \in Nat /\ age <= ClockMod
  BY Lengths DEF IInv
<1>2. Least(age + e, ClockMod) = IF age + e < ClockMod THEN age + e ELSE ClockMod
  BY DEF Least
<1>3. ASSUME age + e < ClockMod PROVE c.left = (t - (age + e)) % ClockMod
  <2>1. sd.left = (t - age) % ClockMod /\ c.left = (sd.left - e) % ClockMod
    BY <1>1, <1>3 DEF Waits, Aged
  <2>2. t - age \in Int /\ e \in Int /\ (t - age) - e = t - (age + e)
    BY <1>1
  <2>3. (((t - age) % ClockMod) - e) % ClockMod = ((t - age) - e) % ClockMod
    BY <1>1, <2>2, CountDown
  <2> QED BY <2>1, <2>2, <2>3
<1> DEFINE a == Least(age + e, ClockMod)
<1>4. a \in Nat /\ a <= ClockMod
  BY <1>1, <1>2
<1>5. ASSUME a < ClockMod PROVE c.left = (t - a) % ClockMod
  <2>1. age + e < ClockMod /\ a = age + e
    BY <1>1, <1>2, <1>5
  <2> HIDE DEF a
  <2> QED BY <1>3, <2>1
<1> QED BY <1>4, <1>5

\* and in a deadline the transfer and the state agree.
LEMMA DeadlineStates ==
  ASSUME IInv
  PROVE  /\ sd.state = "IINIT" => sd.pstat = "IDLE"
         /\ sd.pstat = "WBUSY" => sd.state \in Writing /\ sd.state # "IINIT"
<1>1. sd.pstat \in PStat /\ Agrees(sd)
  BY Types DEF IInv, Settled
<1> QED BY <1>1 DEF Agrees, PStat, WriteStat, Reading, Writing

\* What a byte does to a deadline.
LEMMA SendTimed ==
  ASSUME IInv, IInv', Timed, NEW b \in Byte, NEW e \in Gap, NEW crcOk \in BOOLEAN,
         NEW timely \in BOOLEAN, Send(b, e, crcOk, timely)
  PROVE  /\ Timed'
         /\ sd.state = "IINIT" /\ sd'.state = "AVAIL" => age' > InitTime
         /\ sd.pstat = "WBUSY" /\ sd'.pstat = "IDLE" => age' > WriteTime
<1> DEFINE a == Least(age + e, ClockMod)
<1>1. PICK c \in Card, d \in Card :
        /\ Aged(sd, e, c) /\ Transferred(c, d) /\ TransferMoves(c, d)
        /\ Moves(d, sd')
  BY SendFields
<1>2. /\ c.state = sd.state /\ c.pstat = sd.pstat /\ d.state = sd.state
      /\ StateTimes(d, sd')
  BY <1>1 DEF Aged, Transferred, SameCommand, Moves
<1>3. /\ sd.state = "IINIT" => sd.pstat = "IDLE"
      /\ sd.pstat = "WBUSY" => sd.state \in Writing /\ sd.state # "IINIT"
  BY DeadlineStates
<1>4. /\ sd'.state = "IINIT" => sd'.pstat = "IDLE"
      /\ sd'.pstat = "WBUSY" => sd'.state \in Writing /\ sd'.state # "IINIT"
  <2>1. sd'.pstat \in PStat /\ Agrees(sd')
    BY Types DEF IInv, Settled
  <2> QED BY <2>1 DEF Agrees, PStat, WriteStat, Reading, Writing
<1>5. /\ e \in Nat /\ InitTime \in Nat /\ WriteTime \in Nat /\ ClockMod \in Nat \ {0}
      /\ 2 * InitTime < ClockMod /\ 2 * WriteTime < ClockMod
  BY SdCardAssumption, DeadlineAssumption DEF SdCardAssumption, DeadlineAssumption
<1>6. age' = IF Arms THEN 0 ELSE a
  BY DEF Send
<1>7. ASSUME sd.state = "IINIT"
      PROVE  /\ a \in Nat /\ a <= ClockMod /\ d.left = c.left
             /\ a < ClockMod => c.left = (InitTime - a) % ClockMod
  <2>1. d.pstat = "IDLE" /\ d.left = c.left
    BY <1>1, <1>2, <1>3, <1>7 DEF TransferMoves
  <2>2. Waits(InitTime)
    BY <1>7 DEF Timed
  <2> QED BY <1>1, <1>5, <2>1, <2>2, AgedWaits
<1>8. ASSUME sd.pstat = "WBUSY"
      PROVE  /\ a \in Nat /\ a <= ClockMod /\ d.left = c.left
             /\ a < ClockMod => c.left = (WriteTime - a) % ClockMod
  <2>1. d.left = c.left
    BY <1>1, <1>2, <1>8 DEF TransferMoves
  <2>2. Waits(WriteTime)
    BY <1>8 DEF Timed
  <2> QED BY <1>1, <1>5, <2>1, <2>2, AgedWaits
<1> HIDE DEF a
<1>9. ASSUME sd'.state = "IINIT", age' < ClockMod
      PROVE  sd'.left = (InitTime - age') % ClockMod
  <2>1. CASE sd.state = "IINIT"
    <3>1. age' = a
      BY <1>4, <1>6, <1>9, <2>1 DEF Arms
    <3>2. sd'.left = d.left
      BY <1>2, <1>9, <2>1 DEF StateTimes
    <3> QED BY <1>7, <1>9, <2>1, <3>1, <3>2
  <2>2. CASE sd.state # "IINIT"
    <3>1. age' = 0
      BY <1>6, <1>9, <2>2 DEF Arms
    <3>2. sd'.left = InitTime % ClockMod
      BY <1>2, <1>9, <2>2 DEF StateTimes
    <3> QED BY <1>5, <3>1, <3>2
  <2> QED BY <2>1, <2>2
<1>10. ASSUME sd'.pstat = "WBUSY", age' < ClockMod
       PROVE  sd'.left = (WriteTime - age') % ClockMod
  <2>1. d.pstat = "WBUSY" /\ sd'.left = d.left
    BY <1>2, <1>10 DEF StateTimes
  <2>2. CASE sd.pstat = "WBUSY"
    <3>1. age' = a
      BY <1>4, <1>6, <1>10, <2>2 DEF Arms
    <3> QED BY <1>8, <1>10, <2>1, <2>2, <3>1
  <2>3. CASE sd.pstat # "WBUSY"
    <3>1. age' = 0
      BY <1>6, <1>10, <2>3 DEF Arms
    <3>2. d.left = WriteTime % ClockMod
      BY <1>1, <1>2, <2>1, <2>3 DEF TransferMoves
    <3> QED BY <1>5, <2>1, <3>1, <3>2
  <2> QED BY <2>2, <2>3
<1>11. Timed'
  BY <1>9, <1>10 DEF Timed, Waits
<1>12. ASSUME sd.state = "IINIT", sd'.state = "AVAIL" PROVE age' > InitTime
  <2>1. age' = a
    BY <1>4, <1>6, <1>12 DEF Arms, Writing
  <2>2. Past(d)
    BY <1>2, <1>12 DEF StateTimes
  <2>3. Past(c)
    BY <1>7, <1>12, <2>2 DEF Past
  <2>4. a > InitTime
    BY <1>5, <1>7, <1>12, <2>3, WaitedOut
  <2> QED BY <2>1, <2>4
<1>13. ASSUME sd.pstat = "WBUSY", sd'.pstat = "IDLE" PROVE age' > WriteTime
  <2>1. sd'.pstat = d.pstat /\ sd'.state = IF d.pstat = "IDLE" THEN "AVAIL" ELSE d.state
    BY <1>1, <1>2, <1>3, <1>13 DEF Moves, StateMoves
  <2>2. Past(c)
    BY <1>1, <1>2, <1>13, <2>1 DEF TransferMoves
  <2>3. age' = a
    BY <1>6, <1>13, <2>1 DEF Arms
  <2>4. a > WriteTime
    BY <1>5, <1>8, <1>13, <2>2, WaitedOut
  <2> QED BY <2>3, <2>4
<1> QED BY <1>11, <1>12, <1>13

\* Deadlines hold at the start, and every step keeps them.
LEMMA TimedInit == Init => Timed
BY DEF Init, AfterReset, Timed

\* What the action property says of a step.
DeadlineStep ==
  /\ sd.state = "IINIT" /\ sd'.state = "AVAIL" => age' > InitTime
  /\ sd.pstat = "WBUSY" /\ sd'.pstat = "IDLE" /\ sd'.state # "UNINIT"
       => age' > WriteTime

\* Resets end a deadline, selections leave it.
LEMMA TimedStep ==
  ASSUME IInv, IInv', Timed, [Next]_vars
  PROVE  Timed' /\ [DeadlineStep]_vars
<1>1. CASE \E b \in Byte, e \in Gap, crcOk, timely \in BOOLEAN :
             Send(b, e, crcOk, timely)
  BY <1>1, SendTimed DEF DeadlineStep
<1>2. CASE CsSet
  <2>1. /\ sd'.state = sd.state /\ sd'.pstat = sd.pstat /\ sd'.left = sd.left
        /\ age' = age
    BY <1>2 DEF CsSet, IInv, Settled, Card
  <2> QED BY <2>1 DEF Timed, Waits, DeadlineStep
<1>3. CASE Reset
  <2>1. sd'.state = "UNINIT" /\ sd'.pstat = "IDLE"
    BY <1>3 DEF Reset, AfterReset
  <2> QED BY <2>1 DEF Timed, DeadlineStep
<1>4. CASE UNCHANGED vars
  BY <1>4 DEF vars, Timed, Waits
<1> QED BY <1>1, <1>2, <1>3, <1>4 DEF Next

\* Initialisations and busy periods take at least their time, whatever the bytes
\* and the cycles between them, wrapping of the cycle counter included (DeadlineKept).
THEOREM DeadlinesKept == Spec => DeadlineKept
<1>1. Init => IInv /\ Timed
  BY InitInv, TimedInit
<1>2. IInv /\ Timed /\ [Next]_vars => IInv' /\ Timed' /\ [DeadlineStep]_vars
  BY StepInv, TimedStep
<1>3. Spec => [][DeadlineStep]_vars
  BY <1>1, <1>2, PTL DEF Spec
<1>4. [DeadlineStep]_vars =>
        [ /\ sd.state = "IINIT" /\ sd'.state = "AVAIL" => age' > InitTime
          /\ sd.pstat = "WBUSY" /\ sd'.pstat = "IDLE" /\ sd'.state # "UNINIT"
               => age' > WriteTime ]_vars
  BY DEF DeadlineStep
<1> QED BY <1>3, <1>4, PTL DEF DeadlineKept
-----------------------------------------------------------------------------
(***************************************************************************)
(* The refinement: the state of BlockDevice that a card stands for, and    *)
(* the step of BlockDevice that a byte is.                                 *)
(***************************************************************************)
ModeOf(c) ==
  CASE c.state \in StartUp \union Idling -> "unready"
    [] c.state = "AVAIL"    -> "ready"
    [] c.state \in Reading  -> "reading"
    [] c.state \in Writing  -> IF c.pstat = "WBUSY" THEN "busy" ELSE "writing"
MultiOf(c)  == c.state \in {"CMD18", "CMD25"} /\ c.pstat # "WBUSY"
SectorOf(c) == IF c.state \in Reading \/ c.pstat \in WriteStat THEN c.paddr ELSE 0
MovedOf(c) ==
  CASE c.pstat \in DataStat -> c.ppos
    [] c.pstat \in {"RCRC", "W24CRC", "W25CRC"} -> BlockLen
    [] OTHER -> 0

SameView(c, d) ==
  /\ ModeOf(d) = ModeOf(c) /\ MultiOf(d) = MultiOf(c)
  /\ SectorOf(d) = SectorOf(c) /\ MovedOf(d) = MovedOf(c)

Rests(d, m) == ModeOf(d) = m /\ MultiOf(d) = FALSE /\ SectorOf(d) = 0 /\ MovedOf(d) = 0

DeviceStep(c, d) ==
  \/ SameView(c, d)
  \/ ModeOf(c) = "unready" /\ Rests(d, "ready")
  \/ Rests(d, "unready")
  \/ /\ ModeOf(c) = "ready" /\ ModeOf(d) \in {"reading", "writing"}
     /\ MultiOf(d) \in BOOLEAN /\ SectorOf(d) \in Nat /\ MovedOf(d) = 0
  \/ /\ ModeOf(c) \in {"reading", "writing"} /\ MovedOf(c) < BlockLen
     /\ MovedOf(d) = MovedOf(c) + 1
     /\ ModeOf(d) = ModeOf(c) /\ MultiOf(d) = MultiOf(c) /\ SectorOf(d) = SectorOf(c)
  \/ /\ ModeOf(c) \in {"reading", "writing"} /\ MultiOf(c)
     /\ MovedOf(c) = BlockLen /\ MovedOf(d) = 0
     /\ SectorOf(d) = IF ModeOf(c) = "reading"
                      THEN (SectorOf(c) + 1) % SectorMod ELSE SectorOf(c)
     /\ ModeOf(d) = ModeOf(c) /\ MultiOf(d) = MultiOf(c)
  \/ ModeOf(c) = "reading" /\ Rests(d, "ready")
  \/ /\ ModeOf(c) = "writing" /\ MovedOf(c) = IF MultiOf(c) THEN 0 ELSE BlockLen
     /\ Rests(d, "busy")
  \/ ModeOf(c) = "busy" /\ Rests(d, "ready")

\* A card at rest.
LEMMA RestingView ==
  ASSUME NEW c, Resting(c)
  PROVE  /\ c.state = "AVAIL" => Rests(c, "ready")
         /\ c.state # "AVAIL" => Rests(c, "unready")
<1>1. /\ c.pstat = "IDLE" /\ c.state \notin Reading \union Writing
      /\ c.state # "AVAIL" => c.state \in StartUp \union Idling
      /\ c.state = "AVAIL" => c.state \notin StartUp \union Idling
  BY DEF Resting, StartUp, Idling, Reading, Writing
<1>2. SectorOf(c) = 0 /\ MovedOf(c) = 0 /\ MultiOf(c) = FALSE
  BY <1>1 DEF SectorOf, MovedOf, MultiOf, Reading, Writing, DataStat, WriteStat, W24Stat, W25Stat
<1>3. /\ c.state = "AVAIL" => ModeOf(c) = "ready"
      /\ c.state # "AVAIL" => ModeOf(c) = "unready"
  BY <1>1 DEF ModeOf
<1> QED BY <1>2, <1>3 DEF Rests

\* A card in a transfer.
LEMMA TransferView ==
  ASSUME NEW c
  PROVE  /\ c.state \in Reading =>
              /\ ModeOf(c) = "reading" /\ SectorOf(c) = c.paddr
              /\ c.pstat # "WBUSY" => MultiOf(c) = (c.state = "CMD18")
         /\ c.state \in Writing /\ c.pstat \in WriteStat =>
              /\ ModeOf(c) = "writing" /\ SectorOf(c) = c.paddr
              /\ MultiOf(c) = (c.state = "CMD25")
         /\ c.state \in Writing /\ c.pstat = "WBUSY" => Rests(c, "busy")
         /\ c.pstat \in DataStat => MovedOf(c) = c.ppos
         /\ c.pstat \in {"RCRC", "W24CRC", "W25CRC"} => MovedOf(c) = BlockLen
         /\ c.pstat \in {"RPREP", "W24PREP", "W25PREP", "IDLE", "WBUSY"} => MovedOf(c) = 0
<1>1. c.state \in Reading =>
        /\ ModeOf(c) = "reading" /\ SectorOf(c) = c.paddr
        /\ c.pstat # "WBUSY" => MultiOf(c) = (c.state = "CMD18")
  <2>1. c.state \in Reading => ModeOf(c) = "reading" /\ SectorOf(c) = c.paddr
    <3>1. ASSUME c.state \in Reading
          PROVE  c.state \notin StartUp \union Idling /\ c.state # "AVAIL"
      BY <3>1 DEF Reading, StartUp, Idling
    <3> QED BY <3>1 DEF ModeOf, SectorOf, Writing, Reading
  <2>2. CASE c.state = "CMD17"
    BY <2>1, <2>2 DEF Reading, MultiOf
  <2>3. CASE c.state = "CMD18"
    BY <2>1, <2>3 DEF Reading, MultiOf
  <2> QED BY <2>2, <2>3 DEF Reading
<1>2. c.state \in Writing /\ c.pstat \in WriteStat =>
        /\ ModeOf(c) = "writing" /\ SectorOf(c) = c.paddr
        /\ MultiOf(c) = (c.state = "CMD25")
  BY DEF Reading, Writing, ModeOf, SectorOf, MultiOf, StartUp, Idling,
         WriteStat, W24Stat, W25Stat
<1>3. /\ c.pstat \in DataStat => MovedOf(c) = c.ppos
      /\ c.pstat \in {"RCRC", "W24CRC", "W25CRC"} => MovedOf(c) = BlockLen
      /\ c.pstat \in {"RPREP", "W24PREP", "W25PREP", "IDLE", "WBUSY"} => MovedOf(c) = 0
  BY DEF MovedOf, DataStat
<1>4. c.state \in Writing /\ c.pstat = "WBUSY" => Rests(c, "busy")
  BY <1>3 DEF Reading, Writing, ModeOf, SectorOf, MultiOf, Rests, StartUp, Idling,
         WriteStat, W24Stat, W25Stat
<1> QED BY <1>1, <1>2, <1>3, <1>4

\* A card in a transfer, at the byte of the block it has come to: of a read,
LEMMA ReadDevice ==
  ASSUME NEW c \in Card, NEW d \in Card, NEW x, Agrees(c), Positioned(c),
         c.state \in Reading, TransferMoves(c, d), d.state = c.state, StateMoves(d, x)
  PROVE  DeviceStep(c, x)
<1>1. c.pstat \in {"RPREP", "RDATA", "RCRC"}
  BY DEF Agrees, ReadStat
<1>2. /\ ModeOf(c) = "reading" /\ SectorOf(c) = c.paddr
      /\ MultiOf(c) = (c.state = "CMD18")
  BY <1>1, TransferView
<1>3. CASE x.state = "AVAIL" /\ x.pstat = "IDLE"
  <2>1. Rests(x, "ready")
    BY <1>3, RestingView DEF Resting
  <2> QED BY <1>2, <2>1 DEF DeviceStep
<1>4. CASE d.pstat # "IDLE" /\ SamePlace(d, x)
  <2>1. /\ x.state = c.state /\ x.pstat = d.pstat /\ x.ppos = d.ppos
        /\ x.paddr = c.paddr
    BY <1>4 DEF SamePlace, TransferMoves
  <2>2. d.pstat \in {"RPREP", "RDATA", "RCRC"}
    BY <1>1, <1>4 DEF TransferMoves, ByteMoved
  <2>3. /\ ModeOf(x) = "reading" /\ SectorOf(x) = c.paddr
        /\ MultiOf(x) = (c.state = "CMD18")
    BY <2>1, <2>2, TransferView
  <2>4. CASE c.pstat = "RPREP"
    <3>1. d.pstat = "RPREP" \/ (d.pstat = "RDATA" /\ d.ppos = 0)
      BY <2>4 DEF TransferMoves
    <3>2. MovedOf(c) = 0 /\ MovedOf(x) = 0
      BY <2>1, <2>4, <3>1, TransferView DEF DataStat
    <3> QED BY <1>2, <2>3, <3>2 DEF DeviceStep, SameView
  <2>5. CASE c.pstat = "RDATA"
    <3>1. MovedOf(c) = c.ppos /\ c.ppos < BlockLen /\ c.ppos \in Nat
      BY <2>5, TransferView, Types DEF DataStat, Positioned
    <3>2. MovedOf(x) = c.ppos + 1
      BY <2>1, <2>5, TransferView DEF TransferMoves, ByteMoved, DataStat
    <3> QED BY <1>2, <2>3, <3>1, <3>2 DEF DeviceStep
  <2>6. CASE c.pstat = "RCRC"
    <3>1. d.pstat = "RCRC"
      BY <1>4, <2>6 DEF TransferMoves
    <3>2. MovedOf(c) = BlockLen /\ MovedOf(x) = BlockLen
      BY <2>1, <2>6, <3>1, TransferView
    <3> QED BY <1>2, <2>3, <3>2 DEF DeviceStep, SameView
  <2> QED BY <1>1, <2>4, <2>5, <2>6
<1>5. CASE /\ d.pstat = "IDLE" /\ d.state = "CMD18"
           /\ x.state = "CMD18" /\ x.pstat = "RPREP"
           /\ x.paddr = (d.paddr + 1) % SectorMod
  <2>1. c.pstat = "RCRC" /\ d.paddr = c.paddr
    BY <1>1, <1>5 DEF TransferMoves, ByteMoved
  <2>2. MovedOf(c) = BlockLen /\ MovedOf(x) = 0
    BY <1>5, <2>1, TransferView
  <2>3. /\ ModeOf(x) = "reading" /\ SectorOf(x) = (c.paddr + 1) % SectorMod
        /\ MultiOf(x) = TRUE /\ MultiOf(c) = TRUE
    BY <1>2, <1>5, <2>1, TransferView DEF Reading
  <2> QED BY <1>2, <2>2, <2>3 DEF DeviceStep
<1> QED BY <1>3, <1>4, <1>5 DEF StateMoves

\* and of a write.
LEMMA WriteDevice ==
  ASSUME NEW c \in Card, NEW d \in Card, NEW x, Agrees(c), Positioned(c),
         c.state \in Writing, TransferMoves(c, d), d.state = c.state, StateMoves(d, x)
  PROVE  DeviceStep(c, x)
<1>1. c.pstat \in {"W24PREP", "W24DATA", "W24CRC", "W25PREP", "W25DATA", "W25CRC", "WBUSY"}
  BY DEF Agrees, WriteStat, W24Stat, W25Stat
<1>2. /\ x.state = IF d.pstat = "IDLE" THEN "AVAIL" ELSE c.state
      /\ x.pstat = d.pstat /\ x.ppos = d.ppos /\ x.paddr = c.paddr
  BY DEF StateMoves, TransferMoves
<1>3. /\ c.pstat \in W24Stat => c.state = "CMD24"
      /\ c.pstat \in W25Stat => c.state = "CMD25"
  BY DEF Agrees
<1>4. CASE c.pstat = "WBUSY"
  <2>1. Rests(c, "busy")
    BY <1>4, TransferView
  <2>2. CASE d.pstat = "WBUSY"
    <3>1. Rests(x, "busy")
      BY <1>2, <2>2, TransferView
    <3> QED BY <2>1, <3>1 DEF DeviceStep, SameView, Rests
  <2>3. CASE d.pstat = "IDLE"
    <3>1. Rests(x, "ready")
      BY <1>2, <2>3, RestingView DEF Resting
    <3> QED BY <2>1, <3>1 DEF DeviceStep, Rests
  <2> QED BY <1>4, <2>2, <2>3 DEF TransferMoves
<1>5. ASSUME c.pstat # "WBUSY"
      PROVE  /\ ModeOf(c) = "writing" /\ SectorOf(c) = c.paddr
             /\ MultiOf(c) = (c.state = "CMD25")
  <2>1. c.pstat \in WriteStat
    BY <1>1, <1>5 DEF WriteStat, W24Stat, W25Stat
  <2> QED BY <2>1, TransferView
<1>6. ASSUME d.pstat \in WriteStat
      PROVE  /\ ModeOf(x) = "writing" /\ SectorOf(x) = c.paddr
             /\ MultiOf(x) = (c.state = "CMD25")
  <2>1. x.state = c.state /\ x.pstat \in WriteStat
    BY <1>2, <1>6 DEF WriteStat, W24Stat, W25Stat
  <2> QED BY <1>2, <2>1, TransferView
<1>7. ASSUME c.pstat \in {"W24PREP", "W25PREP"}, d.pstat # "WBUSY"
      PROVE  SameView(c, x)
  <2>1. \/ d.pstat = c.pstat
        \/ d.pstat \in {"W24DATA", "W25DATA"} /\ d.ppos = 0
    BY <1>7 DEF TransferMoves
  <2>2. d.pstat \in WriteStat
    BY <1>7, <2>1 DEF WriteStat, W24Stat, W25Stat
  <2>3. MovedOf(c) = 0 /\ MovedOf(x) = 0
    BY <1>2, <1>7, <2>1, TransferView DEF DataStat
  <2> QED BY <1>5, <1>6, <1>7, <2>2, <2>3 DEF SameView
<1>8. CASE c.pstat \in {"W24DATA", "W25DATA"}
  <2>1. MovedOf(c) = c.ppos /\ c.ppos < BlockLen /\ c.ppos \in Nat
    BY <1>8, TransferView, Types DEF DataStat, Positioned
  <2>2. \/ d.pstat \in {"W24DATA", "W25DATA"} /\ d.ppos = c.ppos + 1
        \/ d.pstat \in {"W24CRC", "W25CRC"} /\ c.ppos + 1 = BlockLen
    BY <1>8 DEF TransferMoves, ByteMoved
  <2>3. d.pstat \in WriteStat
    BY <2>2 DEF WriteStat, W24Stat, W25Stat
  <2>4. MovedOf(x) = c.ppos + 1
    BY <1>2, <2>2, TransferView DEF DataStat
  <2> QED BY <1>5, <1>6, <1>8, <2>1, <2>3, <2>4 DEF DeviceStep
<1>9. ASSUME d.pstat = "WBUSY", c.pstat \in {"W24CRC", "W25PREP"}
      PROVE  DeviceStep(c, x)
  <2>1. Rests(x, "busy")
    BY <1>2, <1>9, TransferView
  <2>2. MovedOf(c) = IF MultiOf(c) THEN 0 ELSE BlockLen
    BY <1>3, <1>5, <1>9, TransferView DEF W24Stat, W25Stat
  <2> QED BY <1>5, <1>9, <2>1, <2>2 DEF DeviceStep
<1>10. ASSUME c.pstat \in {"W24CRC", "W25CRC"}, d.pstat = c.pstat PROVE SameView(c, x)
  <2>1. d.pstat \in WriteStat
    BY <1>10 DEF WriteStat, W24Stat, W25Stat
  <2>2. MovedOf(c) = BlockLen /\ MovedOf(x) = BlockLen
    BY <1>2, <1>10, TransferView
  <2> QED BY <1>5, <1>6, <1>10, <2>1, <2>2 DEF SameView
<1>11. ASSUME c.pstat = "W25CRC", d.pstat = "W25PREP" PROVE DeviceStep(c, x)
  <2>1. d.pstat \in WriteStat /\ c.state = "CMD25"
    BY <1>3, <1>11 DEF WriteStat, W24Stat, W25Stat
  <2>2. MovedOf(c) = BlockLen /\ MovedOf(x) = 0
    BY <1>2, <1>11, TransferView
  <2> QED BY <1>5, <1>6, <1>11, <2>1, <2>2 DEF DeviceStep
<1>12. CASE c.pstat \in {"W24PREP", "W25PREP"}
  <2>1. d.pstat = "WBUSY" => c.pstat = "W25PREP"
    BY <1>12 DEF TransferMoves
  <2> QED BY <1>7, <1>9, <1>12, <2>1 DEF DeviceStep
<1>13. CASE c.pstat = "W24CRC"
  BY <1>9, <1>10, <1>13 DEF DeviceStep, TransferMoves
<1>14. CASE c.pstat = "W25CRC"
  BY <1>10, <1>11, <1>14 DEF DeviceStep, TransferMoves
<1> QED BY <1>1, <1>4, <1>8, <1>12, <1>13, <1>14

\* Outside transfers a card rests or starts a transfer.
LEMMA RestDevice ==
  ASSUME NEW c \in Card, NEW d \in Card, NEW x \in Card, Agrees(c),
         c.state \notin Reading \union Writing,
         TransferMoves(c, d), d.state = c.state, StateMoves(d, x)
  PROVE  DeviceStep(c, x)
<1>1. Resting(c)
  <2>1. c.state \in State /\ c.pstat \in PStat
    BY Types
  <2> QED BY <2>1 DEF Resting, Agrees, State, PStat, WriteStat
<1>2. CASE Resting(x)
  BY <1>1, <1>2, RestingView DEF DeviceStep, Rests, SameView
<1>3. CASE c.state = "AVAIL" /\ Starting(x)
  <2>1. ModeOf(c) = "ready"
    BY <1>1, <1>3, RestingView DEF Rests
  <2>2. /\ ModeOf(x) \in {"reading", "writing"} /\ SectorOf(x) = x.paddr
        /\ MultiOf(x) \in BOOLEAN /\ MovedOf(x) = 0
    BY <1>3, TransferView DEF Starting, Writing, WriteStat, W24Stat, W25Stat
  <2>3. x.paddr \in Nat
    BY Types
  <2> QED BY <2>1, <2>2, <2>3 DEF DeviceStep
<1>4. Resting(x) \/ (c.state = "AVAIL" /\ Starting(x))
  BY <1>1 DEF StateMoves, Resting
<1> QED BY <1>2, <1>3, <1>4

\* A byte is a step of the device,
LEMMA SendDevice ==
  ASSUME IInv, IInv', NEW b \in Byte, NEW e \in Gap, NEW crcOk \in BOOLEAN,
         NEW timely \in BOOLEAN, Send(b, e, crcOk, timely)
  PROVE  DeviceStep(sd, sd')
<1>1. PICK c \in Card, d \in Card :
        /\ Aged(sd, e, c) /\ Transferred(c, d) /\ TransferMoves(c, d)
        /\ Moves(d, sd')
  BY SendFields
<1>2. /\ c.state = sd.state /\ c.pstat = sd.pstat /\ c.ppos = sd.ppos
      /\ c.paddr = sd.paddr /\ d.state = c.state
      /\ StateMoves(d, sd')
  BY <1>1 DEF Aged, Transferred, SameCommand, Moves
<1>3. Agrees(sd) /\ Positioned(sd) /\ sd \in Card /\ sd' \in Card
  BY DEF IInv, Settled
<1>4. c.left < ClockMod
  <2>1. sd.left - e \in Int /\ ClockMod \in Nat \ {0}
    BY <1>3, Types, SdCardAssumption DEF SdCardAssumption
  <2> QED BY <1>1, <2>1, ModRange DEF Aged
<1>5. Agrees(c) /\ Positioned(c)
  BY <1>2, <1>3, <1>4 DEF Agrees, Positioned
<1>6. DeviceStep(c, sd')
  BY <1>1, <1>2, <1>3, <1>5, ReadDevice, WriteDevice, RestDevice
<1>7. SameView(c, sd)
  BY <1>2 DEF SameView, ModeOf, MultiOf, SectorOf, MovedOf
<1> QED BY <1>6, <1>7 DEF DeviceStep, SameView

\* a reset is one, and a selection is none.
LEMMA NextDevice ==
  ASSUME IInv, IInv', [Next]_vars
  PROVE  DeviceStep(sd, sd')
<1>1. CASE \E b \in Byte, e \in Gap, crcOk, timely \in BOOLEAN :
             Send(b, e, crcOk, timely)
  BY <1>1, SendDevice
<1>2. CASE CsSet
  <2>1. /\ sd'.state = sd.state /\ sd'.pstat = sd.pstat /\ sd'.ppos = sd.ppos
        /\ sd'.paddr = sd.paddr
    BY <1>2 DEF CsSet, IInv, Settled, Card
  <2>2. SameView(sd, sd')
    BY <2>1 DEF SameView, ModeOf, MultiOf, SectorOf, MovedOf
  <2> QED BY <2>2 DEF DeviceStep
<1>3. CASE Reset
  <2>1. sd'.state = "UNINIT" /\ sd'.pstat = "IDLE"
    BY <1>3 DEF Reset, AfterReset
  <2>2. Rests(sd', "unready")
    BY <2>1, RestingView DEF Resting, StartUp
  <2> QED BY <2>2 DEF DeviceStep
<1>4. CASE UNCHANGED vars
  BY <1>4 DEF vars, DeviceStep, SameView
<1> QED BY <1>1, <1>2, <1>3, <1>4 DEF Next

\* A step of the device is a step of the abstract specification.
LEMMA DeviceImplements ==
  ASSUME DeviceStep(sd, sd')
  PROVE  [Device!DevNext]_Device!dvars
<1> USE DEF ModeOf, MultiOf, SectorOf, MovedOf
<1>1. CASE SameView(sd, sd')
  BY <1>1 DEF SameView, Device!dvars
<1>2. CASE ModeOf(sd) = "unready" /\ Rests(sd', "ready")
  <2>1. Device!Initialised
    BY <1>2 DEF Rests, Device!Initialised, Device!Rest
  <2> QED BY <2>1 DEF Device!DevNext
<1>3. CASE Rests(sd', "unready")
  <2>1. Device!GoUnready
    BY <1>3 DEF Rests, Device!GoUnready, Device!Rest
  <2> QED BY <2>1 DEF Device!DevNext
<1>4. CASE /\ ModeOf(sd) = "ready" /\ ModeOf(sd') \in {"reading", "writing"}
           /\ MultiOf(sd') \in BOOLEAN /\ SectorOf(sd') \in Nat /\ MovedOf(sd') = 0
  <2>1. Device!Begin
    BY <1>4 DEF Device!Begin
  <2> QED BY <2>1 DEF Device!DevNext
<1>5. CASE /\ ModeOf(sd) \in {"reading", "writing"} /\ MovedOf(sd) < BlockLen
           /\ MovedOf(sd') = MovedOf(sd) + 1
           /\ ModeOf(sd') = ModeOf(sd) /\ MultiOf(sd') = MultiOf(sd)
           /\ SectorOf(sd') = SectorOf(sd)
  <2>1. Device!Transfer
    BY <1>5 DEF Device!Transfer
  <2> QED BY <2>1 DEF Device!DevNext
<1>6. CASE /\ ModeOf(sd) \in {"reading", "writing"} /\ MultiOf(sd)
           /\ MovedOf(sd) = BlockLen /\ MovedOf(sd') = 0
           /\ SectorOf(sd') = IF ModeOf(sd) = "reading"
                              THEN (SectorOf(sd) + 1) % SectorMod ELSE SectorOf(sd)
           /\ ModeOf(sd') = ModeOf(sd) /\ MultiOf(sd') = MultiOf(sd)
  <2>1. Device!NextBlock
    BY <1>6 DEF Device!NextBlock
  <2> QED BY <2>1 DEF Device!DevNext
<1>7. CASE ModeOf(sd) = "reading" /\ Rests(sd', "ready")
  <2>1. Device!ReadEnd
    BY <1>7 DEF Rests, Device!ReadEnd, Device!Rest
  <2> QED BY <2>1 DEF Device!DevNext
<1>8. CASE /\ ModeOf(sd) = "writing"
           /\ MovedOf(sd) = IF MultiOf(sd) THEN 0 ELSE BlockLen
           /\ Rests(sd', "busy")
  <2>1. Device!WriteDone
    BY <1>8 DEF Rests, Device!WriteDone, Device!Rest
  <2> QED BY <2>1 DEF Device!DevNext
<1>9. CASE ModeOf(sd) = "busy" /\ Rests(sd', "ready")
  <2>1. Device!BusyDone
    BY <1>9 DEF Rests, Device!BusyDone, Device!Rest
  <2> QED BY <2>1 DEF Device!DevNext
<1> QED
  BY ONLY DeviceStep(sd, sd'), <1>1, <1>2, <1>3, <1>4, <1>5, <1>6, <1>7, <1>8, <1>9
  DEF DeviceStep

\* The card starts where the device starts.
LEMMA DeviceInit == Init => Device!DevInit
<1> SUFFICES ASSUME Init PROVE Device!DevInit
  OBVIOUS
<1>1. Resting(sd) /\ sd.state # "AVAIL"
  BY DEF Init, AfterReset, Resting, StartUp
<1>2. Rests(sd, "unready")
  BY <1>1, RestingView
<1> QED BY <1>2 DEF Rests, ModeOf, MultiOf, SectorOf, MovedOf, Device!DevInit

\* The card is a block device: it moves the bytes of one sector in order, goes on
\* with the next sector only after a whole block, and leaves a write only at the
\* end of a block and through a busy period (ImplementsBlockDevice).
THEOREM BlockDeviceImplemented == Spec => ImplementsBlockDevice
<1>1. Init => IInv /\ Device!DevInit
  BY InitInv, DeviceInit
<1>2. IInv /\ [Next]_vars => IInv' /\ [Device!DevNext]_Device!dvars
  BY StepInv, NextDevice, DeviceImplements
<1> QED BY <1>1, <1>2, PTL DEF Spec, ImplementsBlockDevice, Device!DevSpec
=============================================================================
