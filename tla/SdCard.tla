------------------------------- MODULE SdCard -------------------------------
(***************************************************************************)
(* The SD card of the SPI bus (cu_spisd.c): the block transfer machine     *)
(* (pstat), the command and response machine (cmd, kept here as code, app  *)
(* and phase) and the card state machine (state). All three run, in this   *)
(* order, on every byte the AVR clocks out.                                *)
(*                                                                         *)
(* Bytes keep their values where the card tells them apart. What is        *)
(* abstracted: the CRC values (whether a byte completes a correct CRC is   *)
(* an input), the media contents, and the cycle counter, of which only     *)
(* WRAP32(next - cycle) is kept (left). The SPI rate check of the          *)
(* initialisation states is the input "timely".                            *)
(*                                                                         *)
(* Definitions named Fault... are faulty variants of the definition after  *)
(* them; no specification uses them. Each breaks one of the properties.    *)
(***************************************************************************)
EXTENDS Integers

CONSTANTS
  Byte,       \* bytes the program may clock out
  Gap,        \* cycles that may pass between two bytes
  BlockLen,   \* 512
  ArgLen,     \* 4: bytes of a command argument, and of an extra response
  ReadPrep,   \* READ_P_N: stuff bytes before a read's data token
  CmdWait,    \* CMD_N: stuff bytes before a command's response
  InitClocks, \* 10: bytes of 0xFF that make up the 80 initial clocks
  InitTime,   \* SD_INIMS in cycles
  WriteTime,  \* WRITE_T in cycles
  ClockMod,   \* 2^32: the cycle counter wraps
  SectorMod,  \* 2^23: sector addresses wrap
  CheckArg,   \* 0x1AA, the argument of CMD8
  PowerArg,   \* the arguments ACMD41 accepts
  OcrBusy,    \* 0x00FF0000
  OcrReady    \* 0x80FF0000

ASSUME SdCardAssumption ==
  /\ Byte \subseteq 0 .. 255
  /\ Gap \subseteq Nat
  /\ BlockLen \in Nat \ {0} /\ ArgLen \in Nat \ {0} /\ InitClocks \in Nat \ {0}
  /\ ClockMod \in Nat \ {0} /\ SectorMod \in Nat \ {0}
  /\ ReadPrep \in Nat /\ CmdWait \in Nat
  /\ InitTime \in Nat /\ WriteTime \in Nat
  /\ CheckArg \in Nat /\ OcrBusy \in Nat /\ OcrReady \in Nat
  /\ OcrBusy # OcrReady
  /\ OcrReady # 0 /\ OcrReady # CheckArg

\* 500 and 100 ms: below half the range of the cycle counter, so that Past (below)
\* tells them apart from a deadline that is behind.
ASSUME DeadlineAssumption == 2 * InitTime < ClockMod /\ 2 * WriteTime < ClockMod

VARIABLES
  sd,     \* sd_state
  since,  \* history: bytes since the command byte, with the card selected
  age     \* history: cycles since "next" was last set, up to ClockMod

vars == <<sd, since, age>>
-----------------------------------------------------------------------------
StartUp  == {"UNINIT", "NINIT"}
Idling   == {"NATIVE", "IDLE", "VERIFIED", "IINIT"}
Reading  == {"CMD17", "CMD18"}
Writing  == {"CMD24", "CMD25"}
State    == StartUp \union Idling \union {"AVAIL"} \union Reading \union Writing

ReadStat == {"RPREP", "RDATA", "RCRC"}
W24Stat  == {"W24PREP", "W24DATA", "W24CRC"}
W25Stat  == {"W25PREP", "W25DATA", "W25CRC"}
WriteStat == W24Stat \union W25Stat
PStat    == {"IDLE", "WBUSY"} \union ReadStat \union WriteStat

\* The command machine: waiting for a command (SCMD_R clear), receiving one
\* (SCMD_R), before its response (SCMD_R and SCMD_N), sending more response
\* bytes (SCMD_X).
Phase == {"none", "recv", "resp", "extra"}

R1Flag == {"IDLE", "ILL", "CRC", "OTHER"}  \* all of them: 0xFF

\* What the card drives on its output, 0xFF being "stuff".
Out == {"stuff", "token", "block", "crc", "accepted", "rejected", "busy",
        "r1", "extra"}

FF == 255
ReadToken == 254  \* also starts the block of a CMD24
MultiToken == 252
StopToken == 253

IsCommand(b) == b \in 64 .. 127

\* The deadline "next" is behind: WRAP32(next - cycle) >= 0x80000000.
Past(c) == 2 * c.left >= ClockMod

MaxSince == ArgLen + CmdWait + 2
-----------------------------------------------------------------------------
(***************************************************************************)
(* Block transfers. The media is read or written at paddr, ppos.           *)
(***************************************************************************)
FaultMove(c, p) == [c EXCEPT !.pstat = p]
Move(c, p) == [c EXCEPT !.pstat = p, !.ppos = 0]

FaultBlockByte(c, crcStat) ==
  IF c.ppos = BlockLen THEN Move(c, crcStat) ELSE [c EXCEPT !.ppos = @ + 1]
\* One more data byte of the block; the CRC follows the last one.
BlockByte(c, crcStat) ==
  IF c.ppos + 1 = BlockLen THEN Move(c, crcStat) ELSE [c EXCEPT !.ppos = @ + 1]

ReadStep(c) ==
  CASE c.pstat = "RPREP" ->
         IF c.ppos >= ReadPrep
         THEN [Move(c, "RDATA") EXCEPT !.data = "token"]
         ELSE [c EXCEPT !.ppos = @ + 1]
    [] c.pstat = "RDATA" -> [BlockByte(c, "RCRC") EXCEPT !.data = "block"]
    [] c.pstat = "RCRC" ->
         [c EXCEPT !.data = "crc",
                   !.pstat = IF c.ppos = 0 THEN @ ELSE "IDLE",
                   !.ppos = @ + 1]

\* The data response token. The block was written to the media either way.
Verdict(c, crcOk) == IF c.crc /\ ~crcOk THEN "rejected" ELSE "accepted"

Write24Step(c, b, crcOk) ==
  CASE c.pstat = "W24PREP" ->
         IF c.ppos = 0 THEN [c EXCEPT !.ppos = 1]
         ELSE IF b = ReadToken THEN Move(c, "W24DATA") ELSE c
    [] c.pstat = "W24DATA" -> BlockByte(c, "W24CRC")
    [] c.pstat = "W24CRC" ->
         IF c.ppos = 0 THEN [c EXCEPT !.ppos = 1]
         ELSE [c EXCEPT !.pstat = "WBUSY", !.ppos = @ + 1,
                        !.left = WriteTime % ClockMod,
                        !.data = Verdict(c, crcOk)]

Write25Step(c, b, crcOk) ==
  CASE c.pstat = "W25PREP" ->
         IF c.ppos = 0 THEN [c EXCEPT !.ppos = 1]
         ELSE IF b = MultiToken THEN Move(c, "W25DATA")
         ELSE IF b = StopToken
              THEN [c EXCEPT !.pstat = "WBUSY", !.left = WriteTime % ClockMod]
              ELSE c
    [] c.pstat = "W25DATA" -> BlockByte(c, "W25CRC")
    [] c.pstat = "W25CRC" ->
         IF c.ppos = 0 THEN [c EXCEPT !.ppos = 1]
         ELSE [Move(c, "W25PREP") EXCEPT !.data = Verdict(c, crcOk)]

BusyStep(c) ==
  IF Past(c) THEN [c EXCEPT !.pstat = "IDLE"]
  ELSE [c EXCEPT !.data = IF c.ena THEN "busy" ELSE @]

TransferStep(c, b, crcOk) ==
  CASE c.pstat \in ReadStat -> ReadStep(c)
    [] c.pstat \in W24Stat  -> Write24Step(c, b, crcOk)
    [] c.pstat \in W25Stat  -> Write25Step(c, b, crcOk)
    [] c.pstat = "WBUSY"    -> BusyStep(c)
    [] c.pstat = "IDLE"     -> c
-----------------------------------------------------------------------------
(***************************************************************************)
(* Command reception and responses.                                        *)
(***************************************************************************)
\* Bytes are taken as commands when the card is selected, past its start up,
\* and not taking the data of a write.
Listening(c) == c.ena /\ c.pstat \notin WriteStat /\ c.state \notin StartUp

\* The command in c is answered on this byte (CMD55 only marks the next one).
Answers(c) == c.phase = "resp" /\ c.evcnt >= CmdWait /\ c.code # 55

NoCommand(c) == [c EXCEPT !.phase = "none", !.code = 0, !.app = FALSE]

\* Four more response bytes follow the R1, "from" counting those left out.
Extra(c, arg, from) ==
  [c EXCEPT !.phase = "extra", !.code = 0, !.app = FALSE,
            !.crarg = arg, !.evcnt = from]

ExtraStep(c) ==
  IF c.evcnt < ArgLen
  THEN [Extra(c, c.crarg, c.evcnt + 1) EXCEPT !.data = "extra"]
  ELSE NoCommand(c)

\* A command byte may also interrupt the extra bytes of a response.
AwaitStep(c, b) ==
  IF IsCommand(b)
  THEN [c EXCEPT !.phase = "recv", !.code = b - 64,
                 !.crarg = 0, !.evcnt = 0, !.r1 = {}]
  ELSE c

ReceiveStep(c, b, crcOk) ==
  IF c.evcnt < ArgLen
  THEN [c EXCEPT !.crarg = @ * 256 + b, !.evcnt = @ + 1]
  ELSE [c EXCEPT !.phase = "resp", !.evcnt = 0, !.data = "stuff",
                 !.r1 = @ \union IF c.crc /\ ~crcOk THEN {"CRC"} ELSE {}]

RespondStep(c) ==
  IF c.evcnt < CmdWait THEN [c EXCEPT !.evcnt = @ + 1, !.data = "stuff"]
  ELSE IF c.code = 55
       THEN [c EXCEPT !.phase = "none", !.code = 0, !.app = TRUE, !.data = "r1",
                      !.r1 = @ \union IF c.state \in Idling THEN {"IDLE"} ELSE {}]
       ELSE NoCommand(c)

CommandStep(c, b, crcOk) ==
  CASE c.phase = "extra" -> AwaitStep(ExtraStep(c), b)
    [] c.phase = "none"  -> AwaitStep(c, b)
    [] c.phase = "recv"  -> ReceiveStep(c, b, crcOk)
    [] c.phase = "resp"  -> RespondStep(c)
-----------------------------------------------------------------------------
(***************************************************************************)
(* The card states. ran is the command as it was before this byte: whether *)
(* it is answered now, its code, and whether CMD55 came before it.         *)
(***************************************************************************)
Ran(c) == [end |-> Listening(c) /\ Answers(c), code |-> c.code, app |-> c.app]

Is(ran, n)    == ran.end /\ ran.code = n /\ ~ran.app
IsApp(ran, n) == ran.end /\ ran.code = n /\ ran.app

Illegal(c) == [c EXCEPT !.r1 = @ \union {"ILL"}]
Idles(c)   == [c EXCEPT !.r1 = @ \union {"IDLE"}]
R1(c)      == [c EXCEPT !.data = "r1"]

UninitStep(c, b, timely) ==
  IF timely /\ b = FF /\ ~c.ena
  THEN [c EXCEPT !.state = "NINIT", !.evcnt = 1, !.data = "stuff"]
  ELSE c

NinitStep(c, b, timely) ==
  IF ~(timely /\ b = FF /\ ~c.ena) THEN [c EXCEPT !.state = "UNINIT"]
  ELSE IF c.evcnt + 1 # InitClocks THEN [c EXCEPT !.evcnt = @ + 1]
  ELSE [NoCommand(c) EXCEPT !.evcnt = @ + 1, !.state = "NATIVE", !.crc = TRUE]

NativeCommand(c, ran) ==
  IF Is(ran, 0) THEN Idles([c EXCEPT !.state = "IDLE", !.crc = FALSE])
  ELSE Illegal(c)

FaultStartInit(c) == [c EXCEPT !.state = "IINIT"]
\* Start the card's initialisation, which takes InitTime.
StartInit(c) == [c EXCEPT !.state = "IINIT", !.left = InitTime % ClockMod]

IdleCommand(c, ran) ==
  CASE Is(ran, 0) -> [c EXCEPT !.state = "IDLE"]
    [] Is(ran, 1) -> StartInit(c)
    [] Is(ran, 8) -> IF c.crarg = CheckArg
                     THEN Extra([c EXCEPT !.state = "VERIFIED"], CheckArg, 0)
                     ELSE [c EXCEPT !.r1 = R1Flag]
    [] Is(ran, 58) -> Extra(c, OcrBusy, 0)
    [] Is(ran, 59) -> [c EXCEPT !.crc = (c.crarg % 2 # 0)]
    [] IsApp(ran, 41) /\ c.state = "VERIFIED" /\ c.crarg \in PowerArg ->
         Extra(StartInit(c), OcrBusy, 0)
    [] OTHER -> Illegal(c)

FaultInitCommand(c, ran) ==
  CASE Is(ran, 0) -> Idles([c EXCEPT !.state = "IDLE"])
    [] Is(ran, 1) \/ IsApp(ran, 41) ->
         Extra([c EXCEPT !.state = IF Past(c) THEN "AVAIL" ELSE @], OcrReady, 0)
    [] OTHER -> Idles(Illegal(c))
InitCommand(c, ran) ==
  CASE Is(ran, 0) -> Idles([c EXCEPT !.state = "IDLE"])
    [] Is(ran, 1) \/ IsApp(ran, 41) ->
         IF Past(c) THEN Extra([c EXCEPT !.state = "AVAIL"], OcrReady, 0)
         ELSE Idles(Extra(c, OcrBusy, 0))
    [] OTHER -> Idles(Illegal(c))

Begin(c, s, p) ==
  [c EXCEPT !.state = s, !.pstat = p, !.ppos = 0, !.paddr = c.crarg \div BlockLen]

AvailCommand(c, ran) ==
  CASE Is(ran, 0)  -> Idles([c EXCEPT !.state = "IDLE"])
    [] Is(ran, 13) -> Extra(c, 0, ArgLen - 1)
    [] Is(ran, 16) \/ IsApp(ran, 23) -> c
    [] Is(ran, 17) -> Begin(c, "CMD17", "RPREP")
    [] Is(ran, 18) -> Begin(c, "CMD18", "RPREP")
    [] Is(ran, 24) -> Begin(c, "CMD24", "W24PREP")
    [] Is(ran, 25) -> Begin(c, "CMD25", "W25PREP")
    [] Is(ran, 58) -> Extra(c, OcrReady, 0)
    [] Is(ran, 59) -> [c EXCEPT !.crc = (c.crarg % 2 # 0)]
    [] OTHER -> Illegal(c)

FaultNextRead(c) ==
  IF c.pstat # "IDLE" THEN c
  ELSE IF c.state = "CMD17" THEN [c EXCEPT !.state = "AVAIL"] ELSE Move(c, "RPREP")
\* A block ended: a multiple block read goes on with the next sector.
NextRead(c) ==
  IF c.pstat # "IDLE" THEN c
  ELSE IF c.state = "CMD17" THEN [c EXCEPT !.state = "AVAIL"]
  ELSE [Move(c, "RPREP") EXCEPT !.paddr = (@ + 1) % SectorMod]

FaultStopRead(c) == Extra(R1([c EXCEPT !.state = "AVAIL"]), 0, 0)
\* CMD12: stop the read, followed by four busy bytes.
StopRead(c) ==
  Extra(R1([c EXCEPT !.state = "AVAIL", !.pstat = "IDLE"]), 0, 0)

ReadingStep(c, ran) == IF Is(ran, 12) THEN StopRead(NextRead(c)) ELSE NextRead(c)

WritingStep(c) == [c EXCEPT !.state = IF c.pstat = "IDLE" THEN "AVAIL" ELSE @]

\* A command without errors so far is executed, the others only get their R1.
StateStep(c, ran, b, timely) ==
  LET quiet == [c EXCEPT !.pstat = "IDLE"]
      heard == timely /\ ran.end
      clean == c.r1 = {}
  IN CASE c.state = "UNINIT" -> UninitStep(quiet, b, timely)
       [] c.state = "NINIT"  -> NinitStep(quiet, b, timely)
       [] c.state \in Idling /\ ~heard -> quiet
       [] c.state = "NATIVE" /\ heard ->
            R1(IF clean THEN NativeCommand(quiet, ran) ELSE quiet)
       [] c.state \in {"IDLE", "VERIFIED"} /\ heard ->
            R1(Idles(IF clean THEN IdleCommand(quiet, ran) ELSE quiet))
       [] c.state = "IINIT" /\ heard ->
            R1(IF clean THEN InitCommand(quiet, ran) ELSE quiet)
       [] c.state = "AVAIL" /\ ran.end ->
            R1(IF clean THEN AvailCommand(c, ran) ELSE c)
       [] c.state = "AVAIL" /\ ~ran.end -> c
       [] c.state \in Reading -> ReadingStep(c, ran)
       [] c.state \in Writing -> WritingStep(c)
-----------------------------------------------------------------------------
(***************************************************************************)
(* The calls the SPI bus makes.                                            *)
(***************************************************************************)
\* cu_spisd_send after e more cycles.
Sent(b, e, crcOk, timely) ==
  LET c0 == [sd EXCEPT !.data = "stuff", !.left = (@ - e) % ClockMod]
      c1 == TransferStep(c0, b, crcOk)
      c2 == IF Listening(c0) THEN CommandStep(c1, b, crcOk) ELSE c1
  IN StateStep(c2, Ran(c0), b, timely)

Least(x, y) == IF x < y THEN x ELSE y

\* "next" is set by this step.
Arms == \/ sd.pstat # "WBUSY" /\ sd'.pstat = "WBUSY"
        \/ sd.state # "IINIT" /\ sd'.state = "IINIT"

Send(b, e, crcOk, timely) ==
  /\ sd' = Sent(b, e, crcOk, timely)
  /\ since' = IF sd'.phase = "recv" /\ sd'.evcnt = 0 THEN 0
              ELSE Least(since + 1, MaxSince)
  /\ age' = IF Arms THEN 0 ELSE Least(age + e, ClockMod)

FaultCsSet ==
  sd' = [sd EXCEPT !.ena = ~@] /\ since' = MaxSince /\ UNCHANGED age
\* cu_spisd_cs_set with a new level. Deselection kills the command.
CsSet ==
  /\ sd' = IF sd.ena THEN [sd EXCEPT !.ena = FALSE, !.phase = "none", !.code = 0]
           ELSE [sd EXCEPT !.ena = TRUE]
  /\ since' = MaxSince
  /\ UNCHANGED age

\* cu_spisd_reset. The emulator asks for it once, when it starts (cu_avr_reset);
\* here it may come again at any time. What it leaves alone is the position of
\* the last transfer.
AfterReset(ppos, paddr) ==
  [ena |-> FALSE, crc |-> TRUE, state |-> "UNINIT", left |-> 0, evcnt |-> 0,
   phase |-> "none", code |-> 0, app |-> FALSE, crarg |-> 0, r1 |-> {},
   data |-> "stuff", pstat |-> "IDLE", ppos |-> ppos, paddr |-> paddr]

Reset ==
  /\ sd' = AfterReset(sd.ppos, sd.paddr)
  /\ since' = MaxSince
  /\ age' = ClockMod

Init == sd = AfterReset(0, 0) /\ since = MaxSince /\ age = ClockMod

Next ==
  \/ \E b \in Byte, e \in Gap, crcOk, timely \in BOOLEAN : Send(b, e, crcOk, timely)
  \/ CsSet
  \/ Reset

Spec == Init /\ [][Next]_vars
-----------------------------------------------------------------------------
(***************************************************************************)
(* Properties.                                                             *)
(***************************************************************************)
Card == [ena : BOOLEAN, crc : BOOLEAN, state : State, left : Nat,
         evcnt : Nat, phase : Phase, code : Nat, app : BOOLEAN,
         crarg : Nat, r1 : SUBSET R1Flag, data : Out, pstat : PStat,
         ppos : Nat, paddr : Nat]

TypeOK ==
  /\ sd \in Card
  /\ sd.left < ClockMod
  /\ sd.code < 64
  /\ sd.ppos <= BlockLen + ReadPrep + 2
  /\ since \in 0 .. MaxSince
  /\ age \in 0 .. ClockMod

(***************************************************************************)
(* The card state and the transfer machine agree between bytes: a read     *)
(* state has a block under way, a write state takes a block or is busy,    *)
(* and nothing moves in any other state.                                   *)
(***************************************************************************)
TransferAgrees ==
  /\ sd.state \in Reading <=> sd.pstat \in ReadStat
  /\ sd.pstat \in W24Stat => sd.state = "CMD24"
  /\ sd.pstat \in W25Stat => sd.state = "CMD25"
  /\ sd.state \in Writing <=> sd.pstat \in WriteStat \union {"WBUSY"}

(***************************************************************************)
(* The media is only accessed inside the sector of the transfer, and every *)
(* other part of a transfer starts at its first byte as well.              *)
(***************************************************************************)
DataStat == {"RDATA", "W24DATA", "W25DATA"}
EdgeStat == {"RCRC", "W24PREP", "W24CRC", "W25PREP", "W25CRC"}

InSector ==
  /\ sd.pstat \in DataStat => sd.ppos < BlockLen
  /\ sd.pstat \in EdgeStat => sd.ppos <= 1
  /\ sd.pstat = "RPREP" => sd.ppos <= ReadPrep

(***************************************************************************)
(* A command is received from consecutive bytes, all of them sent while    *)
(* the card was selected and none of them taken as the data of a write.    *)
(***************************************************************************)
FrameContiguous ==
  /\ sd.phase = "recv" => since = sd.evcnt /\ since <= ArgLen
  /\ sd.phase = "resp" => since = ArgLen + 1 + sd.evcnt

(***************************************************************************)
(* While the card sends an OCR that says it is powered up, it is available *)
(* for transfers.                                                          *)
(***************************************************************************)
OcrTruthful == sd.phase = "extra" /\ sd.crarg = OcrReady => sd.state = "AVAIL"

(***************************************************************************)
(* Initialisation and busy periods are never cut short, except by a reset: *)
(* the deadline they wait for is their own.                                *)
(***************************************************************************)
DeadlineKept ==
  [][ /\ sd.state = "IINIT" /\ sd'.state = "AVAIL" => age' > InitTime
      /\ sd.pstat = "WBUSY" /\ sd'.pstat = "IDLE" /\ sd'.state # "UNINIT"
           => age' > WriteTime ]_vars

(***************************************************************************)
(* SdCard implements BlockDevice.                                          *)
(***************************************************************************)
Device == INSTANCE BlockDevice WITH
  mode   <- CASE sd.state \in StartUp \union Idling -> "unready"
              [] sd.state = "AVAIL"    -> "ready"
              [] sd.state \in Reading  -> "reading"
              [] sd.state \in Writing  -> IF sd.pstat = "WBUSY" THEN "busy" ELSE "writing",
  multi  <- sd.state \in {"CMD18", "CMD25"} /\ sd.pstat # "WBUSY",
  sector <- IF sd.state \in Reading \/ sd.pstat \in WriteStat THEN sd.paddr ELSE 0,
  moved  <- CASE sd.pstat \in DataStat -> sd.ppos
              [] sd.pstat \in {"RCRC", "W24CRC", "W25CRC"}    -> BlockLen
              [] OTHER -> 0

ImplementsBlockDevice == Device!DevSpec
=============================================================================
