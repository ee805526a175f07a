------------------------------- MODULE SpiBus -------------------------------
(***************************************************************************)
(* The SPI bus (cu_spi.c) between the AVR's SPI hardware (cu_avr.c) and    *)
(* its two devices, the serial RAM and the SD card. The byte received is   *)
(* taken from the devices when a transfer starts, the byte sent reaches    *)
(* both of them when it ends; the chip selects may change and a watchdog   *)
(* reset may come in between. Of the SD card only its output is kept, any  *)
(* at any time: SdCard describes it, and that it also speaks deselected.   *)
(***************************************************************************)
EXTENDS SpiRam

CONSTANTS
  Banks,   \* inputs: banks asked for by the game file
  SdByte   \* inputs: what the SD card drives

ASSUME SpiBusAssumption == Banks \subseteq 0 .. 255 /\ SdByte \subseteq 0 .. 255

VARIABLES
  sd,     \* the SD card's output
  tran    \* [busy, rx, tx]: spi_tran, spi_rx, spi_tx

vars == <<ram, cells, sd, tran>>
-----------------------------------------------------------------------------
NoTransfer == [busy |-> FALSE, rx |-> 0, tx |-> 0]

Init ==
  /\ InitRam(Banks)
  /\ sd = Stuff /\ tran = NoTransfer

\* Bit for bit.
And(x, y) ==
  LET Both(p) == IF (x \div p) % 2 = 1 /\ (y \div p) % 2 = 1 THEN p ELSE 0
  IN Both(1) + Both(2) + Both(4) + Both(8) + Both(16) + Both(32) + Both(64) + Both(128)

\* cu_spi_recv: the outputs wired together.
Recv == And(sd, ram.data)

\* The program writes SPDR. While a transfer runs this is a collision.
StartTransfer(b) ==
  /\ tran' = IF tran.busy THEN tran ELSE [busy |-> TRUE, rx |-> Recv, tx |-> b]
  /\ UNCHANGED <<ram, cells, sd>>

\* The transfer ends: the program finds rx in SPDR, and cu_spi_send hands tx
\* to both devices.
EndTransfer(d) ==
  /\ tran.busy /\ tran' = NoTransfer
  /\ Send(tran.tx)
  /\ sd' = d

\* The program writes PORTA or its direction.
SelectRam(ena) ==
  /\ CsSet(ena)
  /\ UNCHANGED <<sd, tran>>

\* A watchdog reset clears the registers and drops the transfer; the devices
\* and their chip selects stay as they are.
Watchdog ==
  /\ tran' = NoTransfer
  /\ UNCHANGED <<ram, cells, sd>>

Next ==
  \/ \E b \in Meaning(ram) : StartTransfer(b)
  \/ \E d \in SdByte : EndTransfer(d)
  \/ \E ena \in BOOLEAN : SelectRam(ena)
  \/ Watchdog

Spec == Init /\ [][Next]_vars
-----------------------------------------------------------------------------
TypeOK ==
  /\ RamTypeOK
  /\ sd \in 0 .. 255
  /\ tran \in [busy : BOOLEAN, rx : 0 .. 255, tx : 0 .. 255]

Stage(k, left, a) == [kind |-> k, left |-> left, at |-> a]

\* What the state of the RAM stands for.
StreamOf(r) ==
  CASE r.state = "IDLE"   -> Stage("none", 0, 0)
    [] r.state = "READ"   -> Stage("read", AddrBytes(r.size) - r.ppos, r.addr)
    [] r.state = "WRITE"  -> Stage("write", AddrBytes(r.size) - r.ppos, r.addr)
    [] r.state = "READB"  -> Stage("read", 0, At(r))
    [] r.state = "WRITEB" -> Stage("write", 0, At(r))
    [] r.state = "WMODE"  -> Stage("mode", 0, 0)
    [] OTHER              -> Stage("deaf", 0, 0)

SentOf(t) == IF t.busy THEN t.tx ELSE 256

Memory == INSTANCE SerialMemory WITH
  size     <- ram.size,
  mode     <- ram.mode,
  selected <- ram.ena,
  stream   <- StreamOf(ram),
  sent     <- SentOf(tran),
  out      <- ram.data

\* A stream reads or writes the cells from the address on that the program
\* sent for it, the same for reads and writes and whatever came before: the
\* bytes of the address put in place one by one, the counter that reads leave
\* unmasked and writes mask, the wrap at the end of the memory or of the page,
\* and a chip select that changes in the middle of anything do not show
\* (cu_spir.c:139-265).
ImplementsSerialMemory == Memory!Spec

\* Bytes for the other device do not change the RAM: not its cells, nor its
\* mode, nor the command it waits for; and once one byte has gone by since it
\* was deselected, the bus is the SD card's alone (cu_spir.c:139-148, 177-181;
\* cu_spi.c:94-104).
DeselectedUntouched ==
  [][~ram.ena =>
       /\ cells' = cells /\ ram'.mode = ram.mode /\ ram'.state = "IDLE"
       /\ ram.data = Stuff \/ (\E d \in SdByte : EndTransfer(d)) => Recv' = sd']_vars
=============================================================================
