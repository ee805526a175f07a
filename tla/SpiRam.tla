------------------------------- MODULE SpiRam -------------------------------
(***************************************************************************)
(* The serial RAM of the SPI bus (cu_spir.c). Addresses have two bytes for *)
(* one bank and three for more; the unit of an address byte is Radix, so a *)
(* bank is Radix * Radix cells. The buffer always covers the visible size. *)
(*                                                                         *)
(* Definitions named Fault... are faulty variants of the definition after  *)
(* them; no specification uses them. Each breaks one of the properties.    *)
(***************************************************************************)
EXTENDS Integers

CONSTANTS
  Radix,     \* 256
  PageSize,  \* 32
  MaxBanks,  \* MAX_SPI_RAM_SIZE in banks
  AddrMod,   \* 2^32: the address counter wraps
  Value      \* bound: bytes written to cells, of 0 .. 255

Bank == Radix * Radix

PowersOfTwo == {1, 2, 4, 8, 16, 32, 64, 128, 256}

ASSUME SpiRamAssumption ==
  /\ Radix \in 1 .. 256 /\ PageSize \in 1 .. Bank /\ Bank % PageSize = 0
  /\ MaxBanks \in PowersOfTwo
  /\ AddrMod \in Nat /\ Radix * Bank <= AddrMod
  /\ \A p \in PowersOfTwo : p <= MaxBanks => AddrMod % (p * Bank) = 0
  /\ Value \subseteq 0 .. 255 /\ 0 \in Value

VARIABLES
  ram,   \* spir_state without its buffer
  cells  \* spir_state.ram

rvars == <<ram, cells>>
-----------------------------------------------------------------------------
Stuff == 255  \* nothing on the output

WriteMode == 1
WriteData == 2
ReadData  == 3
ReadMode  == 5

ByteMode == 0
SeqMode  == 64
PageMode == 128
Unused   == 192  \* acts like ByteMode

\* Banks as cu_spir_set_size takes them: none is one, others are rounded up
\* to a power of two and clamped.
Rounded(banks) == CHOOSE p \in PowersOfTwo :
                    p >= banks /\ \A q \in PowersOfTwo : q >= banks => p <= q
Granted(banks) == IF Rounded(banks) > MaxBanks THEN MaxBanks ELSE Rounded(banks)

AddrBytes(size) == IF size <= Bank THEN 2 ELSE 3

\* cu_spir_reset, as the start up calls it after cu_spir_set_size.
Started(banks) ==
  [ena |-> FALSE, mode |-> SeqMode, state |-> "IDLE", ppos |-> 0, addr |-> 0,
   data |-> Stuff, size |-> Granted(banks) * Bank]

InitRam(Banks) ==
  \E b \in Banks : /\ ram = Started(b)
                   /\ cells = [a \in 0 .. ram.size - 1 |-> 0]
-----------------------------------------------------------------------------
At(r) == r.addr % r.size  \* addr & addr_mask

NextInPage(a) == (a - (a % PageSize)) + ((a + 1) % PageSize)

\* A sequential read leaves the counter unmasked, a write masks it.
FaultReadNext(r) ==
  IF r.mode \in {PageMode, SeqMode} THEN (r.addr + 1) % AddrMod ELSE r.addr

ReadNext(r) ==
  CASE r.mode = PageMode -> NextInPage(r.addr)
    [] r.mode = SeqMode  -> (r.addr + 1) % AddrMod
    [] OTHER             -> r.addr

FaultWriteNext(r) ==
  CASE r.mode = PageMode -> NextInPage(r.addr)
    [] r.mode = SeqMode  -> r.addr + 1
    [] OTHER             -> r.addr

WriteNext(r) ==
  CASE r.mode = PageMode -> NextInPage(r.addr)
    [] r.mode = SeqMode  -> (r.addr + 1) % r.size
    [] OTHER             -> r.addr

\* The fast path: the next data byte of a read, selected or not.
ReadOn(r) == LET n == [r EXCEPT !.addr = ReadNext(r)]
             IN [n EXCEPT !.data = cells[At(n)]]

Command(r, b) ==
  CASE b = WriteMode -> [r EXCEPT !.state = "WMODE"]
    [] b = WriteData -> [r EXCEPT !.state = "WRITE", !.ppos = 0, !.addr = 0]
    [] b = ReadData  -> [r EXCEPT !.state = "READ", !.ppos = 0, !.addr = 0]
    [] b = ReadMode  -> [r EXCEPT !.state = "RMODE", !.data = r.mode]
    [] OTHER         -> [r EXCEPT !.state = "SINK"]

\* A byte of the address, the highest first. The bytes still to come weigh
\* what one unit of it does.
Weight(bytes) == CASE bytes = 0 -> 1 [] bytes = 1 -> Radix [] bytes = 2 -> Bank

Addressed(r, b) ==
  [r EXCEPT !.addr = @ + b * Weight(AddrBytes(r.size) - 1 - r.ppos),
            !.ppos = (@ + 1) % AddrBytes(r.size)]
Complete(r) == r.ppos + 1 >= AddrBytes(r.size)

FaultReadAddress(r, b) ==
  LET n == [Addressed(r, b) EXCEPT !.addr = r.addr + b * Weight(r.ppos)]
  IN IF Complete(r) THEN [n EXCEPT !.state = "READB", !.data = cells[At(n)]] ELSE n

ReadAddress(r, b) ==
  LET n == Addressed(r, b)
  IN IF Complete(r) THEN [n EXCEPT !.state = "READB", !.data = cells[At(n)]] ELSE n

WriteAddress(r, b) ==
  [Addressed(r, b) EXCEPT !.state = IF Complete(r) THEN "WRITEB" ELSE @]

Selected(r, b) ==
  CASE r.state = "IDLE"   -> Command(r, b)
    [] r.state = "READ"   -> ReadAddress(r, b)
    [] r.state = "WRITE"  -> WriteAddress(r, b)
    [] r.state = "WRITEB" -> [r EXCEPT !.addr = WriteNext(r)]
    [] r.state = "RMODE"  -> [r EXCEPT !.state = "SINK"]
    [] r.state = "WMODE"  -> [r EXCEPT !.state = "SINK", !.mode = (b \div 64) * 64]
    [] r.state = "SINK"   -> r

\* cu_spir_send
Send(b) ==
  /\ ram' = IF ram.state = "READB" THEN ReadOn(ram)
            ELSE LET r == [ram EXCEPT !.data = Stuff]
                 IN IF ram.ena THEN Selected(r, b) ELSE r
  /\ cells' = IF ram.ena /\ ram.state = "WRITEB"
              THEN [cells EXCEPT ![At(ram)] = b] ELSE cells

FaultCsSet(ena) ==
  ram' = [ram EXCEPT !.ena = ena] /\ UNCHANGED cells

\* cu_spir_cs_set
CsSet(ena) ==
  /\ ram' = [ram EXCEPT !.ena = ena,
                        !.state = IF ram.ena /\ ~ena THEN "IDLE" ELSE @]
  /\ UNCHANGED cells

\* Bytes with a meaning where the RAM is: the others repeat these.
Meaning(r) ==
  IF ~r.ena THEN {WriteData, ReadData} \union Value
  ELSE CASE r.state = "IDLE"  -> {0, WriteMode, WriteData, ReadData, ReadMode}
         [] r.state \in {"READ", "WRITE"} -> 0 .. Radix - 1
         [] r.state = "WMODE" -> {ByteMode, SeqMode, PageMode, Unused}
         [] OTHER -> Value
-----------------------------------------------------------------------------
RamState == {"READB", "IDLE", "READ", "WRITE", "WRITEB", "RMODE", "WMODE", "SINK"}

Ram == [ena : BOOLEAN, mode : {ByteMode, SeqMode, PageMode, Unused}, state : RamState,
        ppos : 0 .. 2, addr : 0 .. AddrMod - 1, data : 0 .. 255,
        size : {p * Bank : p \in PowersOfTwo}]

RamTypeOK ==
  /\ ram \in Ram
  /\ cells \in [0 .. ram.size - 1 -> 0 .. 255]
=============================================================================
