---------------------------- MODULE SerialMemory ----------------------------
(***************************************************************************)
(* What a program may expect of a serial memory, byte by byte: a command,  *)
(* an address whose bytes come the highest first, and then a stream that   *)
(* reads or writes from that address on, as the mode tells, until the      *)
(* memory is deselected. A cell is known by its number alone: nothing here *)
(* tells how a byte of an address gets into it, or how the number counts.  *)
(***************************************************************************)
EXTENDS Integers

CONSTANTS
  Value,     \* what a cell holds
  Radix,     \* the unit of an address byte
  PageSize   \* a power of two, as every size is

VARIABLES
  size,      \* cells that can be reached
  cells,     \* [0 .. size - 1 -> Value]
  mode,      \* 0: one cell, 64: sequential, 128: within a page, 192: reserved
  selected,
  stream,    \* what the next byte is for, the address bytes left, the cell
  sent,      \* the byte under way to the memory
  out        \* the byte offered to the bus, None if none

mvars == <<size, cells, mode, selected, stream, sent, out>>

None   == 255
NoByte == 256
Stream(k, left, a) == [kind |-> k, left |-> left, at |-> a]
Waiting == Stream("none", 0, 0)  \* for a command
Deaf    == Stream("deaf", 0, 0)  \* until it is deselected
SetMode == Stream("mode", 0, 0)

\* The address has as many bytes as the size needs; the byte of so many left
\* counts by the bytes that follow it.
Bytes       == IF size <= Radix * Radix THEN 2 ELSE 3
Place(left) == CASE left = 3 -> Radix * Radix [] left = 2 -> Radix [] OTHER -> 1

Following(a) ==
  CASE mode = 64 -> (a + 1) % size
    [] mode = 128 -> (a - (a % PageSize)) + ((a + 1) % PageSize)
    [] OTHER               -> a

Init == /\ size \in Nat \ {0} /\ cells \in [0 .. size - 1 -> Value]
        /\ mode = 64 /\ stream = Waiting /\ out = None
        /\ selected = FALSE /\ sent = NoByte
-----------------------------------------------------------------------------
\* A byte is sent, to whatever device, or is lost.
Sending == /\ sent = NoByte \/ sent' = NoByte
           /\ sent' \in 0 .. NoByte
           /\ UNCHANGED <<size, cells, mode, selected, stream, out>>

\* What is on the output stays there until the next byte.
Select == \E s \in BOOLEAN :
  /\ selected' = s
  /\ stream' = IF selected /\ ~s THEN Waiting ELSE stream
  /\ UNCHANGED <<size, cells, mode, sent, out>>

Arrived == sent # NoByte /\ sent' = NoByte /\ UNCHANGED <<size, selected>>

Ignore ==
  /\ Arrived /\ ~selected
  /\ out' = None /\ UNCHANGED <<cells, mode, stream>>

Command ==
  /\ Arrived /\ selected /\ stream = Waiting /\ UNCHANGED <<cells, mode>>
  /\ \/ sent = 1 /\ stream' = SetMode /\ out' = None
     \/ sent = 2 /\ stream' = Stream("write", Bytes, 0) /\ out' = None
     \/ sent = 3 /\ stream' = Stream("read", Bytes, 0) /\ out' = None
     \/ sent = 5 /\ stream' = Deaf /\ out' = mode
     \/ sent \notin {1, 2, 3, 5} /\ stream' = Deaf /\ out' = None

Modal ==
  /\ Arrived /\ stream \in {SetMode, Deaf} /\ stream' = Deaf
  /\ mode' = IF stream = SetMode THEN sent - (sent % 64) ELSE mode
  /\ out' = None /\ UNCHANGED cells

Addressing ==
  LET a == stream.at + sent * Place(stream.left)
  IN /\ Arrived /\ stream.left > 0 /\ UNCHANGED <<cells, mode>>
     /\ \/ /\ stream.left > 1
           /\ stream' = Stream(stream.kind, stream.left - 1, a) /\ out' = None
        \/ /\ stream.left = 1
           /\ stream' = Stream(stream.kind, 0, a % size)
           /\ out' = IF stream.kind = "read" THEN cells[stream'.at] ELSE None

Read ==
  /\ Arrived /\ stream.kind = "read" /\ stream.left = 0
  /\ stream' = Stream("read", 0, Following(stream.at)) /\ out' = cells[stream'.at]
  /\ UNCHANGED <<cells, mode>>

Write ==
  /\ Arrived /\ stream.kind = "write" /\ stream.left = 0
  /\ cells' = [cells EXCEPT ![stream.at] = sent]
  /\ stream' = Stream("write", 0, Following(stream.at)) /\ out' = None
  /\ UNCHANGED mode

Next == Sending \/ Select \/ Ignore \/ Command \/ Modal \/ Addressing \/ Read \/ Write

Spec == Init /\ [][Next]_mvars
=============================================================================
