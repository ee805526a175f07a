----------------------------- MODULE BlockDevice -----------------------------
(***************************************************************************)
(* What the emulated SD card promises about block transfers, without the   *)
(* byte level protocol: a card that is not initialised moves no data, a    *)
(* transfer moves the bytes of one sector in order, a single block write   *)
(* ends only after the whole block was taken and always through a busy     *)
(* period, and a read may be stopped at any byte but a write may not.      *)
(* SdCard (cu_spisd.c) is shown to implement this module.                  *)
(***************************************************************************)
EXTENDS Integers

CONSTANTS
  BlockLen,   \* bytes in a sector, at least one
  SectorMod   \* number of addressable sectors, at least one: addresses wrap here

VARIABLES
  mode,    \* what the card is doing, as seen by the program on the AVR
  multi,   \* whether the transfer goes on with another block
  sector,  \* the sector being transferred, 0 outside transfers
  moved    \* bytes of that sector transferred so far

dvars == <<mode, multi, sector, moved>>

Mode == {"unready", "ready", "reading", "writing", "busy"}

DevTypeOK ==
  /\ mode \in Mode
  /\ multi \in BOOLEAN
  /\ sector \in Nat
  /\ moved \in 0 .. BlockLen

DevInit == mode = "unready" /\ multi = FALSE /\ sector = 0 /\ moved = 0

\* The card takes no part in a transfer after this step.
Rest(m) == mode' = m /\ multi' = FALSE /\ sector' = 0 /\ moved' = 0

\* Power up completed, or the program sent the card back to idle.
Initialised == mode = "unready" /\ Rest("ready")
GoUnready   == Rest("unready")

\* A read or a write command was accepted.
Begin ==
  /\ mode = "ready"
  /\ mode' \in {"reading", "writing"}
  /\ multi' \in BOOLEAN
  /\ sector' \in Nat
  /\ moved' = 0

\* The next byte of the sector went over the bus.
Transfer ==
  /\ mode \in {"reading", "writing"}
  /\ moved < BlockLen
  /\ moved' = moved + 1
  /\ UNCHANGED <<mode, multi, sector>>

\* A whole block was moved and a multiple block transfer continues. Reads go
\* on with the following sector; writes stay at the sector of the command.
NextBlock ==
  /\ mode \in {"reading", "writing"} /\ multi
  /\ moved = BlockLen
  /\ moved' = 0
  /\ sector' = IF mode = "reading" THEN (sector + 1) % SectorMod ELSE sector
  /\ UNCHANGED <<mode, multi>>

\* A read ends after its block, or anywhere when the program stops it.
ReadEnd == mode = "reading" /\ Rest("ready")

\* Writes end at a block boundary only, and keep the card busy.
WriteDone ==
  /\ mode = "writing"
  /\ moved = IF multi THEN 0 ELSE BlockLen
  /\ Rest("busy")

BusyDone == mode = "busy" /\ Rest("ready")

DevNext ==
  \/ Initialised \/ GoUnready
  \/ Begin \/ Transfer \/ NextBlock
  \/ ReadEnd
  \/ WriteDone \/ BusyDone

DevSpec == DevInit /\ [][DevNext]_dvars
=============================================================================
