-------------------------------- MODULE MCSpi --------------------------------
(***************************************************************************)
(* The serial RAM with two units per address byte: a bank of four cells,   *)
(* pages of two; one bank (two address bytes) and two (three).             *)
(***************************************************************************)
EXTENDS SpiBus

MCBanks  == {0, 1, 2, 3}
MCValue  == {0, 1}
MCSdByte == {170, 255}
=============================================================================
