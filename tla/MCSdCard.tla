------------------------------ MODULE MCSdCard ------------------------------
(***************************************************************************)
(* SdCard for TLC: two byte blocks, one byte arguments, and a cycle        *)
(* counter that wraps at 16, in byte times. The bytes clocked out are the  *)
(* values the card tells apart and the commands, two of them illegal.      *)
(***************************************************************************)
EXTENDS SdCard

MCCommands == {0, 1, 8, 12, 13, 17, 18, 24, 25, 41, 55, 58, 59}
MCArgs == {64, 65, FF}
MCByte == {FF, ReadToken, MultiToken, StopToken}
          \union {64 + n : n \in MCCommands}

\* Other argument bytes behave like these.
ArgBound == sd.phase = "recv" => sd.crarg \in MCArgs \union {0}

\* What later steps may read. A field that is set before it is read again is
\* left out, "data", which is set on every byte, always.
View ==
  LET Live(cond, v) == IF cond THEN v ELSE 0
      timed  == sd.state = "IINIT" \/ sd.pstat = "WBUSY"
      moving == sd.pstat \notin {"IDLE", "WBUSY"}
      talks  == sd.phase # "none"
  IN << sd.ena, sd.crc, sd.state, sd.phase, sd.code, sd.app, sd.pstat, since,
        Live(moving, sd.ppos), Live(moving, sd.paddr),
        Live(timed, sd.left), Live(timed, age),
        Live(talks \/ sd.state = "NINIT", sd.evcnt), Live(talks, sd.crarg),
        sd.phase \in {"recv", "resp"} /\ sd.r1 # {} >>
=============================================================================
