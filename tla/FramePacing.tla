---------------------------- MODULE FramePacing ----------------------------
(***************************************************************************)
(* The pace of the main loop (main.c): how far the emulation is ahead of   *)
(* or behind perfect 60 Hz decides whether a pass of the loop runs a frame *)
(* at all and whether that frame is drawn. The code's unsigned difference  *)
(* is a signed one: what is kept of it is far from the width of a word.    *)
(*                                                                         *)
(* Times are milliseconds.                                                 *)
(***************************************************************************)
EXTENDS Integers

CONSTANTS
  Long, Short,  \* 17 and 16: frames, two long ones and a short one
  Starved,      \* 100: a longer gap is not made up for
  Slow,         \* 8: late by a frame
  Slower,       \* 58: late by several
  Limit,        \* 225: no later than this
  Fast,         \* 25: early by a frame
  Credit,       \* 75: no earlier than this
  Hold, MaxDrop, \* 160 and 240: frame drop requests
  Gaps          \* times that may pass between passes

PaceAssumption ==
  /\ {Long, Short, Starved, Slow, Slower, Limit, Fast, Credit, Hold, MaxDrop} \subseteq Nat
  /\ Short <= Long /\ Fast <= Credit /\ Slow <= Slower /\ Hold <= MaxDrop
  /\ Gaps \subseteq Nat

VARIABLES
  pace,  \* main_tdrift, main_fdrop, main_frc modulo 4, main_tfrac
  drawn  \* whether the last frame was drawn

vars == <<pace, drawn>>

Init == pace = [drift |-> 0, fdrop |-> 0, frc |-> 0, tfrac |-> 0] /\ drawn = TRUE

\* The drift of a pass, tdif after the one that last ran a frame.
Drifted(p, tdif) ==
  IF tdif > Starved THEN 0
  ELSE p.drift + (IF p.tfrac >= 2 THEN Short ELSE Long) - tdif

Kept(d) == IF d < -Limit THEN -Limit ELSE IF d > Credit THEN Credit ELSE d

\* Frame drop requests after a pass with drift d.
Requests(f, d) ==
  LET held == IF d < -Slower /\ f < Hold THEN Hold ELSE f
  IN IF d < -Slow THEN (IF held < MaxDrop THEN held + 1 ELSE held)
     ELSE IF d >= 0 /\ f # 0 THEN f - 1 ELSE f

\* The pass is wasted; nothing of it is kept.
Wastes(p, tdif, nolimit) == Drifted(p, tdif) > Fast /\ ~nolimit

\* The frame of the pass is not drawn.
Drops(p, tdif) == Requests(p.fdrop, Drifted(p, tdif)) # 0 /\ p.frc % 2 = 1

\* Every fourth frame forgets some of the drift.
Tolerated(d) == IF d < 0 THEN d + 1 ELSE IF d > 0 THEN d - 1 ELSE 0

Paced(p, tdif) ==
  LET d   == Kept(Drifted(p, tdif))
      frc == (p.frc + 1) % 4
  IN [drift |-> IF frc = 0 THEN Tolerated(d) ELSE d,
      fdrop |-> Requests(p.fdrop, Drifted(p, tdif)),
      frc   |-> frc,
      tfrac |-> IF p.tfrac >= 2 THEN 0 ELSE p.tfrac + 1]

\* A pass of the loop, tdif after the last one that ran a frame.
Pass(tdif, nolimit) ==
  /\ ~Wastes(pace, tdif, nolimit)
  /\ pace' = Paced(pace, tdif)
  /\ drawn' = ~Drops(pace, tdif)

WastedPass(tdif, nolimit) == Wastes(pace, tdif, nolimit) /\ UNCHANGED vars

Next == \E tdif \in Gaps, nolimit \in BOOLEAN : Pass(tdif, nolimit) \/ WastedPass(tdif, nolimit)

Spec == Init /\ [][Next]_vars
-----------------------------------------------------------------------------
\* What is kept of the drift and of the requests stays in its limits: nothing
\* accumulates, and the unsigned difference never wraps (main.c:161).
InRange ==
  /\ pace \in [drift : -Limit .. Credit, fdrop : 0 .. MaxDrop, frc : 0 .. 3, tfrac : 0 .. 2]
  /\ drawn \in BOOLEAN

\* A frame that is not drawn comes after one that is (main.c:184).
NoTwoUndrawn == [][drawn \/ drawn']_vars
=============================================================================
