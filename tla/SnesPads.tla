------------------------------ MODULE SnesPads ------------------------------
(***************************************************************************)
(* The two SNES controllers (cu_ctr.c): buttons set by the host, latched   *)
(* and shifted out by pins that the emulated program drives. Buttons are   *)
(* sets of names, a latch is what was pressed and how often it has been    *)
(* shifted. The operators work on the component's record of state.         *)
(*                                                                         *)
(* Definitions named Fault... are faulty variants of the definition after  *)
(* them; no specification uses them. Each breaks one of the properties.    *)
(***************************************************************************)
EXTENDS Integers, Sequences, FiniteSets

CONSTANT Order  \* <<"B", "Y", "SELECT", "START", "UP", "DOWN", "LEFT", "RIGHT",
                \* "A", "X", "LSH", "RSH">>: buttons in the order of the shifts

Player == {0, 1}
Dir    == {"LEFT", "RIGHT", "UP", "DOWN"}
Button == Dir \cup {"B", "Y", "SELECT", "START", "A", "X", "LSH", "RSH"}

ASSUME OrderAssumption == Order \in Seq(Button) /\ Len(Order) <= 32

\* cu_ctr_reset: nothing pressed, latches that read as such for ever.
Released == [pressed |-> [p \in Player |-> {}],
             latch   |-> [p \in Player |-> [set |-> {}, n |-> 0]]]

FaultFiltered(set) == set \ (IF {"UP", "DOWN"} \subseteq set THEN {"DOWN"} ELSE {})

\* Impossible combinations: one of the two directions stays.
Filtered(set) == set \ ((IF {"UP", "DOWN"} \subseteq set THEN {"DOWN"} ELSE {})
                        \cup (IF {"LEFT", "RIGHT"} \subseteq set THEN {"RIGHT"} ELSE {}))

SetSingle(c, p, b, on) ==
  [c EXCEPT !.pressed[p] = IF on THEN @ \cup {b} ELSE @ \ {b}]

\* The data bit: buttons are low active, the shifts move zeros in.
Bit(l) == IF l.n >= 32 THEN 0
          ELSE IF l.n < Len(Order) /\ Order[l.n + 1] \in l.set THEN 0 ELSE 1

\* The ports that are served as controllers: the keyboard takes the second
\* one, the mouse the first one.
Served(kbd, mouse) == (IF mouse THEN {} ELSE {0}) \cup (IF kbd THEN {} ELSE {1})

\* cu_ctr_process: only a write that makes a single pin go high latches or
\* shifts.
Clocking(c, rise, kbd, mouse) ==
  [c EXCEPT !.latch = [p \in Player |->
     CASE p \notin Served(kbd, mouse) -> @[p]
       [] p \in Served(kbd, mouse) /\ rise = {"latch"} ->
            [set |-> Filtered(c.pressed[p]), n |-> 0]
       [] p \in Served(kbd, mouse) /\ rise = {"clock"} ->
            [@[p] EXCEPT !.n = @ + 1]
       [] OTHER -> @[p]]]

\* The data bits returned, from before the write. With keyboard and mouse
\* nothing is assigned to them: they are any.
Data(c, kbd, mouse) ==
  IF kbd /\ mouse THEN [Player -> {0, 1}]
  ELSE {[p \in Player |-> IF p \in Served(kbd, mouse) THEN Bit(c.latch[p]) ELSE 0]}
=============================================================================
