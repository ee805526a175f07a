---------------------------- MODULE MCGameInput ----------------------------
(***************************************************************************)
(* Instance of GameInput for TLC: scan codes of two bits, a queue of four  *)
(* bytes, a few keys of every kind, two game controllers.                  *)
(***************************************************************************)
EXTENDS GameInput

MCScan == {"a", "SPACE", "LCTRL"}
MCExtended == {"LEFT", "RIGHT", "UP"}
MCAttached == {0, 1}
MCOrder == <<"B", "LEFT", "RIGHT", "A">>
MCAllPins == SUBSET {"latch", "clock"}

\* Ctrl and F1 leave the keyboard: "toggle keyboard, so emulator controls and
\* gamepads can be used again" (cu_kbd.c:174). It is not so: the left Ctrl has
\* a scan code, so that the code that would note it is not reached.
CtrlF1Leaves ==
  [][kbd.on /\ clean /\ <<"key", "LCTRL">> \in held
     /\ <<"key", "F1">> \in held' \ held => ~kbd'.on]_inputVars
=============================================================================
