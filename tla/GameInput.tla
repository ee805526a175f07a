----------------------------- MODULE GameInput -----------------------------
(***************************************************************************)
(* The way of a player's input (ginput.c and the events of main.c): events *)
(* of keys, game controllers and the mouse go to the keyboard dongle or to *)
(* the two SNES controllers, by modes that keys and the emulated program   *)
(* switch; the program reads both by writing the pins of port A.           *)
(*                                                                         *)
(* Definitions named Fault... are faulty variants of the definition after  *)
(* them; no specification uses them. Each breaks one of the properties.    *)
(***************************************************************************)
EXTENDS SnesPads, KeyboardDongle

CONSTANTS
  Keys,      \* keys that are used
  Buttons,   \* buttons of game controllers that are used
  Axes,      \* axes of game controllers that are used: "X" and "Y"
  Attached,  \* game controllers found at the start
  Pins,      \* sets of pins of port A that the program drives high
  Events,    \* bound: events of a behaviour
  Clocks,    \* bound: clocks between two latches
  Scales     \* 6: mouse scales, the last one switches it off

ASSUME InputAssumption ==
  /\ Pins \subseteq SUBSET {"latch", "clock"}
  /\ Axes \subseteq {"X", "Y"}
  /\ Attached \subseteq {0, 1} /\ (1 \in Attached => 0 \in Attached)
  /\ Events \in Nat /\ Clocks \in 1 .. 31 /\ Scales \in Nat \ {0, 1}

VARIABLES
  pads,    \* the SNES controllers
  kbd,     \* the keyboard dongle
  gi,      \* ginput's own state
  mouse,   \* whether the mouse is on, and its scale
  pins,    \* pins of port A driven high, of "latch" and "clock"
  exit,    \* main_exit
  \* History:
  events,  \* events so far
  held,    \* what the player holds: keys, controller buttons, directions
  clean,   \* no mode has changed while something was held
  read,    \* per port what the latch took and the bits read since
  heard    \* the dongle's byte in transfer, and whether a Break precedes it

inputVars == <<pads, kbd, gi, mouse, pins, exit, events, held, clean, read, heard>>

Unread == [took |-> {}, bits |-> <<>>, valid |-> FALSE]

InputInit ==
  /\ pads = Released /\ kbd = Off
  /\ gi = [uzem |-> FALSE, p2keys |-> {}, palloc |-> Attached = {0, 1},
           dig |-> [p \in Player |-> {}], ana |-> [p \in Player |-> {}]]
  /\ mouse = [on |-> FALSE, scale |-> 0]
  /\ pins = {} /\ exit = FALSE
  /\ events = 0 /\ held = {} /\ clean = TRUE
  /\ read = [p \in Player |-> Unread]
  /\ heard = [bits |-> <<>>, broken |-> FALSE, false |-> FALSE]
-----------------------------------------------------------------------------
(* Keys and controllers to buttons (ginput.c).                             *)

\* The button of a key; keymaps differ for the letters.
KeyMap(uzem) ==
  IF uzem
    THEN [a |-> "A", s |-> "B", y |-> "Y", z |-> "Y", x |-> "X", SPACE |-> "SELECT",
          TAB |-> "SELECT", RETURN |-> "START", LSHIFT |-> "LSH", RSHIFT |-> "RSH"]
    ELSE [q |-> "Y", w |-> "X", a |-> "B", s |-> "A", SPACE |-> "SELECT",
          TAB |-> "SELECT", RETURN |-> "START", LSHIFT |-> "LSH", RSHIFT |-> "RSH"]

\* The button of a controller's: X and Y, A and B change places.
PadMap ==
  [Y |-> "X", X |-> "Y", B |-> "A", A |-> "B", BACK |-> "SELECT", GUIDE |-> "SELECT",
   START |-> "START", LSHOULDER |-> "LSH", RSHOULDER |-> "RSH"]

Axis == [X |-> <<"LEFT", "RIGHT">>, Y |-> <<"UP", "DOWN">>]

\* The player keys go to, and the one a controller goes to.
KeyPlayer(g) == IF g.p2keys # {} THEN 1 ELSE 0

PlayerOf(pad) ==
  CASE ~gi.palloc -> 0
    [] gi.palloc /\ 1 \notin Attached -> 1
    [] OTHER -> pad

SetDig(g, p, d, on) == [g EXCEPT !.dig[p] = IF on THEN @ \cup {d} ELSE @ \ {d}]

\* The end of every event: directions of the ports that are controllers.
Directed(c, g, k, m) ==
  [c EXCEPT !.pressed = [p \in Player |->
     IF p \in Served(k, m) THEN (@[p] \ Dir) \cup g.dig[p] \cup g.ana[p] ELSE @[p]]]

\* A key while the dongle does not take them.
KeyedGi(key, up) ==
  CASE key \in {"RALT", "LALT"} ->
         [gi EXCEPT !.p2keys = IF up THEN @ \ {key} ELSE @ \cup {key}]
    [] key \in Dir -> SetDig(gi, KeyPlayer(gi), key, ~up)
    [] OTHER -> gi

KeyedPads(key, up) ==
  IF key \in DOMAIN KeyMap(gi.uzem)
  THEN SetSingle(pads, KeyPlayer(gi), KeyMap(gi.uzem)[key], ~up) ELSE pads

\* cu_adjust_mouse_scale, and F6 in main.
Adjusted(m) ==
  CASE m.scale + 1 = 1 -> [on |-> TRUE, scale |-> 1]
    [] m.scale + 1 = Scales -> [on |-> FALSE, scale |-> 0]
    [] OTHER -> [m EXCEPT !.scale = @ + 1]
-----------------------------------------------------------------------------
(* Events. After ginput_sendevent with the state k, g, m of its end, main  *)
(* looks at the event, too, unless the dongle takes the keys.              *)

MainSees(k) == ~k.on /\ k.bypassed # 255

Uneaten(k) == IF ~k.on /\ k.bypassed = 255 THEN [k EXCEPT !.bypassed = 1] ELSE k

\* Modes that change what a held thing means: a release may not reach what
\* the press set.
Modes(k, g, m) == <<k.on, g.uzem, g.palloc, g.p2keys # {}, m.on>>

\* What every event leaves behind, with nothing of main's.
Handled(c, k, g, m, h) ==
  /\ events < Events /\ ~exit
  /\ events' = events + 1
  /\ pads' = Directed(c, g, k.on, m.on)
  /\ held' = h
  /\ UNCHANGED <<pins, read, heard>>

\* Nothing was held but the ALT keys, which are modes themselves.
Cleaner(h) ==
  clean' = (clean /\ (Modes(kbd', gi', mouse') = Modes(kbd, gi, mouse)
                      \/ h \cap (held \ {<<"key", a>> : a \in {"RALT", "LALT"}}) = {}))

Key(key, up) ==
  LET k == IF kbd.on THEN HandleKey(kbd, key, up) ELSE kbd
      g == IF kbd.on THEN gi ELSE KeyedGi(key, up)
      c == IF kbd.on THEN pads ELSE KeyedPads(key, up)
      m == IF kbd.on /\ AdjustsMouse(kbd, key, up) THEN Adjusted(mouse) ELSE mouse
      h == IF up THEN held \ {<<"key", key>>} ELSE held \cup {<<"key", key>>}
      seen == ~up /\ MainSees(k)
  IN /\ up => <<"key", key>> \in held
     /\ Handled(c, k, g, m, h)
     /\ kbd' = IF seen /\ key = "F1" THEN [k EXCEPT !.bypassed = 0] ELSE Uneaten(k)
     /\ gi' = [g EXCEPT !.uzem = IF seen /\ key = "F8" THEN ~@ ELSE @,
                        !.palloc = IF seen /\ key = "F12" THEN ~@ ELSE @]
     /\ mouse' = IF seen /\ key = "F6" THEN Adjusted(m) ELSE m
     /\ exit' = (seen /\ key = "ESCAPE")
     /\ Cleaner(h)

\* Player 2's controller is not heard while the keyboard is on its port.
Heeded(p) == ~kbd.on \/ p # 1

PadButton(pad, b, up) ==
  LET p == PlayerOf(pad)
      h == IF up THEN held \ {<<"pad", pad, b>>} ELSE held \cup {<<"pad", pad, b>>}
      g == IF Heeded(p) /\ b \in Dir THEN SetDig(gi, p, b, ~up) ELSE gi
      c == IF Heeded(p) /\ b \in DOMAIN PadMap THEN SetSingle(pads, p, PadMap[b], ~up)
           ELSE pads
  IN /\ up <=> <<"pad", pad, b>> \in held
     /\ Handled(c, kbd, g, mouse, h)
     /\ gi' = g /\ kbd' = Uneaten(kbd)
     /\ UNCHANGED <<mouse, exit, clean>>

FaultDeflected(set, axis, to) ==
  IF to = 0 THEN set \ {Axis[axis][n] : n \in {1, 2}} ELSE set \cup {Axis[axis][to]}

\* The axis' two directions after a motion to the first, the second or none.
Deflected(set, axis, to) ==
  (set \ {Axis[axis][n] : n \in {1, 2}}) \cup (IF to = 0 THEN {} ELSE {Axis[axis][to]})

Motion(pad, axis, to) ==
  LET p == PlayerOf(pad)
      off == held \ {<<"axis", pad, axis, n>> : n \in {1, 2}}
      h == IF to = 0 THEN off ELSE off \cup {<<"axis", pad, axis, to>>}
      g == IF Heeded(p) THEN [gi EXCEPT !.ana[p] = Deflected(@, axis, to)] ELSE gi
  IN /\ Handled(pads, kbd, g, mouse, h)
     /\ h # held
     /\ gi' = g /\ kbd' = Uneaten(kbd)
     /\ UNCHANGED <<mouse, exit, clean>>

\* Any other event: the directions are set, too; quitting leaves the loop.
Other(quit) ==
  /\ Handled(pads, kbd, gi, mouse, held)
  /\ kbd' = Uneaten(kbd)
  /\ exit' = quit
  /\ UNCHANGED <<gi, mouse, clean>>
-----------------------------------------------------------------------------
(* The program writes port A.                                              *)

\* A program that moves one pin at a time gets one button per clock: it
\* reads after the clock has gone low.
Reading(p, curr, bit) ==
  LET r == read[p]
      one == Cardinality((pins \ curr) \cup (curr \ pins)) = 1
      here == p \in Served(kbd.on, mouse.on) /\ one
  IN CASE here /\ curr = pins \cup {"latch"} /\ "clock" \in curr ->
            [took |-> pads.pressed[p], bits |-> <<>>, valid |-> TRUE]
       [] here /\ curr = pins \ {"clock"} /\ r.valid -> [r EXCEPT !.bits = Append(@, bit)]
       [] here /\ r.valid /\ curr \in {pins \ {"latch"}, pins \cup {"clock"}} -> r
       [] OTHER -> Unread

\* The program's decoder: a Break makes the code after it a release.
Decoded(curr, k) ==
  LET byte == Append(heard.bits, Presented(kbd))
  IN CASE ~Talks(kbd, pins, curr) -> heard
       [] Talks(kbd, pins, curr) /\ k.state = "ready" /\ k.clock # Width ->
            [heard EXCEPT !.bits = byte]
       [] OTHER -> [bits |-> <<>>,
                    broken |-> byte = Break \/ (heard.broken /\ byte # Code),
                    false |-> byte = Code /\ k.tag /\ ~heard.broken]

WritePins(curr) ==
  LET k == Process(kbd, pins, curr)
  IN \E d \in Data(pads, kbd.on, mouse.on) :
       /\ ~exit /\ curr # pins
       /\ "clock" \in curr \ pins => \A p \in Player : pads.latch[p].n < Clocks
       /\ pads' = Clocking(pads, curr \ pins, kbd.on, mouse.on)
       /\ kbd' = k
       /\ pins' = curr
       /\ read' = [p \in Player |-> Reading(p, curr, d[p])]
       /\ heard' = Decoded(curr, k)
       /\ clean' = (clean /\ (k.on = kbd.on \/ held = {}))
       /\ UNCHANGED <<gi, mouse, exit, events, held>>

InputNext ==
  \/ \E key \in Keys, up \in BOOLEAN : Key(key, up)
  \/ \E pad \in Attached, b \in Buttons, up \in BOOLEAN : PadButton(pad, b, up)
  \/ \E pad \in Attached, axis \in Axes, to \in 0 .. 2 : Motion(pad, axis, to)
  \/ \E quit \in BOOLEAN : Other(quit)
  \/ \E curr \in Pins : WritePins(curr)

InputSpec == InputInit /\ [][InputNext]_inputVars
-----------------------------------------------------------------------------
(* Properties.                                                             *)

\* Every part of the state has its type: the dongle's queue its room, a latch no
\* more clocks than the program gives, the mouse a scale exactly while it is on.
InputTypeOK ==
  /\ pads.pressed \in [Player -> SUBSET Button]
  /\ \A p \in Player : pads.latch[p].set \subseteq Button /\ pads.latch[p].n \in 0 .. Clocks
  /\ kbd.state \in {"stop", "start", "ready"} /\ kbd.bypassed \in {0, 1, 255}
  /\ kbd.clock \in 0 .. Width /\ kbd.in \in Len(kbd.queue) .. QueueSize
  /\ gi.p2keys \subseteq {"RALT", "LALT"}
  /\ gi.dig \in [Player -> SUBSET Dir] /\ gi.ana \in [Player -> SUBSET Dir]
  /\ mouse.on = (mouse.scale # 0) /\ mouse.scale \in 0 .. Scales - 1
  /\ pins \subseteq {"latch", "clock"} /\ events \in 0 .. Events

\* What the program takes for a key press (a code with no Break before it) is
\* one: of a release that found no room for its prefix in the queue nothing
\* reaches the program (cu_kbd.c:141). The opposite does happen: the
\* release of a key without a code leaves a Break for the next key.
NoFalsePress == ~heard.false

\* What of the held things presses button b of port p.
Presses(h, p, b) ==
  CASE h[1] = "key" /\ h[2] \in Dir -> KeyPlayer(gi) = p /\ h[2] = b
    [] h[1] = "key" /\ h[2] \in DOMAIN KeyMap(gi.uzem) ->
         KeyPlayer(gi) = p /\ KeyMap(gi.uzem)[h[2]] = b
    [] h[1] = "pad" /\ h[3] \in Dir -> PlayerOf(h[2]) = p /\ b = h[3]
    [] h[1] = "pad" /\ h[3] \in DOMAIN PadMap ->
         PlayerOf(h[2]) = p /\ b = PadMap[h[3]]
    [] h[1] = "axis" -> PlayerOf(h[2]) = p /\ b = Axis[h[3]][h[4]]
    [] OTHER -> FALSE

\* A button is pressed only while the player holds something that presses it,
\* as long as no mode was switched with something held: then a release is
\* taken for another button or port than the press (ginput.c:266).
NoStuckButtons ==
  clean => \A p \in Player : \A b \in pads.pressed[p] : \E h \in held : Presses(h, p, b)

Opposite == [UP |-> "DOWN", DOWN |-> "UP", LEFT |-> "RIGHT", RIGHT |-> "LEFT"]

\* A program that moves one pin at a time reads, one button per clock, what was
\* pressed at the latch, whatever is pressed and released meanwhile; only of
\* two opposite directions one is missing (cu_ctr.c:60).
ReadsTheLatch ==
  \A p \in Player : read[p].valid =>
    LET r == read[p]
        seen == {Order[n] : n \in {i \in DOMAIN Order \cap DOMAIN r.bits : r.bits[i] = 0}}
        passed == {Order[n] : n \in DOMAIN Order \cap DOMAIN r.bits}
    IN /\ seen \subseteq r.took
       /\ \A b \in (r.took \cap passed) \ seen : b \in Dir /\ Opposite[b] \in r.took
       /\ \A b \in seen \cap Dir : Opposite[b] \notin seen
=============================================================================
