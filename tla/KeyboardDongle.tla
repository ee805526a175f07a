--------------------------- MODULE KeyboardDongle ---------------------------
(***************************************************************************)
(* The Uzebox keyboard dongle (cu_kbd.c): keys of the host become scan     *)
(* codes in a queue, which the emulated program clocks out of the second   *)
(* controller port bit by bit. The operators work on the component's       *)
(* record of state.                                                        *)
(*                                                                         *)
(* Scan codes are reduced to three: the prefixes and one code. A queued    *)
(* byte is tagged with whether a key's release put it there.               *)
(*                                                                         *)
(* Definitions named Fault... are faulty variants of the definition after  *)
(* them; no specification uses them. Each breaks one of the properties.    *)
(***************************************************************************)
EXTENDS Integers, Sequences

CONSTANTS
  QueueSize,  \* 512
  Width,      \* 8: bits of a byte
  Scan,       \* keys with a code of one byte: cu_kbd_scan_codes
  Extended    \* keys with an extended code: cu_kbd_ext_codes

ASSUME DongleAssumption ==
  /\ QueueSize \in Nat /\ QueueSize > 3
  /\ Width \in Nat /\ Width > 1
  /\ Scan \cap Extended = {}

\* A byte is its bits, the highest one first.
Byte  == [1 .. Width -> {0, 1}]
Break == [n \in 1 .. Width |-> 1]          \* 0xF0
Ext   == [Break EXCEPT ![Width] = 0]       \* 0xE0
Empty == [n \in 1 .. Width |-> 0]
Code  == [Empty EXCEPT ![Width] = 1]

Off == [state |-> "stop", clock |-> 0, din |-> Empty, tag |-> FALSE, dout |-> 0, on |-> FALSE,
        bypassed |-> 0, lctrl |-> FALSE, in |-> 0, queue |-> <<>>]

Push(k, b, up) ==
  [k EXCEPT !.in = @ + 1, !.queue = Append(@, [byte |-> b, up |-> up])]

\* What is left of a key without a code.
Special(k, key, up) ==
  CASE up /\ key = "LCTRL" -> [k EXCEPT !.lctrl = FALSE]
    [] ~up /\ key = "LCTRL" -> [k EXCEPT !.lctrl = TRUE]
    [] ~up /\ key = "F1" /\ k.lctrl -> [k EXCEPT !.on = ~@, !.bypassed = 255]
    [] OTHER -> k

FaultHandleKey(k, key, up) ==
  LET k0 == IF k.queue = <<>> THEN [k EXCEPT !.in = 0] ELSE k
      k1 == IF up /\ k0.in < QueueSize - 2 THEN Push(k0, Break, up) ELSE k0
  IN CASE key \in Scan -> Push(k1, Code, up)
       [] key \in Extended -> Push(Push(k1, Ext, up), Code, up)
       [] OTHER -> Special(k1, key, up)

\* cu_kbd_handle_key.
HandleKey(k, key, up) ==
  LET k0 == IF k.queue = <<>> THEN [k EXCEPT !.in = 0] ELSE k
      k1 == IF up /\ k0.in < QueueSize - 2 THEN Push(k0, Break, up) ELSE k0
  IN CASE k1.in > QueueSize - 2 -> k1
       [] k1.in <= QueueSize - 2 /\ key \in Scan -> Push(k1, Code, up)
       [] k1.in <= QueueSize - 2 /\ key \in Extended -> Push(Push(k1, Ext, up), Code, up)
       [] OTHER -> Special(k1, key, up)

\* Ctrl+F6 changes the mouse, too.
AdjustsMouse(k, key, up) == ~up /\ key = "F6" /\ k.lctrl /\ k.in <= QueueSize - 2
-----------------------------------------------------------------------------
(* The program's side: prev and curr are the pins driven high before and   *)
(* after a write, out of "latch" and "clock".                              *)

FaultFetch(k) ==
  IF k.queue = <<>> THEN [k EXCEPT !.din = Empty, !.tag = FALSE]
  ELSE [k EXCEPT !.din = Head(k.queue).byte, !.tag = Head(k.queue).up,
                 !.queue = Tail(@), !.in = IF Len(k.queue) = 1 THEN 0 ELSE @]

\* The next byte; a queue filled to its limit is thrown away.
Fetch(k) ==
  CASE k.queue = <<>> -> [k EXCEPT !.din = Empty, !.tag = FALSE]
    [] k.queue # <<>> /\ k.in < QueueSize - 1 ->
         [k EXCEPT !.din = Head(k.queue).byte, !.tag = Head(k.queue).up,
                   !.queue = Tail(@), !.in = IF Len(k.queue) = 1 THEN 0 ELSE @]
    [] OTHER -> [k EXCEPT !.queue = <<>>, !.in = 0]

Fell(prev, curr) == "clock" \in prev /\ "clock" \notin curr

\* The next bit comes to the top.
Shifted(byte) == [n \in 1 .. Width |-> IF n = Width THEN 0 ELSE byte[n + 1]]

\* One clock: a bit each way; the dongle stops after KBD_SEND_END (1).
Clocked(k, curr) ==
  LET f == IF k.clock = Width THEN [Fetch(k) EXCEPT !.dout = 0] ELSE k
      s == [f EXCEPT !.dout = 2 * @ + (IF "latch" \in curr THEN 1 ELSE 0),
                     !.din = Shifted(@), !.clock = @ - 1]
  IN CASE s.clock # 0 -> s
       [] s.clock = 0 /\ s.dout = 1 -> [s EXCEPT !.state = "stop"]
       [] OTHER -> [s EXCEPT !.clock = Width]

\* The bit the program sees after that clock.
Presented(k) == (IF k.clock = Width THEN Fetch(k) ELSE k).din[1]

\* cu_kbd_process.
Process(k, prev, curr) ==
  CASE k.bypassed # 0 -> k
    [] k.bypassed = 0 /\ k.state = "stop" ->
         IF curr = {"latch"} THEN [k EXCEPT !.state = "start", !.on = TRUE] ELSE k
    [] k.bypassed = 0 /\ k.state = "start" ->
         IF curr = {"clock"} THEN [k EXCEPT !.state = "ready", !.clock = Width] ELSE k
    [] OTHER -> IF Fell(prev, curr) THEN Clocked(k, curr) ELSE k

Talks(k, prev, curr) == k.bypassed = 0 /\ k.state = "ready" /\ Fell(prev, curr)
=============================================================================
