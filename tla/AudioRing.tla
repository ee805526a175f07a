----------------------------- MODULE AudioRing -----------------------------
(***************************************************************************)
(* The sound output (audio.c): a ring that the main thread appends frames  *)
(* of samples to (audio_sendframe) and that the callback of SDL's audio    *)
(* thread plays from (audio_callback). Neither takes a lock. The pointers  *)
(* are plain variables: a build may hold them in registers in a loop, so   *)
(* "held" says, for each side, whether its pointer is stored with every    *)
(* sample or at the end (and, in the callback, whether the other side's    *)
(* pointer is read again for each sample).                                 *)
(*                                                                         *)
(* A sample is its number, in the order they are sent; 0 is silence. Of    *)
(* the frequency control only the step is kept (xinc), any number: one of  *)
(* Period or more, too, moves the read pointer by one slot. The fraction   *)
(* counts to Period instead of 2^17.                                       *)
(*                                                                         *)
(* Definitions named Fault... are faulty variants of the definition after  *)
(* them; no specification uses them. Each breaks one of the properties.    *)
(***************************************************************************)
EXTENDS Integers, Sequences

CONSTANTS
  Size,     \* AUDIO_BUF_SIZE
  Fill,     \* AUDIO_FILL: silence the device starts with
  Frame,    \* samples of a frame
  OutLen,   \* samples the device asks for
  Period,   \* 2^AUDIO_INC_W
  Step,     \* values of xinc
  MaxSent   \* bound: samples sent

ASSUME AudioAssumption ==
  /\ Size \in Nat /\ Frame \in 1 .. Size - 1 /\ Fill \in 1 .. Size - 1
  /\ OutLen \in Nat \ {0} /\ Period \in Nat \ {0}
  /\ Step \subseteq Nat /\ MaxSent \in Nat

VARIABLES
  buf, r, w, \* audio_buf, audio_buf_r, audio_buf_w
  frac,      \* audio_frac
  frun,      \* audio_frun
  paused,    \* the device does not ask for sound yet
  held,      \* [main, cb |-> BOOLEAN]: the build
  main,      \* the main thread in audio_sendframe
  cb,        \* the audio thread in audio_callback
  sent,      \* history: samples sent
  out        \* history: the last sample played other than silence

vars == <<buf, r, w, frac, frun, paused, held, main, cb, sent, out>>
-----------------------------------------------------------------------------
Slot  == 0 .. Size - 1
Ahead(i, n) == (i + n) % Size
FaultAdvance(i) == i + 1

Advance(i)  == Ahead(i, 1)
Used(a, b)  == (b - a) % Size  \* samples from a up to b

Resting == [pc |-> "idle", left |-> 0, w |-> 0]
Silent  == [pc |-> "idle", left |-> 0, r |-> 0, w |-> 0, xinc |-> 0,
            busy |-> FALSE]

\* audio_init: the statics are zero, the device is paused.
Init ==
  /\ buf = [i \in Slot |-> 0] /\ r = 0 /\ w = 0 /\ frac = 0
  /\ frun = TRUE /\ paused = TRUE
  /\ held \in [main : BOOLEAN, cb : BOOLEAN]
  /\ main = Resting /\ cb = Silent
  /\ sent = 0 /\ out = 0

\* audio_reset, once, before the main loop.
Reset ==
  /\ paused /\ paused' = FALSE /\ frun' = TRUE
  /\ UNCHANGED <<buf, r, w, frac, held, main, cb, sent, out>>
-----------------------------------------------------------------------------
(* The main thread: audio_sendframe.                                       *)

FaultRoom == Used(w, r) = 0 \/ Used(w, r) >= Frame - 1

\* "Buffer full" is left out when nothing is free at all: full and empty
\* look alike.
Room == Used(w, r) = 0 \/ Used(w, r) >= Frame

\* A callback is much shorter than a frame: it meets one at most.
Begin ==
  /\ ~paused /\ main.pc = "idle" /\ sent + Frame <= MaxSent
  /\ ~cb.busy /\ cb.pc \notin {"start", "clear"}
  /\ IF Room THEN main' = [pc |-> "write", left |-> Frame, w |-> w]
             ELSE UNCHANGED main
  /\ sent' = IF Room THEN sent ELSE sent + Frame  \* a frame not taken
  /\ cb' = [cb EXCEPT !.busy = @ \/ cb.pc # "idle"]
  /\ UNCHANGED <<buf, r, w, frac, frun, paused, held, out>>

Write ==
  /\ main.pc = "write"
  /\ LET at == IF held.main THEN main.w ELSE w IN
     /\ buf' = [buf EXCEPT ![at] = sent + 1]
     /\ main' = [main EXCEPT !.w = Advance(at), !.left = @ - 1,
                             !.pc = IF held.main /\ main.left > 1
                                    THEN "write" ELSE "store"]
  /\ sent' = sent + 1
  /\ UNCHANGED <<r, w, frac, frun, paused, held, cb, out>>

Store ==
  /\ main.pc = "store"
  /\ w' = main.w
  /\ main' = IF main.left = 0 THEN Resting ELSE [main EXCEPT !.pc = "write"]
  /\ UNCHANGED <<buf, r, frac, frun, paused, held, cb, sent, out>>
-----------------------------------------------------------------------------
(* The audio thread: audio_callback.                                       *)

\* The first one, which sets the pointers, does not meet a frame half sent.
Call ==
  /\ ~paused /\ cb.pc = "idle" /\ (frun => main.pc = "idle")
  /\ \E x \in Step :
       cb' = [cb EXCEPT !.pc = IF frun THEN "start" ELSE "play",
                        !.left = OutLen, !.r = r, !.w = w, !.xinc = x,
                        !.busy = main.pc # "idle"]
  /\ UNCHANGED <<buf, r, w, frac, frun, paused, held, main, sent, out>>

\* The first run: the pointers, then the silence.
Start ==
  /\ cb.pc = "start"
  /\ r' = 0 /\ w' = Fill /\ frac' = 0
  /\ cb' = [cb EXCEPT !.pc = "clear", !.r = 0, !.w = Fill]
  /\ UNCHANGED <<buf, frun, paused, held, main, sent, out>>

Clear ==
  /\ cb.pc = "clear"
  /\ buf' = [i \in Slot |-> 0] /\ frun' = FALSE
  /\ cb' = [cb EXCEPT !.pc = "play"]
  /\ UNCHANGED <<r, w, frac, paused, held, main, sent, out>>

FaultFraction(x) == LET f == (IF cb.left = OutLen THEN 0 ELSE frac) + x IN
  [over |-> f >= Period, rest |-> f % Period]

Fraction(x) == LET f == frac + x IN [over |-> f >= Period, rest |-> f % Period]

\* One sample of the output loop.
Play ==
  /\ cb.pc = "play"
  /\ LET at    == IF held.cb THEN cb.r ELSE r
         limit == IF held.cb THEN cb.w ELSE w
         f     == Fraction(cb.xinc)
         empty == at = limit
         next  == IF ~empty /\ f.over THEN Advance(at) ELSE at
     IN /\ LET s == buf[IF empty THEN Ahead(at, Size - 1) ELSE at]
           IN out' = IF s = 0 THEN out ELSE s
        /\ frac' = IF empty THEN frac ELSE f.rest
        /\ r' = IF held.cb /\ cb.left > 1 THEN r ELSE next
        /\ cb' = IF cb.left > 1
                 THEN [cb EXCEPT !.left = @ - 1, !.r = next]
                 ELSE Silent
  /\ UNCHANGED <<buf, w, frun, paused, held, main, sent>>
-----------------------------------------------------------------------------
Main     == Begin \/ Write \/ Store
Callback == Call \/ Start \/ Clear \/ Play
Next == Reset \/ Main \/ Callback

\* SDL asks for sound again and again; the main thread finishes a frame it
\* has begun, and need not send another.
Fairness == /\ WF_vars(Callback) /\ WF_vars(Write \/ Store) /\ WF_vars(Reset)

Spec == Init /\ [][Next]_vars /\ Fairness
-----------------------------------------------------------------------------
TypeOK ==
  /\ buf \in [Slot -> 0 .. MaxSent] /\ r \in Slot /\ w \in Slot
  /\ frac \in 0 .. Period - 1
  /\ frun \in BOOLEAN /\ paused \in BOOLEAN
  /\ held \in [main : BOOLEAN, cb : BOOLEAN]
  /\ main \in [pc : {"idle", "write", "store"}, left : 0 .. Frame, w : Slot]
  /\ cb \in [pc : {"idle", "start", "clear", "play"}, left : 0 .. OutLen,
             r : Slot, w : Slot, xinc : Nat, busy : BOOLEAN]
  /\ sent \in 0 .. MaxSent /\ out \in 0 .. MaxSent

\* The samples that wait, seen from the callback.
\* A callback that holds the pointers does not see a ring just filled up as
\* an empty one.
Holds   == held.cb /\ cb.pc = "play"
Reader  == IF Holds THEN cb.r ELSE r
Count   == IF Holds /\ cb.r = w /\ cb.w # w THEN Size ELSE Used(Reader, w)
Waiting == [i \in 1 .. Count |-> buf[Ahead(Reader, i - 1)]]

\* The part of a frame that is written but not yet handed over with w.
Unstored == IF main.pc = "idle" THEN 0
            ELSE IF held.main THEN Frame - main.left
            ELSE IF main.pc = "store" THEN 1 ELSE 0

SQ == INSTANCE SampleQueue WITH
  Capacity <- Size,
  Chunk    <- OutLen,
  queue    <- IF frun THEN <<>> ELSE Waiting,
  newest   <- IF frun THEN 0 ELSE sent - Unstored,
  taken    <- IF frun THEN 0 ELSE buf[Ahead(w, Size - 1)],
  heard    <- out,
  starting <- frun

\* The ring is a queue of samples: those between the pointers are the ones
\* not yet played, in the order they were sent and with no gap but frames
\* dropped whole, whatever the two threads do to the pointers. Samples taken
\* are lost only when the device starts and when the end of a frame fills the
\* ring to the last slot (audio.c:109-210, 348-367).
ImplementsSampleQueue == SQ!Spec

\* A sample that waits in the ring is played, or one sent after it
\* (audio.c:192-203: the fraction carried from callback to callback moves
\* the read pointer on, however small the step).
WaitingIsHeard ==
  \A n \in 1 .. MaxSent : (~frun /\ \E i \in DOMAIN Waiting : Waiting[i] = n)
                            ~> (out >= n)
=============================================================================
