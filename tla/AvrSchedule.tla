----------------------------- MODULE AvrSchedule -----------------------------
(***************************************************************************)
(* The event schedule of cu_avr.c is unobservable: the core that processes *)
(* its peripherals at cycle_next_event (AvrHw with Eager false) implements *)
(* the one that processes them on every cycle (Eager true), where the next *)
(* event's cycle plays no part.                                            *)
(***************************************************************************)
EXTENDS AvrHw

EveryCycle == INSTANCE AvrHw WITH
  Eager <- TRUE,
  hw    <- [hw EXCEPT !.next = 0]

\* Flags, interrupts and completions come at the very cycle they would with
\* every peripheral looked at on every cycle.
ImplementsEveryCycle == EveryCycle!Spec
=============================================================================
