----------------------------- MODULE AudioRate -----------------------------
(***************************************************************************)
(* The frequency control of the sound output (audio.c:127-190), one        *)
(* callback: how far the read pointer moves per sample played, as a        *)
(* fraction of 2^17. The long term step "inc" follows the average filling  *)
(* of the ring; the step of the callback leans further, after a short term *)
(* average.                                                                *)
(***************************************************************************)
EXTENDS Integers

CONSTANTS
  Nominal,    \* audio_inc_p, the line frequency over that of the device
  Ideal,      \* AUDIO_FILL
  Long, Short \* previous callbacks that the averages look back to: 31 and 7

\* The filling averaged over this callback and some before it, rounded.
Averaged(brem, sum, n) == (brem + sum + (n + 1) \div 2 - 1) \div (n + 1)

\* Frequency scaling, when it is enabled. The differential part knows no
\* limits.
Slowest == (Nominal * 50) \div 100
Fastest == (Nominal * 105) \div 100

Proportional(inc, average) ==
  IF average < Ideal /\ inc > Slowest THEN inc - 1
  ELSE IF average > Ideal /\ inc < Fastest THEN inc + 1
  ELSE inc

Differential(inc, average, previous) ==
  IF average < previous THEN inc - 1
  ELSE IF average > previous THEN inc + 1
  ELSE inc

Above(x, y) == IF x > y THEN x - y ELSE 0

CallbackStep(inc, average) ==
  inc - Above(Ideal, average) \div 8
      - Above((Ideal * 7) \div 8, average) \div 2
      + Above(average, Ideal) \div 8
      + Above(average, (Ideal * 9) \div 8)
      + Above(average, (Ideal * 3) \div 2) * 8
=============================================================================
