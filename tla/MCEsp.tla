-------------------------------- MODULE MCEsp --------------------------------
(***************************************************************************)
(* EspAt for TLC.                                                          *)
(***************************************************************************)
EXTENDS EspAt

\* Time matters in transparent mode only, where it may pass before anything else
\* happens; a deadline is set before it is read again. Bytes in front of a command
\* only make it fail, and an echo is only said. What a step said or handed over
\* matters to no later one.
View ==
  LET mode == IF esp.mode = "AT"
                THEN << [esp EXCEPT !.end = 0, !.line = <<>>, !.echo = FALSE], Len(esp.line) >>
                ELSE << [esp EXCEPT !.echo = FALSE], now, fresh >>
  IN << mode, fds, HandedIntact, past >>
==============================================================================
